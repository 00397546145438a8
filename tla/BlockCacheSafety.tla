-------------------------- MODULE BlockCacheSafety --------------------------
(***************************************************************************)
(* Safety of the block cache for any number of frames, blocks and sectors: *)
(* every variable keeps its type, a held block is never in flight, no      *)
(* assert fails and no walk leaves its list, and a block is in flight once *)
(* at most.                                                                *)
(***************************************************************************)

EXTENDS BlockCache, ListProofs, FiniteSetTheorems

-----------------------------------------------------------------------------
(* Types of the small definitions *)

LEMMA SectorsFinite == IsFiniteSet(Sectors)
BY FS_Interval, SizeAssumption DEF Sectors

LEMMA NodeTypes ==
  /\ Frames \subseteq Nodes /\ Heads \subseteq Nodes /\ NoFrame \notin Frames
  /\ \A x \in Nodes : x \in Heads \/ x \in Frames
BY SizeAssumption
   DEF Frames, Nodes, Heads, NoFrame, free, errored, dirty, clean, io_pending

LEMMA CounterTypes ==
  ASSUME NEW a \in Int, NEW b \in Int
  PROVE  /\ Minus(a, b) \in 0 .. Width - 1
         /\ Plus1(a) \in 0 .. Width - 1
BY SizeAssumption DEF Minus, Plus1

LEMMA CountTypes ==
  ASSUME NEW a \in 0 .. Width - 1, NEW b
  PROVE  /\ UncountDirty(a, b) \in 0 .. Width - 1
         /\ CountDirty(a, b) \in 0 .. Width - 1
<1>1. a \in Int
  BY SizeAssumption
<1>2. Minus(a, 1) \in 0 .. Width - 1 /\ Plus1(a) \in 0 .. Width - 1
  BY <1>1, CounterTypes
<1> QED BY <1>2 DEF UncountDirty, CountDirty

LEMMA NodeList ==
  ASSUME NEW l \in [n : [Nodes -> Nodes], p : [Nodes -> Nodes]],
         NEW head \in Nodes, NEW f \in Nodes
  PROVE  /\ list_init(l, head) \in [n : [Nodes -> Nodes], p : [Nodes -> Nodes]]
         /\ list_del(l, f) \in [n : [Nodes -> Nodes], p : [Nodes -> Nodes]]
         /\ list_move(l, head, f) \in [n : [Nodes -> Nodes], p : [Nodes -> Nodes]]
         /\ list_splice(l, head, f) \in [n : [Nodes -> Nodes], p : [Nodes -> Nodes]]
BY ListOpsType DEF ListMemory

LEMMA HeadTypes ==
  /\ {free, errored, dirty, clean, io_pending} \subseteq Nodes
  /\ \A b : ListFor(b) \in Nodes
BY NodeTypes DEF Heads, ListFor

\* The runs of a block are sets of sectors, and finitely many.
LEMMA RunTypes ==
  ASSUME NEW bits \in SUBSET Sectors
  PROVE  Runs(bits) \subseteq SUBSET Sectors /\ IsFiniteSet(Runs(bits))
<1>1. Runs(bits) \subseteq SUBSET Sectors
  BY DEF Runs
<1>2. IsFiniteSet(SUBSET Sectors)
  BY SectorsFinite, FS_SUBSET
<1> QED BY <1>1, <1>2, FS_Subset

LEMMA NewBlockType ==
  ASSUME NEW k \in Keys \cup {NoKey}
  PROVE  NewBlockOf(k) \in Blocks
BY DEF NewBlockOf, Blocks

\* The records of a call.
LEMMA IdleTypes ==
  ASSUME NEW r \in BOOLEAN
  PROVE  /\ Idle(r) \in Calls /\ Idle(r).pc = "idle"
         /\ Return(r) \in Calls /\ Return(r).pc = "idle"
<1>1. free \in Nodes
  BY HeadTypes
<1> QED BY <1>1 DEF Return, Idle, Calls, Pcs, ReadMode, Modes

LEMMA StartTypes ==
  ASSUME NEW op \in AllOps, NEW pc \in Pcs
  PROVE  /\ Start(op, pc) \in Calls
         /\ Start(op, pc).pc = pc /\ Start(op, pc).op = op
<1>1. Idle(TRUE) \in Calls
  BY IdleTypes
<1> QED BY <1>1 DEF Start, Calls

LEMMA AtTypes ==
  ASSUME call \in Calls, NEW pc \in Pcs
  PROVE  /\ At(pc) \in Calls
         /\ At(pc).pc = pc /\ At(pc).op = call.op /\ At(pc).key = call.key
         /\ At(pc).f = call.f /\ At(pc).todo = call.todo
BY DEF At, Calls

\* Every way a call starts.
LEMMA Starts ==
  /\ Start("get", "alloc") \in Calls /\ Start("get", "alloc").pc = "alloc"
  /\ Start("prefetch", "alloc") \in Calls /\ Start("prefetch", "alloc").pc = "alloc"
  /\ Start("put", "writeback") \in Calls /\ Start("put", "writeback").pc = "writeback"
  /\ Start("flush", "flush") \in Calls /\ Start("flush", "flush").pc = "flush"
  /\ Start("destroy", "flush") \in Calls /\ Start("destroy", "flush").pc = "flush"
  /\ Start("invalidate_block", "invalidate") \in Calls /\ Start("invalidate_block", "invalidate").pc = "invalidate"
  /\ Start("invalidate_dev", "writeback_v") \in Calls /\ Start("invalidate_dev", "writeback_v").pc = "writeback_v"
  /\ Start("invalidate_all", "writeback_v") \in Calls /\ Start("invalidate_all", "writeback_v").pc = "writeback_v"
BY StartTypes DEF AllOps, Pcs

\* Filling in a call keeps it a call.
LEMMA CallEdits ==
  ASSUME NEW c \in Calls
  PROVE  /\ \A k \in Keys :
              [c EXCEPT !.key = k] \in Calls /\ [c EXCEPT !.key = k].pc = c.pc
         /\ \A k \in Keys, m \in Modes :
              /\ [c EXCEPT !.key = k, !.mode = m] \in Calls
              /\ [c EXCEPT !.key = k, !.mode = m].pc = c.pc
         /\ \A k \in Keys, f \in Frames, pc \in Pcs :
              /\ [c EXCEPT !.key = k, !.f = f, !.pc = pc] \in Calls
              /\ [c EXCEPT !.key = k, !.f = f, !.pc = pc].f = f
              /\ [c EXCEPT !.key = k, !.f = f, !.pc = pc].pc = pc
         /\ \A k \in Keys, todo \in SUBSET Keys :
              /\ [c EXCEPT !.key = k, !.todo = todo] \in Calls
              /\ [c EXCEPT !.key = k, !.todo = todo].todo = todo
              /\ [c EXCEPT !.key = k, !.todo = todo].pc = c.pc
         /\ \A f \in Frames :
              /\ [c EXCEPT !.f = f] \in Calls
              /\ [c EXCEPT !.f = f].f = f /\ [c EXCEPT !.f = f].pc = c.pc
         /\ \A x \in Nodes :
              [c EXCEPT !.node = x] \in Calls /\ [c EXCEPT !.node = x].pc = c.pc
         /\ \A i \in Int :
              [c EXCEPT !.left = i] \in Calls /\ [c EXCEPT !.left = i].pc = c.pc
         /\ \A x \in Nodes, i \in Int :
              /\ [c EXCEPT !.node = x, !.left = i] \in Calls
              /\ [c EXCEPT !.node = x, !.left = i].pc = c.pc
         /\ \A todo \in SUBSET Keys :
              /\ [c EXCEPT !.todo = todo] \in Calls
              /\ [c EXCEPT !.todo = todo].todo = todo
              /\ [c EXCEPT !.todo = todo].pc = c.pc
         /\ \A todo \in SUBSET Keys, r \in BOOLEAN :
              /\ [c EXCEPT !.todo = todo, !.ret = r] \in Calls
              /\ [c EXCEPT !.todo = todo, !.ret = r].todo = todo
              /\ [c EXCEPT !.todo = todo, !.ret = r].pc = c.pc
         /\ [c EXCEPT !.batch = TRUE] \in Calls
         /\ [c EXCEPT !.batch = TRUE].f = c.f /\ [c EXCEPT !.batch = TRUE].pc = c.pc
<1>1. \A k \in Keys :
        [c EXCEPT !.key = k] \in Calls /\ [c EXCEPT !.key = k].pc = c.pc
  BY DEF Calls
<1>2. \A k \in Keys, m \in Modes :
        /\ [c EXCEPT !.key = k, !.mode = m] \in Calls
        /\ [c EXCEPT !.key = k, !.mode = m].pc = c.pc
  BY DEF Calls
<1>3. \A k \in Keys, f \in Frames, pc \in Pcs :
        /\ [c EXCEPT !.key = k, !.f = f, !.pc = pc] \in Calls
        /\ [c EXCEPT !.key = k, !.f = f, !.pc = pc].f = f
        /\ [c EXCEPT !.key = k, !.f = f, !.pc = pc].pc = pc
  BY DEF Calls
<1>4. \A k \in Keys, todo \in SUBSET Keys :
        /\ [c EXCEPT !.key = k, !.todo = todo] \in Calls
        /\ [c EXCEPT !.key = k, !.todo = todo].todo = todo
        /\ [c EXCEPT !.key = k, !.todo = todo].pc = c.pc
  BY DEF Calls
<1>5. \A f \in Frames :
        /\ [c EXCEPT !.f = f] \in Calls
        /\ [c EXCEPT !.f = f].f = f /\ [c EXCEPT !.f = f].pc = c.pc
  BY DEF Calls
<1>6. \A x \in Nodes :
        [c EXCEPT !.node = x] \in Calls /\ [c EXCEPT !.node = x].pc = c.pc
  BY DEF Calls
<1>7. \A i \in Int :
        [c EXCEPT !.left = i] \in Calls /\ [c EXCEPT !.left = i].pc = c.pc
  BY DEF Calls
<1>8. \A x \in Nodes, i \in Int :
        /\ [c EXCEPT !.node = x, !.left = i] \in Calls
        /\ [c EXCEPT !.node = x, !.left = i].pc = c.pc
  BY DEF Calls
<1>9. \A todo \in SUBSET Keys :
        /\ [c EXCEPT !.todo = todo] \in Calls
        /\ [c EXCEPT !.todo = todo].todo = todo
        /\ [c EXCEPT !.todo = todo].pc = c.pc
  BY DEF Calls
<1>10. \A todo \in SUBSET Keys, r \in BOOLEAN :
         /\ [c EXCEPT !.todo = todo, !.ret = r] \in Calls
         /\ [c EXCEPT !.todo = todo, !.ret = r].todo = todo
         /\ [c EXCEPT !.todo = todo, !.ret = r].pc = c.pc
  BY DEF Calls
<1>11. [c EXCEPT !.batch = TRUE] \in Calls
  BY DEF Calls
<1>12. [c EXCEPT !.batch = TRUE].f = c.f /\ [c EXCEPT !.batch = TRUE].pc = c.pc
  BY DEF Calls
<1> QED BY <1>1, <1>2, <1>3, <1>4, <1>5, <1>6, <1>7, <1>8, <1>9, <1>10, <1>11, <1>12

-----------------------------------------------------------------------------
(* Type correctness *)

\* The frame a call works on, and the frames it has still to visit, are real.
CallOK ==
  /\ call.pc \in {"new_block", "finish_get", "wait_block", "wait_written",
                  "invalidate"} => call.f \in Frames
  /\ call.pc \in {"writeback_v", "invalidate_v"} =>
       \A k \in call.todo : rtree[k] \in Frames

TypeInv == TypeOK /\ CallOK

\* What _issue leaves behind, whatever runs the engine accepts.
LEMMA IssueTypes ==
  ASSUME TypeOK,
         NEW l \in [n : [Nodes -> Nodes], p : [Nodes -> Nodes]],
         NEW f \in Frames, NEW b \in Blocks, NEW d \in {"read", "write"},
         NEW next \in Calls,
         issue(l, f, b, d, next)
  PROVE  /\ lists' \in [n : [Nodes -> Nodes], p : [Nodes -> Nodes]]
         /\ blocks' \in [Frames -> Blocks]
         /\ nr_io_pending' \in 0 .. Width - 1
         /\ inflight' \subseteq Ios
         /\ call' \in {next, At("abort")}
<1>1. CASE b.pending
  BY <1>1 DEF issue, TypeOK
<1>2. CASE ~b.pending /\ b.io_count # 0
  BY <1>2 DEF issue, TypeOK
<1>3. CASE ~b.pending /\ b.io_count = 0
  <2> DEFINE runs == IF d = "write" THEN Runs(b.dirty_bits) ELSE {Sectors}
             moved == list_move(l, io_pending, f)
             early(ok) == {r \in runs \ ok :
                             \A q \in ok : \A x \in r, y \in q : x < y}
  <2>1. runs \subseteq SUBSET Sectors /\ IsFiniteSet(runs)
    BY RunTypes, FS_Singleton DEF Blocks
  <2>2. PICK ok \in SUBSET runs :
          /\ lists' = IF early(ok) = {} THEN moved ELSE list_move(moved, errored, f)
          /\ blocks' = [blocks EXCEPT ![f] =
                         [b EXCEPT !.io_dir = d,
                                   !.pending = (early(ok) = {}),
                                   !.io_count = Cardinality(ok),
                                   !.error = @ \/ ok # runs]]
          /\ nr_io_pending' = Minus(Plus1(nr_io_pending), Cardinality(early(ok)))
          /\ inflight' = inflight \cup
               {[frame |-> f, key |-> b.key, dir |-> d, secs |-> r] : r \in ok}
          /\ call' = next
    BY <1>3 DEF issue, Taken
  <2>3. Cardinality(ok) \in Nat /\ Cardinality(early(ok)) \in Nat
    <3>1. IsFiniteSet(ok) /\ IsFiniteSet(early(ok))
      BY <2>1, FS_Subset
    <3> QED BY <3>1, FS_CardinalityType
  <2>4. lists' \in [n : [Nodes -> Nodes], p : [Nodes -> Nodes]]
    BY <2>2, NodeList, HeadTypes, NodeTypes
  <2>5. blocks' \in [Frames -> Blocks]
    BY <2>2, <2>3 DEF TypeOK, Blocks
  <2>6. nr_io_pending' \in 0 .. Width - 1
    <3>1. nr_io_pending \in Int
      BY SizeAssumption DEF TypeOK
    <3>2. Plus1(nr_io_pending) \in 0 .. Width - 1
      BY <3>1, CounterTypes
    <3>3. Plus1(nr_io_pending) \in Int
      BY <3>2, SizeAssumption
    <3> QED BY <2>2, <2>3, <3>3, CounterTypes
  <2>7. inflight' \subseteq Ios
    BY <2>1, <2>2 DEF TypeOK, Ios, Blocks
  <2> QED BY <2>2, <2>4, <2>5, <2>6, <2>7
<1> QED BY <1>1, <1>2, <1>3

LEMMA InitTypes == Init => TypeInv
<1> SUFFICES ASSUME Init PROVE TypeInv
  OBVIOUS
<1>1. lists \in [n : [Nodes -> Nodes], p : [Nodes -> Nodes]]
  BY SizeAssumption
     DEF Init, InitLists, Nodes, Heads, free, errored, dirty, clean, io_pending
<1>2. blocks \in [Frames -> Blocks]
  BY NewBlockType DEF Init
<1>3. call \in Calls /\ call.pc = "idle"
  BY IdleTypes DEF Init
<1>4. {nr_locked, nr_dirty, nr_io_pending} \subseteq 0 .. Width - 1
  BY SizeAssumption DEF Init
<1> QED BY <1>1, <1>2, <1>3, <1>4 DEF Init, TypeInv, TypeOK, CallOK

\* The calls clients make.
LEMMA ClientTypes ==
  ASSUME TypeInv, Client
  PROVE  TypeInv'
<1> USE DEF TypeInv
<1>1. ASSUME NEW k \in Keys, NEW readonly \in BOOLEAN, NEW m \in GetModes,
             io_get_block_mask(k, readonly, m)
      PROVE  TypeInv'
  <2> DEFINE f == rtree[k]
             got == [Start("get", "alloc") EXCEPT !.key = k, !.mode = m]
  <2>1. got \in Calls /\ got.pc = "alloc"
    BY Starts, ClientAssumption DEF Calls
  <2>2. f \in Frames \cup {NoFrame}
    BY DEF TypeOK
  <2>3. nr_dirty \in 0 .. Width - 1
    BY DEF TypeOK
  <2>4. Return(FALSE) \in Calls /\ Return(FALSE).pc = "idle"
    BY IdleTypes
  <2>5. /\ lists' \in [n : [Nodes -> Nodes], p : [Nodes -> Nodes]]
        /\ nr_dirty' \in 0 .. Width - 1
        /\ call' \in Calls
        /\ CallOK'
    <3>1. CASE GetRefused(k, readonly, m) \/ ~Cached(k)
      BY <1>1, <2>1, <2>4, <3>1 DEF io_get_block_mask, TypeOK, CallOK
    <3>2. CASE ~GetRefused(k, readonly, m) /\ Cached(k) /\ blocks[f].pending
      <4>1. call' = [got EXCEPT !.pc = "wait_block", !.f = f]
            /\ UNCHANGED <<lists, nr_dirty>>
        BY <1>1, <3>2 DEF io_get_block_mask
      <4>2. f \in Frames
        BY <2>2, <3>2 DEF Cached
      <4> QED BY <2>1, <4>1, <4>2 DEF TypeOK, CallOK, Calls, Pcs
    <3>3. CASE ~GetRefused(k, readonly, m) /\ Cached(k) /\ ~blocks[f].pending
      <4>1. /\ call' = [got EXCEPT !.pc = "finish_get", !.f = f]
            /\ lists' = Relinked(lists, f, blocks[f])
            /\ nr_dirty' = CountDirty(UncountDirty(nr_dirty, blocks[f]), blocks[f])
        BY <1>1, <3>3 DEF io_get_block_mask
      <4>2. f \in Frames
        BY <2>2, <3>3 DEF Cached
      <4>3. lists' \in [n : [Nodes -> Nodes], p : [Nodes -> Nodes]]
        BY <4>1, <4>2, NodeList, HeadTypes, NodeTypes DEF Relinked, TypeOK
      <4> QED BY <2>1, <2>3, <4>1, <4>2, <4>3, CountTypes DEF TypeOK, CallOK, Calls, Pcs
    <3> QED BY <3>1, <3>2, <3>3
  <2> QED BY <1>1, <2>5 DEF io_get_block_mask, TypeOK, ghosts
<1>2. ASSUME NEW k \in Keys, io_prefetch_block(k)
      PROVE  TypeInv'
  <2>1. call' \in Calls /\ call'.pc = "alloc"
    BY <1>2, Starts, CallEdits DEF io_prefetch_block
  <2> QED BY <1>2, <2>1 DEF io_prefetch_block, TypeOK, CallOK, ghosts
<1>3. ASSUME NEW k \in Keys, io_invalidate_block(k)
      PROVE  TypeInv'
  <2>1. rtree[k] \in Frames
    BY <1>3 DEF io_invalidate_block, TypeOK, Cached
  <2>2. call' \in Calls /\ call'.f \in Frames
        /\ call'.pc \in {"wait_block", "invalidate"}
    BY <1>3, <2>1, Starts, ZenonT(60) DEF io_invalidate_block, Calls, Pcs
  <2> QED BY <1>3, <2>2 DEF io_invalidate_block, TypeOK, CallOK, ghosts
<1>4. ASSUME NEW k \in Keys, io_invalidate_dev(k)
      PROVE  TypeInv'
  <2>1. call' \in Calls /\ call'.todo = CachedOf(DevOf[k]) /\ call'.pc = "writeback_v"
    <3>1. CachedOf(DevOf[k]) \in SUBSET Keys
      BY DEF CachedOf
    <3> QED BY <1>4, <3>1, Starts DEF io_invalidate_dev, Calls
  <2> QED BY <1>4, <2>1 DEF io_invalidate_dev, TypeOK, CallOK, ghosts, CachedOf, Cached
<1>5. ASSUME NEW f \in Frames, io_put_block(f)
      PROVE  TypeInv'
  <2>1. blocks[f] \in Blocks /\ blocks[f].ref_count > 0
    BY <1>5 DEF io_put_block, TypeOK, Held
  <2>2. blocks' \in [Frames -> Blocks]
    BY <1>5, <2>1 DEF io_put_block, TypeOK, Blocks
  <2>3. nr_locked \in Int
    BY SizeAssumption DEF TypeOK
  <2>4. nr_locked' \in 0 .. Width - 1
    <3>1. Minus(nr_locked, 1) \in 0 .. Width - 1
      BY <2>3, CounterTypes
    <3> QED BY <1>5, <3>1 DEF io_put_block, TypeOK
  <2>5. unsaved' \in [Keys -> SUBSET Sectors] /\ wmask' \in [Frames -> SUBSET Sectors]
    BY <1>5 DEF io_put_block, TypeOK
  <2>6. nr_available \in Int
    <3>1. nr_dirty \in Int /\ nr_io_pending \in Int /\ NrCacheBlocks \in Int
      BY SizeAssumption DEF TypeOK
    <3>2. Minus(nr_dirty, nr_io_pending) \in 0 .. Width - 1
      BY <3>1, CounterTypes
    <3>3. Minus(nr_dirty, nr_io_pending) \in Int
      BY <3>2, SizeAssumption
    <3>4. nr_available \in 0 .. Width - 1
      BY <3>1, <3>3, CounterTypes DEF nr_available
    <3> QED BY <3>4, SizeAssumption
  <2>7. call' \in Calls /\ call'.pc \in {"writeback", "idle"}
    <3>1. lists.n[dirty] \in Nodes
      BY HeadTypes DEF TypeOK
    <3>2. High - nr_available \in Int
      BY <2>6, SizeAssumption
    <3>3. \A i \in Int, x \in Nodes :
            /\ [Start("put", "writeback") EXCEPT !.node = x, !.left = i] \in Calls
            /\ [Start("put", "writeback") EXCEPT !.node = x, !.left = i].pc = "writeback"
      BY Starts DEF Calls
    <3>4. CASE ~(blocks[f].dirty_bits # {} /\ nr_available < Low)
      BY <1>5, <3>4, IdleTypes DEF io_put_block
    <3>5. CASE blocks[f].dirty_bits # {} /\ nr_available < Low
      BY <1>5, <3>1, <3>2, <3>3, <3>5 DEF io_put_block
    <3> QED BY <3>4, <3>5
  <2> QED BY <1>5, <2>2, <2>4, <2>5, <2>7 DEF io_put_block, TypeOK, CallOK
<1>6. CASE io_flush \/ io_manager_destroy
  <2>1. lists' \in [n : [Nodes -> Nodes], p : [Nodes -> Nodes]]
    <3>1. dirty \in Nodes /\ errored \in Nodes
      BY HeadTypes
    <3>2. list_splice(lists, dirty, errored) \in [n : [Nodes -> Nodes], p : [Nodes -> Nodes]]
      BY <3>1, NodeList DEF TypeOK
    <3> QED BY <1>6, <3>2 DEF io_flush, io_manager_destroy
  <2>2. call' \in Calls /\ call'.pc = "flush"
    BY <1>6, Starts DEF io_flush, io_manager_destroy
  <2> QED BY <1>6, <2>1, <2>2 DEF io_flush, io_manager_destroy, TypeOK, CallOK, ghosts
<1>7. CASE io_invalidate_all
  <2>1. call' \in Calls /\ call'.todo = {k \in Keys : Cached(k)} /\ call'.pc = "writeback_v"
    <3>1. {k \in Keys : Cached(k)} \in SUBSET Keys
      OBVIOUS
    <3> QED BY <1>7, <3>1, Starts, CallEdits DEF io_invalidate_all
  <2> QED BY <1>7, <2>1 DEF io_invalidate_all, TypeOK, CallOK, ghosts, Cached
<1> QED BY <1>1, <1>2, <1>3, <1>4, <1>5, <1>6, <1>7 DEF Client

\* The steps of a call.
LEMMA WalkTypes ==
  ASSUME TypeOK, NEW x \in Nodes
  PROVE  /\ lists.n[x] \in Nodes
         /\ \A h \in Heads : lists.n[x] # h /\ ~Lost(lists.n[x], h) => lists.n[x] \in Frames
BY NodeTypes DEF TypeOK, Lost

LEMMA AllocTypes ==
  ASSUME TypeInv, alloc_block \/ evict
  PROVE  TypeInv'
<1> USE DEF TypeInv
<1>1. call \in Calls /\ free \in Nodes /\ clean \in Nodes /\ free \in Heads
  BY HeadTypes DEF TypeOK, Heads
<1>2. \A pc \in {"evict", "undefined", "new_block", "scan"} :
        At(pc) \in Calls /\ At(pc).pc = pc
  BY <1>1, AtTypes DEF Pcs
<1>3. CASE alloc_block
  <2>1. CASE list_empty(lists, free)
    BY <1>2, <1>3, <2>1 DEF alloc_block, TypeOK, CallOK, ghosts
  <2>2. CASE ~list_empty(lists, free)
    <3>1. lists' = list_del(lists, lists.n[free])
          /\ call' = IF Lost(lists.n[free], free) THEN At("undefined")
                     ELSE [At("new_block") EXCEPT !.f = lists.n[free]]
      BY <1>3, <2>2 DEF alloc_block
    <3>2. lists.n[free] \in Nodes
      BY <1>1, WalkTypes
    <3>3. lists' \in [n : [Nodes -> Nodes], p : [Nodes -> Nodes]]
      BY <3>1, <3>2, NodeList DEF TypeOK
    <3>4. ~Lost(lists.n[free], free) => lists.n[free] \in Frames
      BY <1>1, <2>2, WalkTypes DEF list_empty
    <3>5. call' \in Calls /\ CallOK'
      <4>1. \A g \in Frames : /\ [At("new_block") EXCEPT !.f = g] \in Calls
                              /\ [At("new_block") EXCEPT !.f = g].f = g
                              /\ [At("new_block") EXCEPT !.f = g].pc = "new_block"
        BY <1>2 DEF Calls
      <4>2. CASE Lost(lists.n[free], free)
        BY <1>2, <3>1, <4>2 DEF CallOK
      <4>3. CASE ~Lost(lists.n[free], free)
        BY <3>1, <3>4, <4>1, <4>3 DEF CallOK
      <4> QED BY <4>2, <4>3
    <3> QED BY <1>3, <3>3, <3>5 DEF alloc_block, TypeOK, ghosts
  <2> QED BY <2>1, <2>2
<1>4. CASE evict
  <2>1. lists.n[clean] \in Nodes
    BY <1>1, WalkTypes
  <2>2. call' \in Calls /\ call'.pc \in {"idle", "scan"}
    BY <1>2, <1>4, <2>1, CallEdits, IdleTypes DEF evict
  <2> QED BY <1>4, <2>2 DEF evict, TypeOK, CallOK, ghosts
<1> QED BY <1>3, <1>4

LEMMA ScanTypes ==
  ASSUME TypeInv, find_unused_clean_block
  PROVE  TypeInv'
<1> USE DEF TypeInv
<1> DEFINE f == call.node
<1>1. call \in Calls /\ f \in Nodes /\ dirty \in Nodes
  BY HeadTypes DEF TypeOK, Calls
<1>2. \A pc \in {"undefined", "new_block", "writeback", "wait_io"} :
        At(pc) \in Calls /\ At(pc).pc = pc
  BY <1>1, AtTypes DEF Pcs
<1>3. CASE f \in Frames /\ Unused(f)
  <2>1. /\ nr_dirty' = UncountDirty(nr_dirty, blocks[f])
        /\ lists' = list_del(lists, f)
        /\ rtree' = [rtree EXCEPT ![blocks[f].key] = NoFrame]
        /\ call' = [At("new_block") EXCEPT !.f = f]
    BY <1>3 DEF find_unused_clean_block
  <2>2. nr_dirty' \in 0 .. Width - 1
    BY <2>1, CountTypes DEF TypeOK
  <2>3. lists' \in [n : [Nodes -> Nodes], p : [Nodes -> Nodes]]
    BY <1>1, <2>1, NodeList DEF TypeOK
  <2>4. call' \in Calls /\ CallOK'
    <3>1. \A g \in Frames : /\ [At("new_block") EXCEPT !.f = g] \in Calls
                            /\ [At("new_block") EXCEPT !.f = g].f = g
                            /\ [At("new_block") EXCEPT !.f = g].pc = "new_block"
      BY <1>2 DEF Calls
    <3> QED BY <1>3, <2>1, <3>1 DEF CallOK
  <2>5. rtree' \in [Keys -> Frames \cup {NoFrame}]
    BY <2>1 DEF TypeOK
  <2> QED BY <2>2, <2>3, <2>4, <2>5 DEF find_unused_clean_block, TypeOK, ghosts
<1>4. CASE ~(f \in Frames /\ Unused(f))
  <2>1. lists.n[f] \in Nodes /\ lists.n[dirty] \in Nodes
    BY <1>1, WalkTypes
  <2>2. call.pc = "scan" /\ WritebackBatch \in Int
    BY SizeAssumption DEF find_unused_clean_block
  <2>3. [call EXCEPT !.node = lists.n[f]] \in Calls
        /\ [call EXCEPT !.node = lists.n[f]].pc = "scan"
    BY <1>1, <2>1, <2>2, CallEdits, ZenonT(60)
  <2>4. [At("writeback") EXCEPT !.node = lists.n[dirty], !.left = WritebackBatch] \in Calls
        /\ [At("writeback") EXCEPT !.node = lists.n[dirty],
                                   !.left = WritebackBatch].pc = "writeback"
    BY <1>2, <2>1, <2>2 DEF Calls
  <2>5. call' \in Calls /\ call'.pc \in {"scan", "undefined", "idle", "writeback", "wait_io"}
    BY <1>2, <1>4, <2>3, <2>4, IdleTypes DEF find_unused_clean_block
  <2>6. UNCHANGED <<lists, rtree, nr_dirty>>
    BY <1>4 DEF find_unused_clean_block
  <2> QED BY <2>5, <2>6 DEF find_unused_clean_block, TypeOK, CallOK, ghosts
<1> QED BY <1>3, <1>4

LEMMA NewBlockTypes ==
  ASSUME TypeInv, new_block
  PROVE  TypeInv'
<1> USE DEF TypeInv
<1> DEFINE f == call.f
           alone == list_init(lists, f)
           next == IF call.op = "prefetch" THEN Return(TRUE) ELSE At("wait_block")
<1>1. call \in Calls /\ f \in Frames /\ call.key \in Keys \cup {NoKey}
  BY DEF new_block, TypeOK, CallOK, Calls
<1>2. alone \in [n : [Nodes -> Nodes], p : [Nodes -> Nodes]]
  BY <1>1, NodeList, NodeTypes DEF TypeOK
<1>3. \A pc \in {"finish_get", "wait_block", "abort"} :
        At(pc) \in Calls /\ At(pc).pc = pc /\ At(pc).f = f
  BY <1>1, AtTypes DEF Pcs
<1>4. next \in Calls /\ next.pc \in {"idle", "wait_block"} /\ (next.pc = "wait_block" => next.f = f)
  BY <1>3, IdleTypes
<1>5. NewBlockOf(call.key) \in Blocks
  BY <1>1, NewBlockType
<1>6. /\ lists' \in [n : [Nodes -> Nodes], p : [Nodes -> Nodes]]
      /\ blocks' \in [Frames -> Blocks]
      /\ nr_io_pending' \in 0 .. Width - 1
      /\ inflight' \subseteq Ios
      /\ call' \in Calls
      /\ CallOK'
  <2>1. CASE MustRead(call.mode)
    <3>1. issue(alone, f, NewBlockOf(call.key), "read", next)
      BY <2>1 DEF new_block
    <3> HIDE DEF alone, f, next
    <3>2. /\ lists' \in [n : [Nodes -> Nodes], p : [Nodes -> Nodes]]
          /\ blocks' \in [Frames -> Blocks]
          /\ nr_io_pending' \in 0 .. Width - 1
          /\ inflight' \subseteq Ios
          /\ call' \in {next, At("abort")}
      BY <1>1, <1>2, <1>4, <1>5, <3>1, IssueTypes
    <3> QED BY <1>1, <1>3, <1>4, <3>2 DEF CallOK
  <2>2. CASE ~MustRead(call.mode)
    <3>1. /\ lists' = alone
          /\ blocks' = [blocks EXCEPT ![f] = NewBlockOf(call.key)]
          /\ call' = At("finish_get")
          /\ UNCHANGED <<nr_io_pending, inflight>>
      BY <2>2 DEF new_block
    <3> QED BY <1>1, <1>2, <1>3, <1>5, <3>1 DEF CallOK, TypeOK
  <2> QED BY <2>1, <2>2
<1>7. rtree' \in [Keys -> Frames \cup {NoFrame}] /\ good' \in [Frames -> SUBSET Sectors]
  BY <1>1 DEF new_block, TypeOK
<1> QED BY <1>6, <1>7 DEF new_block, TypeOK

LEMMA FinishGetTypes ==
  ASSUME TypeInv, finish_get
  PROVE  TypeInv'
<1> USE DEF TypeInv
<1> DEFINE f == call.f
           b == blocks[f]
           mask == call.mode.mask
           writes == call.mode.type # "read"
           touched == IF writes THEN [b EXCEPT !.dirty_bits = @ \cup mask] ELSE b
           zeroed == IF call.mode.type = "zero" THEN Zeroed(mask, b.dirty_bits) ELSE {}
           linked == Relinked(lists, f, touched)
           counted == CountDirty(UncountDirty(nr_dirty, b), touched)
           recycle == b.error /\ b.io_dir = "read"
           first == b.ref_count = 0
<1>1. call \in Calls /\ f \in Frames /\ b \in Blocks
  BY DEF finish_get, TypeOK, CallOK
<1>2. mask \in SUBSET Sectors
  BY <1>1 DEF Calls, Modes
<1>3. touched \in Blocks /\ [touched EXCEPT !.ref_count = @ + 1] \in Blocks
  BY <1>1, <1>2 DEF Blocks
<1>4. linked \in [n : [Nodes -> Nodes], p : [Nodes -> Nodes]]
  BY <1>1, NodeList, NodeTypes, HeadTypes DEF Relinked, TypeOK
<1>5. counted \in 0 .. Width - 1 /\ UncountDirty(counted, touched) \in 0 .. Width - 1
  <2>1. UncountDirty(nr_dirty, b) \in 0 .. Width - 1
    BY CountTypes DEF TypeOK
  <2> QED BY <2>1, CountTypes
<1>6. \A r \in BOOLEAN : Return(r) \in Calls /\ Return(r).pc = "idle"
  BY IdleTypes
<1>7. nr_locked' \in 0 .. Width - 1
  <2>1. nr_locked \in 0 .. Width - 1 /\ nr_locked \in Int
    BY SizeAssumption DEF TypeOK
  <2>2. Plus1(nr_locked) \in 0 .. Width - 1
    BY <2>1, CounterTypes
  <2>3. nr_locked' \in {nr_locked, Plus1(nr_locked)}
    BY DEF finish_get
  <2> QED BY <2>1, <2>2, <2>3
<1>8. lists' \in [n : [Nodes -> Nodes], p : [Nodes -> Nodes]]
  <2>1. list_move(linked, free, f) \in [n : [Nodes -> Nodes], p : [Nodes -> Nodes]]
    BY <1>1, <1>4, NodeList, NodeTypes, HeadTypes
  <2>2. lists' = IF recycle THEN list_move(linked, free, f) ELSE linked
    BY DEF finish_get
  <2> QED BY <1>4, <2>1, <2>2
<1>9. nr_dirty' \in 0 .. Width - 1
  <2>1. nr_dirty' = IF recycle THEN UncountDirty(counted, touched) ELSE counted
    BY DEF finish_get
  <2> QED BY <1>5, <2>1
<1>10. rtree' \in [Keys -> Frames \cup {NoFrame}]
  BY DEF finish_get, TypeOK
<1>11. blocks' \in [Frames -> Blocks]
  <2>1. blocks' \in {[blocks EXCEPT ![f] = touched],
                     [blocks EXCEPT ![f] = [touched EXCEPT !.ref_count = @ + 1]]}
    BY DEF finish_get
  <2> HIDE DEF touched
  <2> QED BY <1>1, <1>3, <2>1 DEF TypeOK
<1>12. call' \in Calls /\ call'.pc = "idle"
  BY <1>6 DEF finish_get
<1>13. good' \in [Frames -> SUBSET Sectors]
  <2>1. good[f] \in SUBSET Sectors
    BY <1>1 DEF TypeOK
  <2>2. good' \in {[good EXCEPT ![f] = @ \ zeroed],
                   [good EXCEPT ![f] = (@ \ zeroed) \cup (IF writes THEN mask ELSE {})]}
    BY DEF finish_get
  <2> HIDE DEF zeroed, mask, writes
  <2> QED BY <1>1, <1>2, <2>1, <2>2 DEF TypeOK
<1>14. wmask' \in [Frames -> SUBSET Sectors]
  <2>1. wmask' \in {wmask, [wmask EXCEPT ![f] = @ \cup mask]}
    BY DEF finish_get
  <2> HIDE DEF mask
  <2> QED BY <1>1, <1>2, <2>1 DEF TypeOK
<1> QED BY <1>7, <1>8, <1>9, <1>10, <1>11, <1>12, <1>13, <1>14
        DEF finish_get, TypeOK, CallOK

\* _issue_write is _issue of a block without its error.
LEMMA IssueWriteTypes ==
  ASSUME TypeOK,
         NEW l \in [n : [Nodes -> Nodes], p : [Nodes -> Nodes]],
         NEW f \in Frames, NEW next \in Calls,
         issue_write(l, f, next)
  PROVE  /\ lists' \in [n : [Nodes -> Nodes], p : [Nodes -> Nodes]]
         /\ blocks' \in [Frames -> Blocks]
         /\ nr_io_pending' \in 0 .. Width - 1
         /\ inflight' \subseteq Ios
         /\ call' \in {next, At("abort")}
<1>1. [blocks[f] EXCEPT !.error = FALSE] \in Blocks
  <2>1. blocks[f] \in Blocks
    BY DEF TypeOK
  <2> QED BY <2>1 DEF Blocks
<1>2. issue(l, f, [blocks[f] EXCEPT !.error = FALSE], "write", next)
  BY DEF issue_write
<1> QED BY <1>1, <1>2, IssueTypes

LEMMA AbortType == call \in Calls => At("abort") \in Calls /\ At("abort").pc = "abort"
BY AtTypes DEF Pcs

LEMMA WritebackTypes ==
  ASSUME TypeInv, writeback
  PROVE  TypeInv'
<1> USE DEF TypeInv
<1> DEFINE f == call.node
           done == f = dirty \/ (f \in Frames /\ call.left = 0)
           next == [call EXCEPT !.node = lists.n[f]]
           last == [next EXCEPT !.left = @ - 1]
<1>1. call \in Calls /\ f \in Nodes /\ call.pc = "writeback" /\ call.left \in Int
  BY DEF writeback, TypeOK, Calls
<1>2. next \in Calls /\ next.pc = "writeback"
  BY <1>1, WalkTypes, CallEdits, ZenonT(60)
<1>3. last \in Calls /\ last.pc = "writeback"
  <2>1. next.left \in Int
    BY <1>2 DEF Calls
  <2> HIDE DEF next
  <2> QED BY <1>2, <2>1 DEF Calls
<1>4. CASE f \in Frames /\ ~done /\ Unused(f)
  <2>1. issue_write(lists, f, last)
    BY <1>4 DEF writeback
  <2> HIDE DEF last, f
  <2>2. /\ lists' \in [n : [Nodes -> Nodes], p : [Nodes -> Nodes]]
        /\ blocks' \in [Frames -> Blocks]
        /\ nr_io_pending' \in 0 .. Width - 1
        /\ inflight' \subseteq Ios
        /\ call' \in {last, At("abort")}
    BY <1>3, <1>4, <2>1, IssueWriteTypes DEF TypeOK
  <2>3. call' \in Calls /\ call'.pc \in {"writeback", "abort"}
    BY <1>1, <1>3, <2>2, AbortType
  <2> QED BY <2>2, <2>3 DEF writeback, TypeOK, CallOK, ghosts
<1>5. CASE ~(f \in Frames /\ ~done /\ Unused(f))
  <2>1. \A pc \in {"undefined", "wait_io"} : At(pc) \in Calls /\ At(pc).pc = pc
    BY <1>1, AtTypes DEF Pcs
  <2>2. UNCHANGED <<lists, blocks, nr_io_pending, inflight>>
        /\ call' \in {At("undefined"), next, Return(TRUE), At("wait_io")}
    BY <1>5 DEF writeback
  <2>3. call' \in Calls /\ call'.pc \in {"undefined", "writeback", "idle", "wait_io"}
    BY <1>2, <2>1, <2>2, IdleTypes
  <2> QED BY <2>2, <2>3 DEF writeback, TypeOK, CallOK, ghosts
<1> QED BY <1>4, <1>5

LEMMA FlushTypes ==
  ASSUME TypeInv, flush
  PROVE  TypeInv'
<1> USE DEF TypeInv
<1> DEFINE f == lists.n[dirty]
           popped == list_del(lists, f)
<1>1. call \in Calls /\ call.pc = "flush" /\ dirty \in Nodes /\ dirty \in Heads
  BY HeadTypes DEF flush, TypeOK, Heads
<1>2. popped \in [n : [Nodes -> Nodes], p : [Nodes -> Nodes]]
  BY <1>1, WalkTypes, NodeList DEF TypeOK
<1>3. \A pc \in {"undefined", "wait_all"} : At(pc) \in Calls /\ At(pc).pc = pc
  BY <1>1, AtTypes DEF Pcs
<1>4. CASE list_empty(lists, dirty) \/ Lost(f, dirty)
  <2>1. UNCHANGED <<lists, blocks, nr_io_pending, inflight>>
        /\ call' \in {At("wait_all"), At("undefined")}
    BY <1>4 DEF flush
  <2> QED BY <1>3, <2>1 DEF flush, TypeOK, CallOK, ghosts
<1>5. CASE ~list_empty(lists, dirty) /\ ~Lost(f, dirty)
  <2>1. f \in Frames
    BY <1>1, <1>5, WalkTypes DEF list_empty
  <2>2. CASE ~Unused(f) \/ blocks[f].pending
    <3>1. lists' = popped /\ UNCHANGED <<blocks, nr_io_pending, inflight, call>>
      BY <1>5, <2>2 DEF flush
    <3> QED BY <1>1, <1>2, <3>1 DEF flush, TypeOK, CallOK, ghosts
  <2>3. CASE ~(~Unused(f) \/ blocks[f].pending)
    <3>1. issue_write(popped, f, call)
      BY <1>5, <2>3 DEF flush
    <3> HIDE DEF popped, f
    <3>2. /\ lists' \in [n : [Nodes -> Nodes], p : [Nodes -> Nodes]]
          /\ blocks' \in [Frames -> Blocks]
          /\ nr_io_pending' \in 0 .. Width - 1
          /\ inflight' \subseteq Ios
          /\ call' \in {call, At("abort")}
      BY <1>1, <1>2, <2>1, <3>1, IssueWriteTypes
    <3>3. call' \in Calls /\ call'.pc \in {"flush", "abort"}
      BY <1>1, <3>2, AbortType
    <3> QED BY <3>2, <3>3 DEF flush, TypeOK, CallOK, ghosts
  <2> QED BY <2>2, <2>3
<1> QED BY <1>4, <1>5

\* _recycle_block
LEMMA RecycleTypes ==
  ASSUME TypeOK, NEW f \in Frames, recycle_block(f)
  PROVE  /\ nr_dirty' \in 0 .. Width - 1
         /\ lists' \in [n : [Nodes -> Nodes], p : [Nodes -> Nodes]]
         /\ rtree' \in [Keys -> Frames \cup {NoFrame}]
<1>1. nr_dirty' \in 0 .. Width - 1
  BY CountTypes DEF recycle_block, TypeOK
<1>2. free \in Nodes /\ f \in Nodes
  BY HeadTypes, NodeTypes
<1>3. lists' \in [n : [Nodes -> Nodes], p : [Nodes -> Nodes]]
  BY <1>2, NodeList DEF recycle_block, TypeOK
<1>4. rtree' \in [Keys -> Frames \cup {NoFrame}]
  BY DEF recycle_block, TypeOK
<1> QED BY <1>1, <1>3, <1>4

LEMMA InvalidateBlockTypes ==
  ASSUME TypeInv, invalidate_block
  PROVE  TypeInv'
<1> USE DEF TypeInv
<1> DEFINE f == call.f
<1>1. call \in Calls /\ f \in Frames
  BY DEF invalidate_block, TypeOK, CallOK
<1>2. \A r \in BOOLEAN : Return(r) \in Calls /\ Return(r).pc = "idle"
  BY IdleTypes
<1>3. CASE f \in Held
  <2>1. call' = Return(FALSE)
        /\ UNCHANGED <<lists, blocks, rtree, nr_dirty, nr_io_pending, inflight>>
    BY <1>3 DEF invalidate_block
  <2> QED BY <1>2, <2>1 DEF invalidate_block, TypeOK, CallOK, ghosts
<1>4. CASE f \notin Held /\ blocks[f].dirty_bits # {}
  <2>1. issue_write(lists, f, At("wait_written")) /\ UNCHANGED <<rtree, nr_dirty>>
    BY <1>4 DEF invalidate_block
  <2>2. At("wait_written") \in Calls /\ At("wait_written").f = f
    BY <1>1, AtTypes DEF Pcs
  <2> HIDE DEF f
  <2>3. /\ lists' \in [n : [Nodes -> Nodes], p : [Nodes -> Nodes]]
        /\ blocks' \in [Frames -> Blocks]
        /\ nr_io_pending' \in 0 .. Width - 1
        /\ inflight' \subseteq Ios
        /\ call' \in {At("wait_written"), At("abort")}
    BY <1>1, <2>1, <2>2, IssueWriteTypes DEF TypeOK
  <2>4. At("wait_written").pc = "wait_written"
    BY <1>1, AtTypes DEF Pcs
  <2>5. call' \in Calls /\ CallOK'
    BY <1>1, <2>2, <2>3, <2>4, AbortType DEF CallOK
  <2> QED BY <2>1, <2>3, <2>5 DEF invalidate_block, TypeOK, ghosts
<1>5. CASE f \notin Held /\ blocks[f].dirty_bits = {}
  <2>1. recycle_block(f) /\ call' = Return(TRUE)
        /\ UNCHANGED <<blocks, nr_io_pending, inflight>>
    BY <1>5 DEF invalidate_block
  <2>2. /\ nr_dirty' \in 0 .. Width - 1
        /\ lists' \in [n : [Nodes -> Nodes], p : [Nodes -> Nodes]]
        /\ rtree' \in [Keys -> Frames \cup {NoFrame}]
    BY <1>1, <2>1, RecycleTypes
  <2> QED BY <1>2, <2>1, <2>2 DEF invalidate_block, TypeOK, CallOK, ghosts
<1> QED BY <1>3, <1>4, <1>5

LEMMA InvalidateDevTypes ==
  ASSUME TypeInv, writeback_v \/ writeback_v_done \/ invalidate_v \/ remove_prefix
  PROVE  TypeInv'
<1> USE DEF TypeInv
<1>1. call \in Calls /\ call.todo \in SUBSET Keys /\ call.ret \in BOOLEAN
  BY DEF TypeOK, Calls
<1>2. \A r \in BOOLEAN : Return(r) \in Calls /\ Return(r).pc = "idle"
  BY IdleTypes
<1>3. CASE writeback_v
  <2>1. PICK k \in call.todo :
          LET next == [call EXCEPT !.todo = @ \ {k}] IN
          IF blocks[rtree[k]].dirty_bits # {}
          THEN issue_write(lists, rtree[k], next)
          ELSE call' = next /\ UNCHANGED <<lists, blocks, nr_io_pending, inflight>>
    BY <1>3 DEF writeback_v
  <2> DEFINE next == [call EXCEPT !.todo = @ \ {k}]
             f == rtree[k]
  <2>2. call.pc = "writeback_v" /\ \A j \in call.todo : rtree[j] \in Frames
    BY <1>3 DEF writeback_v, CallOK
  <2>3. next \in Calls /\ next.todo = call.todo \ {k} /\ next.pc = "writeback_v"
    BY <1>1, <2>2 DEF Calls
  <2>4. /\ lists' \in [n : [Nodes -> Nodes], p : [Nodes -> Nodes]]
        /\ blocks' \in [Frames -> Blocks]
        /\ nr_io_pending' \in 0 .. Width - 1
        /\ inflight' \subseteq Ios
        /\ call' \in {next, At("abort")}
    <3>1. CASE blocks[f].dirty_bits # {}
      <4>1. issue_write(lists, f, next) /\ f \in Frames
        BY <2>1, <2>2, <3>1
      <4> HIDE DEF f, next
      <4> QED BY <2>3, <4>1, IssueWriteTypes DEF TypeOK
    <3>2. CASE blocks[f].dirty_bits = {}
      BY <2>1, <3>2 DEF TypeOK
    <3> QED BY <3>1, <3>2
  <2>5. UNCHANGED rtree
    BY <1>3 DEF writeback_v
  <2>6. call' \in Calls /\ CallOK'
    <3>1. CASE call' = At("abort")
      BY <1>1, <3>1, AbortType DEF CallOK
    <3>2. CASE call' = next
      BY <2>2, <2>3, <2>5, <3>2 DEF CallOK
    <3> QED BY <2>4, <3>1, <3>2
  <2> QED BY <1>3, <2>4, <2>6 DEF writeback_v, TypeOK, ghosts
<1>4. CASE writeback_v_done
  <2>1. At("wait_all") \in Calls /\ At("wait_all").pc = "wait_all"
    BY <1>1, AtTypes DEF Pcs
  <2>2. call' \in Calls /\ call'.pc \in {"wait_all", "idle"}
    BY <1>2, <1>4, <2>1 DEF writeback_v_done
  <2>3. rtree' \in [Keys -> Frames \cup {NoFrame}]
    BY <1>4 DEF writeback_v_done, TypeOK
  <2> QED BY <1>4, <2>2, <2>3 DEF writeback_v_done, TypeOK, CallOK, ghosts
<1>5. CASE invalidate_v
  <2> DEFINE kept(f) == blocks[f].error \/ blocks[f].dirty_bits # {} \/ f \in Held
  <2>1. PICK k \in call.todo :
          /\ call' = [call EXCEPT !.todo = @ \ {k}, !.ret = @ /\ ~kept(rtree[k])]
          /\ lists' = IF kept(rtree[k]) THEN lists ELSE list_move(lists, free, rtree[k])
          /\ nr_dirty' = IF kept(rtree[k]) THEN nr_dirty
                         ELSE UncountDirty(nr_dirty, blocks[rtree[k]])
    BY <1>5 DEF invalidate_v
  <2>2. call.pc = "invalidate_v" /\ \A j \in call.todo : rtree[j] \in Frames
    BY <1>5 DEF invalidate_v, CallOK
  <2>3. (call.ret /\ ~kept(rtree[k])) \in BOOLEAN
    BY <1>1
  <2> HIDE DEF kept
  <2>4. call' \in Calls /\ call'.todo = call.todo \ {k} /\ call'.pc = "invalidate_v"
    <3>1. \A r \in BOOLEAN, todo \in SUBSET Keys :
            /\ [call EXCEPT !.todo = todo, !.ret = r] \in Calls
            /\ [call EXCEPT !.todo = todo, !.ret = r].todo = todo
            /\ [call EXCEPT !.todo = todo, !.ret = r].pc = "invalidate_v"
      BY <1>1, <2>2 DEF Calls
    <3> QED BY <1>1, <2>1, <2>3, <3>1
  <2>5. lists' \in [n : [Nodes -> Nodes], p : [Nodes -> Nodes]]
    <3>1. free \in Nodes /\ rtree[k] \in Nodes
      BY <2>2, HeadTypes, NodeTypes
    <3> QED BY <2>1, <3>1, NodeList DEF TypeOK
  <2>6. nr_dirty' \in 0 .. Width - 1
    BY <2>1, CountTypes DEF TypeOK
  <2>7. CallOK'
    BY <1>5, <2>2, <2>4 DEF invalidate_v, CallOK
  <2> QED BY <1>5, <2>4, <2>5, <2>6, <2>7 DEF invalidate_v, TypeOK, ghosts
<1>6. CASE remove_prefix
  <2>1. rtree' \in [Keys -> Frames \cup {NoFrame}]
    BY <1>6 DEF remove_prefix, TypeOK
  <2>2. call' \in Calls /\ call'.pc = "idle"
    BY <1>1, <1>2, <1>6 DEF remove_prefix
  <2> QED BY <1>6, <2>1, <2>2 DEF remove_prefix, TypeOK, CallOK, ghosts
<1> QED BY <1>3, <1>4, <1>5, <1>6

LEMMA CompletionTypes ==
  ASSUME TypeInv, Completion
  PROVE  TypeInv'
<1> USE DEF TypeInv
<1>1. PICK io \in inflight, success \in BOOLEAN : complete_io(io, success)
  BY DEF Completion
<1> DEFINE f == io.frame
           b == blocks[f]
           failed == b.error \/ ~success
<1>2. /\ io \in Ios /\ f \in Frames /\ b \in Blocks /\ call \in Calls
      /\ failed \in BOOLEAN /\ f \in Nodes /\ errored \in Nodes /\ clean \in Nodes
  BY HeadTypes, NodeTypes DEF TypeOK, Ios, Blocks
<1>3. /\ lists' \in [n : [Nodes -> Nodes], p : [Nodes -> Nodes]]
      /\ blocks' \in [Frames -> Blocks]
      /\ nr_io_pending' \in 0 .. Width - 1
      /\ call' \in {At("abort"), [call EXCEPT !.batch = TRUE]}
  <2>1. CASE b.io_count = 0
    BY <1>1, <2>1 DEF complete_io, TypeOK
  <2>2. CASE b.io_count # 0 /\ b.io_count > 1
    <3>1. /\ blocks' = [blocks EXCEPT ![f].io_count = @ - 1, ![f].error = failed]
          /\ UNCHANGED <<lists, nr_io_pending>>
          /\ call' = [call EXCEPT !.batch = TRUE]
      BY <1>1, <2>2 DEF complete_io
    <3>2. b.io_count - 1 \in Nat
      BY <1>2, <2>2 DEF Blocks
    <3> HIDE DEF failed
    <3> QED BY <1>2, <3>1, <3>2 DEF TypeOK, Blocks
  <2>3. CASE b.io_count # 0 /\ ~(b.io_count > 1)
    <3>1. /\ blocks' = [blocks EXCEPT ![f].io_count = 0,
                          ![f].error = failed,
                          ![f].pending = FALSE,
                          ![f].dirty_bits = DirtyAfter(b, failed)]
          /\ nr_io_pending' = Minus(nr_io_pending, 1)
          /\ lists' = list_move(lists, IF failed THEN errored ELSE clean, f)
          /\ call' = [call EXCEPT !.batch = TRUE]
      BY <1>1, <2>3 DEF complete_io
    <3>2. DirtyAfter(b, failed) \in SUBSET Sectors
      BY <1>2 DEF DirtyAfter, Blocks
    <3> HIDE DEF failed
    <3>3. blocks' \in [Frames -> Blocks]
      BY <1>2, <3>1, <3>2 DEF TypeOK, Blocks
    <3>4. nr_io_pending \in Int
      BY SizeAssumption DEF TypeOK
    <3>5. nr_io_pending' \in 0 .. Width - 1
      BY <3>1, <3>4, CounterTypes
    <3>6. lists' \in [n : [Nodes -> Nodes], p : [Nodes -> Nodes]]
      BY <1>2, <3>1, NodeList DEF TypeOK
    <3> QED BY <3>1, <3>3, <3>5, <3>6
  <2> QED BY <2>1, <2>2, <2>3
<1>4. inflight' \subseteq Ios
  BY <1>1 DEF complete_io, TypeOK
<1>5. good' \in [Frames -> SUBSET Sectors] /\ unsaved' \in [Keys -> SUBSET Sectors]
  <2>1. good' \in {good, [good EXCEPT ![f] = Sectors \ unsaved[io.key]]}
    BY <1>1 DEF complete_io
  <2>2. unsaved' \in {unsaved, [unsaved EXCEPT ![io.key] = @ \ (io.secs \cap good[f])]}
    BY <1>1 DEF complete_io
  <2> QED BY <1>2, <2>1, <2>2 DEF TypeOK
<1>6. UNCHANGED <<rtree, nr_locked, nr_dirty, wmask>> /\ InWait
  BY <1>1 DEF complete_io
<1>7. call' \in Calls /\ CallOK'
  <2>1. CASE call' = At("abort")
    BY <1>2, <2>1, AbortType DEF CallOK
  <2>2. CASE call' = [call EXCEPT !.batch = TRUE]
    <3>1. LET next == [call EXCEPT !.batch = TRUE]
          IN next \in Calls /\ next.pc = call.pc /\ next.f = call.f
      BY <1>2 DEF Calls
    <3> QED BY <1>6, <2>2, <3>1 DEF CallOK, InWait
  <2> QED BY <1>3, <2>1, <2>2
<1> QED BY <1>3, <1>4, <1>5, <1>6, <1>7 DEF TypeOK

LEMMA WaitedTypes ==
  ASSUME TypeInv, waited_io \/ waited_block \/ waited_written \/ waited_all
  PROVE  TypeInv'
<1> USE DEF TypeInv
<1>1. call \in Calls
  BY DEF TypeOK
<1>2. \A pc \in {"evict", "finish_get", "invalidate", "destroyed", "invalidate_v"} :
        At(pc) \in Calls /\ At(pc).pc = pc /\ At(pc).f = call.f
  BY <1>1, AtTypes DEF Pcs
<1>3. \A r \in BOOLEAN : Return(r) \in Calls /\ Return(r).pc = "idle"
  BY IdleTypes
<1>4. CASE waited_io
  BY <1>2, <1>4 DEF waited_io, TypeOK, CallOK, ghosts
<1>5. CASE waited_block
  <2>1. call.f \in Frames
    BY <1>5 DEF waited_block, Waited, CallOK
  <2>2. call' \in Calls /\ call'.pc \in {"finish_get", "invalidate"} /\ call'.f = call.f
    BY <1>2, <1>5 DEF waited_block
  <2> QED BY <1>5, <2>1, <2>2 DEF waited_block, TypeOK, CallOK, ghosts
<1>6. CASE waited_written
  <2>1. call.f \in Frames
    BY <1>6 DEF waited_written, Waited, CallOK
  <2>2. call' \in Calls /\ call'.pc = "idle"
    BY <1>3, <1>6 DEF waited_written
  <2>3. /\ nr_dirty' \in 0 .. Width - 1
        /\ lists' \in [n : [Nodes -> Nodes], p : [Nodes -> Nodes]]
        /\ rtree' \in [Keys -> Frames \cup {NoFrame}]
    <3>1. CASE blocks[call.f].error
      BY <1>6, <3>1 DEF waited_written, TypeOK
    <3>2. CASE ~blocks[call.f].error
      BY <1>6, <2>1, <3>2, RecycleTypes DEF waited_written
    <3> QED BY <3>1, <3>2
  <2> QED BY <1>6, <2>2, <2>3 DEF waited_written, TypeOK, CallOK, ghosts
<1>7. CASE waited_all
  <2>1. rtree' \in [Keys -> Frames \cup {NoFrame}]
    BY <1>7 DEF waited_all, TypeOK
  <2>2. call' \in Calls /\ CallOK'
    <3>1. CASE call.op = "flush"
      <4>1. list_empty(lists, errored) \in BOOLEAN
        BY DEF list_empty
      <4>2. call' = Return(list_empty(lists, errored))
        BY <1>7, <3>1 DEF waited_all
      <4> QED BY <1>3, <4>1, <4>2 DEF CallOK
    <3>2. CASE call.op = "destroy"
      <4>1. call' = At("destroyed")
        BY <1>7, <3>2 DEF waited_all
      <4> QED BY <1>2, <4>1 DEF CallOK
    <3>3. CASE call.op \notin {"flush", "destroy"}
      <4> DEFINE d == DevOf[call.key]
                 next == [At("invalidate_v") EXCEPT !.todo = CachedOf(d)]
      <4>1. call' = next /\ UNCHANGED rtree
        BY <1>7, <3>3 DEF waited_all
      <4>2. CachedOf(d) \in SUBSET Keys /\ \A k \in CachedOf(d) : rtree[k] \in Frames
        BY DEF CachedOf, Cached, TypeOK
      <4>3. next \in Calls /\ next.todo = CachedOf(d) /\ next.pc = "invalidate_v"
        BY <1>2, <4>2 DEF Calls
      <4> QED BY <4>1, <4>2, <4>3 DEF CallOK
    <3> QED BY <3>1, <3>2, <3>3
  <2> QED BY <1>7, <2>1, <2>2 DEF waited_all, TypeOK, ghosts
<1> QED BY <1>4, <1>5, <1>6, <1>7

LEMMA NextTypes ==
  ASSUME TypeInv, [Next]_vars
  PROVE  TypeInv'
<1>1. CASE UNCHANGED vars \/ Destroyed
  BY <1>1 DEF Destroyed, vars, TypeInv, TypeOK, CallOK
<1>2. CASE Client
  BY <1>2, ClientTypes
<1>3. CASE Step
  BY <1>3, AllocTypes, ScanTypes, NewBlockTypes, FinishGetTypes, WritebackTypes,
     FlushTypes, InvalidateBlockTypes, InvalidateDevTypes, CompletionTypes,
     WaitedTypes DEF Step
<1> QED BY <1>1, <1>2, <1>3 DEF Next

\* Whatever the number and size of the blocks, the masks, the thresholds and
\* the faults: every variable keeps its type, so the counters wrap and never
\* leave the range of an unsigned, list links lead to list nodes, and calls
\* work on frames that exist.
THEOREM TypeCorrect == Spec => []TypeOK
<1>1. Init => TypeInv
  BY InitTypes
<1>2. TypeInv /\ [Next]_vars => TypeInv'
  BY NextTypes
<1>3. TypeInv => TypeOK
  BY DEF TypeInv
<1> QED BY <1>1, <1>2, <1>3, PTL DEF Spec

-----------------------------------------------------------------------------
\* The clients and the engine the theorems are about.  Flushing while a dirty
\* block is held takes the block off every list, and a run refused before one
\* that is accepted completes the block too early (README, section 5).  An
\* engine that refuses every run of a block is among those allowed.
QuietClients ==
  /\ "issue" \notin Faults
  /\ {"flush", "destroy", "invalidate_dev", "invalidate_all"} \cap Ops \subseteq QuietOps

\* A block that cannot be written when its device is invalidated leaves the
\* tree but stays on a list (README, section 5).
TreeStays == "invalidate_dev" \notin Ops \/ Faults = {}

-----------------------------------------------------------------------------
(* The inductive invariant.  on[f] is the head of the list frame f is on,  *)
(* and `out' holds the frame that is on no list, if there is one.          *)

InFlight(f) == {io \in inflight : io.frame = f}

\* Between _alloc_block and _issue or _relink one frame is on no list.
HandOK(out) ==
  \/ out = {} /\ call.pc # "new_block"
  \/ /\ out = {call.f} /\ call.pc \in {"new_block", "finish_get"}
     /\ call.pc = "finish_get" =>
          lists.n[call.f] = call.f /\ list_del(lists, call.f) = lists

\* Only dirty blocks are written, unless io_flush takes a clean block from
\* errored to dirty: one that a prefetch could not read.
ReadsWork == {"read", "full"} \cap Faults = {}
FlushesWork == ReadsWork \/ "prefetch" \notin Ops \/ {"flush", "destroy"} \cap Ops = {}

\* A block is on the list of head for a reason.
Filed(b, head) ==
  /\ head = errored => b.error
  /\ ReadsWork /\ head \in {errored, io_pending} /\ b.io_dir = "read" =>
       head = io_pending /\ ~b.error
  /\ FlushesWork =>
       (head = dirty \/ (head \in {errored, io_pending} /\ b.io_dir = "write")
          => b.dirty_bits # {})

\* Without prefetches who reads a block waits for it, and recycles the frame
\* when the read fails.
Reading(f) == call.op = "get" /\ call.pc \in {"wait_block", "finish_get"} /\ call.f = f
ReadsOK(on, out) ==
  "prefetch" \notin Ops =>
    \A f \in Frames \ out :
      on[f] \in {errored, io_pending} /\ blocks[f].io_dir = "read" => Reading(f)

\* io_pending holds the pending blocks, held blocks are on clean or dirty, and
\* blocks on clean are.
FramesOK(on, out) ==
  \A f \in Frames :
    /\ blocks[f].pending <=> f \notin out /\ on[f] = io_pending
    /\ blocks[f].ref_count > 0 =>
         ~blocks[f].error /\ f \notin out /\ on[f] = ListFor(blocks[f])
    /\ f \notin out /\ on[f] = clean => blocks[f].dirty_bits = {}
    /\ f \notin out => Filed(blocks[f], on[f])
    /\ Faults = {} => ~blocks[f].error

\* io_count counts the ios in flight, which are those of one _issue.
IosOK ==
  /\ \A f \in Frames :
       /\ IsFiniteSet(InFlight(f))
       /\ blocks[f].io_count = Cardinality(InFlight(f))
       /\ blocks[f].io_count > 0 => blocks[f].pending
  /\ \A io \in inflight :
       io.key = blocks[io.frame].key /\ io.dir = blocks[io.frame].io_dir
  /\ \A i, j \in inflight : i.frame = j.frame /\ i # j => i.secs \cap j.secs = {}

\* What the code knows at each place of a call.
PlaceOK(on) ==
  /\ call.pc \notin {"abort", "undefined"}
  /\ call.pc \in {"alloc", "evict", "scan", "new_block", "wait_io"} =>
       call.op \in {"get", "prefetch"}
  /\ call.pc = "finish_get" => call.op \in {"get", "prefetch"}
  /\ call.pc = "wait_block" => call.op \in {"get", "invalidate_block"}
  /\ call.pc \in {"invalidate", "wait_written"} => call.op = "invalidate_block"
  /\ call.pc = "writeback" => call.op \in {"get", "put"}
  /\ call.pc = "flush" => call.op \in {"flush", "destroy"}
  /\ call.pc = "wait_all" => call.op \in {"flush", "destroy", "invalidate_dev"}
  /\ call.pc = "wait_all" /\ call.op # "invalidate_dev" => \A f \in Frames : on[f] # dirty
  /\ call.pc = "writeback_v" => call.op \in {"invalidate_dev", "invalidate_all"}
  /\ call.pc = "invalidate_v" => call.op = "invalidate_dev"
  /\ call.pc = "scan" => on[call.node] = clean
  /\ call.pc = "writeback" => on[call.node] = dirty
  /\ call.pc \in {"finish_get", "invalidate"} => ~blocks[call.f].pending
  /\ call.pc = "wait_written" => blocks[call.f].ref_count = 0
  /\ call.pc = "flush" =>
       \A f \in Frames : blocks[f].ref_count > 0 => blocks[f].dirty_bits = {}
  /\ call.pc = "writeback_v" => \A k \in call.todo : blocks[rtree[k]].ref_count = 0
  /\ call.pc \in {"invalidate_v", "destroyed"} => \A f \in Frames : ~blocks[f].pending

\* A frame is in use when it is in the tree.
InUse(f, on, out) == IF f \in out THEN call.pc = "finish_get" ELSE on[f] # free

\* The cached blocks of the device that is being invalidated: nobody holds one,
\* and a dirty one is written or will be.
OfDevice(k) == DevOf[k] = DevOf[call.key] /\ rtree[k] # NoFrame
Emptying(on) ==
  /\ Faults = {} /\ call.pc \in {"writeback_v", "wait_all", "invalidate_v"}
  /\ call.key \in Keys /\ \A k \in call.todo : k \in Keys /\ OfDevice(k)
  /\ call.pc = "wait_all" => call.todo = {}
  /\ \A k \in Keys : OfDevice(k) =>
       /\ blocks[rtree[k]].ref_count = 0
       /\ \/ blocks[rtree[k]].dirty_bits = {}
          \/ call.pc # "invalidate_v" /\ (blocks[rtree[k]].pending \/ k \in call.todo)
       /\ call.pc = "invalidate_v" /\ k \notin call.todo => on[rtree[k]] = free

\* A block that _invalidate_v has freed is in the tree till remove_prefix.
Freed(k) == call.pc = "invalidate_v" /\ OfDevice(k) /\ k \notin call.todo

\* The tree maps a block to the one frame that holds it, and a block that is
\* given a frame is not in the tree yet.
TreeOK(on, out) ==
  /\ call.op = "invalidate_dev" => Emptying(on)
  /\ call.pc # "destroyed" =>
       \A f \in Frames :
         InUse(f, on, out) => blocks[f].key \in Keys /\ rtree[blocks[f].key] = f
  /\ \A k \in Keys : rtree[k] # NoFrame =>
       (InUse(rtree[k], on, out) \/ Freed(k)) /\ blocks[rtree[k]].key = k
  /\ (\/ call.pc \in {"alloc", "evict", "scan", "new_block", "wait_io"}
      \/ call.pc = "writeback" /\ call.op = "get") =>
       call.key \in Keys /\ rtree[call.key] = NoFrame
  /\ call.pc \in {"wait_block", "finish_get", "invalidate", "wait_written"} =>
       InUse(call.f, on, out)
  /\ call.pc \in {"wait_block", "invalidate", "wait_written"} /\ call.op # "get" =>
       call.key \in Keys /\ rtree[call.key] = call.f
  /\ call.op = "invalidate_all" => \A k \in Keys : rtree[k] = NoFrame

Safe(on, pos, out) ==
  /\ Chained(lists, Nodes, Heads, out, on, pos)
  /\ HandOK(out)
  /\ FramesOK(on, out)
  /\ IosOK
  /\ PlaceOK(on)
  /\ ReadsOK(on, out)
  /\ TreeStays => TreeOK(on, out)

OpOK == call.op \in Ops \cup {"none", "invalidate_dev"}

SafeInv == TypeInv /\ OpOK /\ \E on, pos, out : Safe(on, pos, out)

LEMMA HeadFacts ==
  /\ Frames \subseteq Nodes \ Heads /\ Frames = Nodes \ Heads /\ NoFrame \notin Frames
  /\ {free, errored, dirty, clean, io_pending} \subseteq Heads
  /\ \A b : ListFor(b) \in {clean, dirty}
  /\ clean # free /\ clean # errored /\ clean # dirty /\ clean # io_pending
  /\ dirty # free /\ dirty # errored /\ dirty # io_pending
  /\ free # errored /\ free # io_pending /\ errored # io_pending
BY SizeAssumption
   DEF Frames, Nodes, Heads, NoFrame, free, errored, dirty, clean, io_pending, ListFor

-----------------------------------------------------------------------------
(* Lemmas about ios *)

\* Two runs of a block share no sector.
LEMMA RunsDisjoint ==
  ASSUME NEW bits \in SUBSET Sectors, NEW q \in Runs(bits), NEW r \in Runs(bits), q # r
  PROVE  q \cap r = {}
<1> SUFFICES ASSUME NEW x \in q \cap r PROVE FALSE
  OBVIOUS
<1>1. bits \subseteq Int
  BY DEF Sectors
<1>2. PICK a \in bits, b \in bits :
        q = a .. b /\ q \subseteq bits /\ \A s \in bits \ q : s - 1 \notin q /\ s + 1 \notin q
  BY DEF Runs
<1>3. PICK c \in bits, d \in bits :
        r = c .. d /\ r \subseteq bits /\ \A s \in bits \ r : s - 1 \notin r /\ s + 1 \notin r
  BY DEF Runs
<1>4. a \in Int /\ b \in Int /\ c \in Int /\ d \in Int /\ x \in Int
      /\ a <= x /\ x <= b /\ c <= x /\ x <= d
  BY <1>1, <1>2, <1>3
<1>5. a = c
  <2>1. ASSUME a < c PROVE FALSE
    <3>1. c - 1 \in q /\ c - 1 \notin r /\ (c - 1) + 1 \in r
      BY <1>2, <1>3, <1>4, <2>1
    <3> QED BY <1>2, <1>3, <3>1
  <2>2. ASSUME c < a PROVE FALSE
    <3>1. a - 1 \in r /\ a - 1 \notin q /\ (a - 1) + 1 \in q
      BY <1>2, <1>3, <1>4, <2>2
    <3> QED BY <1>2, <1>3, <3>1
  <2> QED BY <1>4, <2>1, <2>2
<1>6. b = d
  <2>1. ASSUME d < b PROVE FALSE
    <3>1. d + 1 \in q /\ d + 1 \notin r /\ (d + 1) - 1 \in r
      BY <1>2, <1>3, <1>4, <2>1
    <3> QED BY <1>2, <1>3, <3>1
  <2>2. ASSUME b < d PROVE FALSE
    <3>1. b + 1 \in r /\ b + 1 \notin q /\ (b + 1) - 1 \in q
      BY <1>2, <1>3, <1>4, <2>2
    <3> QED BY <1>2, <1>3, <3>1
  <2> QED BY <1>4, <2>1, <2>2
<1> QED BY <1>2, <1>3, <1>5, <1>6

\* The ios of _issue, and the refused runs that come before all others.
IosOf(f, k, d, S) == {[frame |-> f, key |-> k, dir |-> d, secs |-> r] : r \in S}
Early(runs, ok) == {r \in runs \ ok : \A q \in ok : \A x \in r, y \in q : x < y}

\* A set of runs and the ios that carry them out are equally many.
LEMMA IosOfRuns ==
  ASSUME NEW S, IsFiniteSet(S), NEW f, NEW k, NEW d
  PROVE  /\ IsFiniteSet(IosOf(f, k, d, S))
         /\ Cardinality(IosOf(f, k, d, S)) = Cardinality(S)
<1> DEFINE io(r) == [frame |-> f, key |-> k, dir |-> d, secs |-> r]
           T == {io(r) : r \in S}
           g == [r \in S |-> io(r)]
<1>1. g \in Bijection(S, T)
  <2>1. g \in [S -> T]
    OBVIOUS
  <2>2. \A r, q \in S : g[r] = g[q] => r = q
    <3> SUFFICES ASSUME NEW r \in S, NEW q \in S, io(r) = io(q) PROVE r = q
      OBVIOUS
    <3>1. io(r).secs = r /\ io(q).secs = q
      OBVIOUS
    <3> QED BY <3>1
  <2>3. \A t \in T : \E r \in S : g[r] = t
    OBVIOUS
  <2> HIDE DEF g, T
  <2> QED BY <2>1, <2>2, <2>3 DEF Bijection, Injection, Surjection, IsInjective
<1> HIDE DEF g, T
<1>2. IsFiniteSet(T) /\ Cardinality(T) = Cardinality(S)
  BY <1>1, FS_Bijection DEF ExistsBijection
<1> QED BY <1>2 DEF T, IosOf

-----------------------------------------------------------------------------
(* Lemmas about _issue *)

\* Without "issue" faults the engine takes all runs of a block, the first of
\* them, or none; only then is the io over at once.
LEMMA TakenRuns ==
  ASSUME QuietClients, NEW runs, IsFiniteSet(runs), runs \subseteq SUBSET Int,
         {} \notin runs, NEW ok \in Taken(runs)
  PROVE  ok \subseteq runs /\ (Early(runs, ok) # {} => ok = {} /\ runs # {})
<1>1. CASE "full" \notin Faults
  BY <1>1 DEF Taken, QuietClients, Early
<1>2. CASE "full" \in Faults
  <2>1. ok \subseteq runs /\ \A q \in ok, r \in runs \ ok : \A x \in q, y \in r : x < y
    BY <1>2 DEF Taken, QuietClients
  <2>2. ASSUME NEW r \in Early(runs, ok), NEW q \in ok PROVE FALSE
    <3>1. PICK x \in r : TRUE
      BY DEF Early
    <3>2. PICK y \in q : TRUE
      BY <2>1
    <3>3. x \in Int /\ y \in Int /\ x < y /\ y < x
      BY <2>1, <2>2, <3>1, <3>2 DEF Early
    <3> QED BY <3>3
  <2> QED BY <2>1, <2>2 DEF Early
<1> QED BY <1>1, <1>2

\* Neither the runs of a write nor the one run of a read are empty.
LEMMA IssuedRuns ==
  ASSUME NEW b \in Blocks, NEW d
  PROVE  LET runs == IF d = "write" THEN Runs(b.dirty_bits) ELSE {Sectors}
         IN /\ IsFiniteSet(runs) /\ runs \subseteq SUBSET Sectors /\ {} \notin runs
            /\ \A q, r \in runs : q # r => q \cap r = {}
<1>1. b.dirty_bits \in SUBSET Sectors
  BY DEF Blocks
<1>2. 0 \in Sectors
  BY SizeAssumption DEF Sectors
<1>3. {} \notin Runs(b.dirty_bits)
  BY DEF Runs
<1>4. IsFiniteSet({Sectors})
  BY FS_Singleton
<1> QED BY <1>1, <1>2, <1>3, <1>4, RunTypes, RunsDisjoint

\* A frame nobody holds and no io is pending on, and what _issue makes of it:
\* the frame goes to io_pending with its ios in flight or, refused, to errored.
CanIssue(l, f, on, pos, out) ==
  /\ f \in Frames /\ out \subseteq {f} /\ FramesOK(on, out) /\ IosOK
  /\ Chained(list_del(l, f), Nodes, Heads, {f}, on, pos)
  /\ ~blocks[f].pending /\ blocks[f].ref_count = 0

IssuesAs(b, d) ==
  /\ b \in Blocks /\ ~b.pending /\ b.io_count = 0 /\ b.ref_count = 0 /\ ~b.error
  /\ FlushesWork /\ d = "write" => b.dirty_bits # {}

Issued(f, b, d, on) ==
  /\ \A g \in Frames \ {f} : blocks'[g] = blocks[g]
  /\ blocks'[f].key = b.key /\ blocks'[f].ref_count = 0
  /\ blocks'[f].dirty_bits = b.dirty_bits /\ blocks'[f].io_dir = d
  /\ Faults = {} => blocks'[f].pending
  /\ IosOK'
  /\ \E on2, pos2 :
       /\ Chained(lists', Nodes, Heads, {}, on2, pos2)
       /\ \A x \in Nodes \ {f} : on2[x] = on[x]
       /\ on2[f] # free
       /\ FramesOK(on2, {})'

LEMMA IssueSafe ==
  ASSUME TypeOK, QuietClients,
         NEW on, NEW pos, NEW out, NEW f, NEW l, CanIssue(l, f, on, pos, out),
         NEW b, NEW d \in {"read", "write"}, IssuesAs(b, d),
         NEW next, issue(l, f, b, d, next)
  PROVE  call' = next /\ Issued(f, b, d, on)
<1> USE DEF CanIssue, IssuesAs
<1> DEFINE runs == IF d = "write" THEN Runs(b.dirty_bits) ELSE {Sectors}
           moved == list_move(l, io_pending, f)
           early(ok) == Early(runs, ok)
           ios(ok) == IosOf(f, b.key, d, ok)
<1>1. PICK ok \in Taken(runs) :
        /\ lists' = IF early(ok) = {} THEN moved ELSE list_move(moved, errored, f)
        /\ blocks' = [blocks EXCEPT ![f] =
                       [b EXCEPT !.io_dir = d,
                                 !.pending = (early(ok) = {}),
                                 !.io_count = Cardinality(ok),
                                 !.error = @ \/ ok # runs]]
        /\ inflight' = inflight \cup ios(ok)
        /\ call' = next
  BY DEF issue, Early, IosOf
<1>2. /\ IsFiniteSet(runs) /\ runs \subseteq SUBSET Sectors /\ {} \notin runs
      /\ \A q, r \in runs : q # r => q \cap r = {}
  BY IssuedRuns
<1>3. ok \subseteq runs /\ (early(ok) # {} => ok = {} /\ runs # {})
  <2>1. runs \subseteq SUBSET Int
    BY <1>2 DEF Sectors
  <2> HIDE DEF runs
  <2> QED BY <1>2, <2>1, TakenRuns
<1>4. IsFiniteSet(ok) /\ (ok # {} => Cardinality(ok) > 0) /\ Cardinality(ok) \in Nat
      /\ (ok = {} => Cardinality(ok) = 0)
  <2>1. IsFiniteSet(ok)
    BY <1>2, <1>3, FS_Subset
  <2> QED BY <2>1, FS_CardinalityType, FS_EmptySet
<1>5. f \in Nodes \ Heads /\ io_pending \in Heads /\ errored \in Heads /\ free # io_pending /\ free # errored
  BY SizeAssumption DEF Frames, Nodes, Heads, free, errored, dirty, clean, io_pending
<1> HIDE DEF runs, early, ios
<1>6. blocks \in [Frames -> Blocks]
  BY DEF TypeOK
<1>7. /\ \A g \in Frames \ {f} : blocks'[g] = blocks[g]
      /\ blocks'[f].key = b.key /\ blocks'[f].ref_count = 0
      /\ blocks'[f].dirty_bits = b.dirty_bits
      /\ blocks'[f].pending <=> early(ok) = {}
      /\ blocks'[f].io_count = Cardinality(ok) /\ blocks'[f].io_dir = d
  BY <1>1, <1>6 DEF Blocks
<1>8. InFlight(f) = {}
  <2>1. blocks[f].io_count = 0 /\ blocks[f].io_count \in Nat
    BY <1>6 DEF IosOK, Blocks
  <2> QED BY <2>1, FS_EmptySet DEF IosOK
<1>9. IosOK'
  <2>1. ASSUME NEW g \in Frames \ {f} PROVE InFlight(g)' = InFlight(g)
    BY <1>1 DEF InFlight, ios, IosOf
  <2>2. InFlight(f)' = ios(ok)
    BY <1>1, <1>8 DEF InFlight, ios, IosOf
  <2>3. IsFiniteSet(ios(ok)) /\ Cardinality(ios(ok)) = Cardinality(ok)
    BY <1>4, IosOfRuns DEF ios
  <2>4. ASSUME NEW g \in Frames
        PROVE  /\ IsFiniteSet(InFlight(g)')
               /\ blocks'[g].io_count = Cardinality(InFlight(g)')
               /\ blocks'[g].io_count > 0 => blocks'[g].pending
    <3>1. CASE g = f
      BY <1>3, <1>4, <1>7, <2>2, <2>3, <3>1
    <3>2. CASE g # f
      BY <1>7, <2>1, <3>2 DEF IosOK
    <3> QED BY <3>1, <3>2
  <2>5. \A i \in inflight : i.frame \in Frames \ {f}
    BY <1>8 DEF TypeOK, Ios, InFlight
  <2>6. \A i \in ios(ok) : \E r \in ok :
          i = [frame |-> f, key |-> b.key, dir |-> d, secs |-> r]
    BY DEF ios, IosOf
  <2>7. \A i \in inflight' :
          i.key = blocks'[i.frame].key /\ i.dir = blocks'[i.frame].io_dir
    BY <1>1, <1>7, <2>5, <2>6 DEF IosOK
  <2>8. \A i, j \in inflight' : i.frame = j.frame /\ i # j => i.secs \cap j.secs = {}
    BY <1>1, <1>2, <1>3, <2>5, <2>6 DEF IosOK
  <2> QED BY <2>4, <2>7, <2>8 DEF IosOK
<1>10. \E on2, pos2 :
         /\ Chained(lists', Nodes, Heads, {}, on2, pos2)
         /\ \A x \in Nodes \ {f} : on2[x] = on[x]
         /\ on2[f] = IF early(ok) = {} THEN io_pending ELSE errored
  <2>0. on \in [Nodes -> Heads]
    BY DEF Chained
  <2>1. PICK on2, pos2 : Chained(moved, Nodes, Heads, {}, on2, pos2)
                         /\ on2 = [on EXCEPT ![f] = io_pending]
    BY <1>5, MoveChained
  <2>2. CASE early(ok) = {}
    <3>1. lists' = moved
      BY <1>1, <2>2
    <3>2. /\ \A x \in Nodes \ {f} : on2[x] = on[x]
          /\ on2[f] = io_pending
      BY <1>5, <2>0, <2>1
    <3> QED BY <2>1, <2>2, <3>1, <3>2
  <2>3. CASE early(ok) # {}
    <3>1. Chained(list_del(moved, f), Nodes, Heads, {f}, on2, pos2)
      BY <1>5, <2>1, DelChained
    <3>2. PICK on3, pos3 : Chained(list_move(moved, errored, f), Nodes, Heads, {}, on3, pos3)
                           /\ on3 = [on2 EXCEPT ![f] = errored]
      BY <1>5, <3>1, MoveChained
    <3>3. lists' = list_move(moved, errored, f)
      BY <1>1, <2>3
    <3>4. /\ \A x \in Nodes \ {f} : on3[x] = on[x]
          /\ on3[f] = errored
      BY <1>5, <2>0, <2>1, <3>2
    <3> QED BY <2>3, <3>2, <3>3, <3>4
  <2> QED BY <2>2, <2>3
<1>11. PICK on2, pos2 :
         /\ Chained(lists', Nodes, Heads, {}, on2, pos2)
         /\ \A x \in Nodes \ {f} : on2[x] = on[x]
         /\ on2[f] = IF early(ok) = {} THEN io_pending ELSE errored
  BY <1>10
<1>12. FramesOK(on2, {})'
  <2> SUFFICES ASSUME NEW g \in Frames
               PROVE  /\ blocks'[g].pending <=> on2[g] = io_pending
                      /\ blocks'[g].ref_count > 0 =>
                           ~blocks'[g].error /\ on2[g] = ListFor(blocks'[g])
                      /\ on2[g] = clean => blocks'[g].dirty_bits = {}
                      /\ Filed(blocks'[g], on2[g])
                      /\ Faults = {} => ~blocks'[g].error
    BY DEF FramesOK
  <2>1. CASE g = f
    <3>1. Filed(blocks'[f], on2[f]) /\ (Faults = {} => ~blocks'[f].error)
      <4>1. (ReadsWork => ok = runs) /\ (Faults = {} => ok = runs)
        BY DEF Taken, ReadsWork, QuietClients
      <4>2. blocks'[f].error <=> ok # runs
        BY <1>1, <1>6 DEF Blocks
      <4>3. early(ok) # {} => ok # runs
        BY DEF early, Early
      <4> QED BY <1>7, <1>11, <4>1, <4>2, <4>3, HeadFacts DEF Filed
    <3> QED BY <1>7, <1>11, <2>1, <3>1 DEF errored, io_pending, clean
  <2>2. CASE g # f
    <3>1. g \in Nodes \ {f} /\ g \notin out /\ blocks'[g] = blocks[g] /\ on2[g] = on[g]
      BY <1>7, <1>11, <2>2, NodeTypes
    <3> QED BY <3>1 DEF FramesOK
  <2> QED BY <2>1, <2>2
<1>13. Faults = {} => blocks'[f].pending
  <2>1. Faults = {} => ok = runs
    BY DEF Taken
  <2>2. ok = runs => early(ok) = {}
    BY DEF early, Early
  <2> QED BY <1>7, <2>1, <2>2
<1> QED BY <1>1, <1>5, <1>7, <1>9, <1>11, <1>12, <1>13 DEF Issued

\* A step that neither issues nor completes.
LEMMA IosKept ==
  ASSUME TypeOK, IosOK, UNCHANGED inflight,
         \A g \in Frames :
           /\ blocks'[g].key = blocks[g].key /\ blocks'[g].io_dir = blocks[g].io_dir
           /\ blocks'[g].io_count = blocks[g].io_count
           /\ blocks'[g].pending <=> blocks[g].pending
  PROVE  IosOK'
<1>1. \A g \in Frames : InFlight(g)' = InFlight(g)
  BY DEF InFlight
<1>2. \A g \in Frames :
        /\ IsFiniteSet(InFlight(g)')
        /\ blocks'[g].io_count = Cardinality(InFlight(g)')
        /\ blocks'[g].io_count > 0 => blocks'[g].pending
  BY <1>1 DEF IosOK
<1>3. \A io \in inflight' :
        io.key = blocks'[io.frame].key /\ io.dir = blocks'[io.frame].io_dir
  BY DEF IosOK, TypeOK, Ios
<1>4. \A i, j \in inflight' : i.frame = j.frame /\ i # j => i.secs \cap j.secs = {}
  BY DEF IosOK
<1> QED BY <1>2, <1>3, <1>4 DEF IosOK

-----------------------------------------------------------------------------
(* The calls of clients *)

\* Only between _alloc_block and _issue or _relink is a frame on no list.
LEMMA NothingInHand ==
  ASSUME NEW out, HandOK(out), call.pc \notin {"new_block", "finish_get"}
  PROVE  out = {}
BY DEF HandOK

\* A get that waits for a read goes on until it can finish.
ReadGoesOn ==
  call.op = "get" /\ call.pc \in {"wait_block", "finish_get"} =>
    call'.op = "get" /\ call'.pc \in {"wait_block", "finish_get"} /\ call'.f = call.f

\* A step that changes nothing but the call.
LEMMA OnlyCall ==
  ASSUME NEW on, NEW pos, Safe(on, pos, {}),
         UNCHANGED <<lists, blocks, rtree, inflight>>, call'.pc # "new_block", ReadGoesOn,
         PlaceOK(on)', TreeStays => TreeOK(on, {})'
  PROVE  Safe(on, pos, {})'
<1>1. HandOK({})'
  BY DEF HandOK
<1>2. FramesOK(on, {})' /\ IosOK'
  BY DEF Safe, FramesOK, IosOK, InFlight
<1>3. ReadsOK(on, {})'
  BY DEF Safe, ReadsOK, Reading, ReadGoesOn
<1> QED BY <1>1, <1>2, <1>3 DEF Safe

\* _invalidate_dev starts: no block of the device is held.
LEMMA EmptiesDevSafe ==
  ASSUME TypeOK, NEW on, NEW pos, Safe(on, pos, {}), call.pc = "idle",
         NEW k \in Keys, TreeStays => Faults = {},
         \A j \in CachedOf(DevOf[k]) : blocks[rtree[j]].ref_count = 0,
         call' = [Start("invalidate_dev", "writeback_v") EXCEPT
                    !.key = k, !.todo = CachedOf(DevOf[k])],
         UNCHANGED <<lists, blocks, rtree, inflight>>
  PROVE  Safe(on, pos, {})'
<1>1. /\ call'.pc = "writeback_v" /\ call'.op = "invalidate_dev" /\ call'.key = k
      /\ call'.todo = CachedOf(DevOf[k])
  BY DEF Start, Idle
<1>2. PlaceOK(on)'
  BY <1>1 DEF PlaceOK
<1>3. ASSUME TreeStays PROVE TreeOK(on, {})'
  <2>1. Emptying(on)'
    BY <1>1, <1>3 DEF Emptying, OfDevice, CachedOf, Cached
  <2> QED BY <1>1, <1>3, <2>1 DEF Safe, TreeOK, InUse, Freed
<1> QED BY <1>1, <1>2, <1>3, OnlyCall DEF ReadGoesOn

LEMMA StartSafe ==
  ASSUME SafeInv, QuietClients,
         \/ \E k \in Keys : io_prefetch_block(k) \/ io_invalidate_block(k)
                            \/ io_invalidate_dev(k)
         \/ io_invalidate_all
         \/ \E f \in Frames : io_put_block(f)
  PROVE  \E on, pos, out : Safe(on, pos, out)'
<1>1. call.pc = "idle"
  BY DEF io_prefetch_block, io_invalidate_block, io_invalidate_dev, io_invalidate_all,
         io_put_block, MayStart
<1>2. PICK on, pos : Safe(on, pos, {})
  BY <1>1, NothingInHand DEF SafeInv, Safe
<1>3. TypeOK
  BY DEF SafeInv, TypeInv
<1>4. ASSUME NEW k \in Keys, io_prefetch_block(k)
      PROVE  Safe(on, pos, {})'
  <2>1. call'.pc = "alloc" /\ call'.op = "prefetch" /\ call'.key = k
    BY <1>4 DEF io_prefetch_block, Start, Idle
  <2>2. UNCHANGED <<lists, blocks, rtree, inflight>> /\ rtree[k] = NoFrame
    BY <1>4 DEF io_prefetch_block, Cached
  <2>3. PlaceOK(on)'
    BY <2>1 DEF PlaceOK
  <2>4. ASSUME TreeStays PROVE TreeOK(on, {})'
    BY <1>1, <1>2, <2>1, <2>2, <2>4 DEF Safe, TreeOK, InUse, Freed
  <2> QED BY <1>1, <1>2, <2>1, <2>2, <2>3, <2>4, OnlyCall DEF ReadGoesOn
<1>5. ASSUME NEW k \in Keys, io_invalidate_block(k)
      PROVE  Safe(on, pos, {})'
  <2>1. /\ call'.pc = IF blocks[rtree[k]].pending THEN "wait_block" ELSE "invalidate"
        /\ call'.op = "invalidate_block" /\ call'.f = rtree[k] /\ call'.key = k
    BY <1>5 DEF io_invalidate_block, Start, Idle
  <2>2. UNCHANGED <<lists, blocks, rtree, inflight>> /\ rtree[k] # NoFrame
    BY <1>5 DEF io_invalidate_block, Cached
  <2>3. PlaceOK(on)'
    BY <2>1, <2>2 DEF PlaceOK
  <2>4. ASSUME TreeStays PROVE TreeOK(on, {})'
    BY <1>1, <1>2, <2>1, <2>2, <2>4 DEF Safe, TreeOK, InUse, Freed
  <2> QED BY <1>1, <1>2, <2>1, <2>2, <2>3, <2>4, OnlyCall DEF ReadGoesOn
<1>6. ASSUME NEW k \in Keys, io_invalidate_dev(k)
      PROVE  Safe(on, pos, {})'
  <2>1. /\ call' = [Start("invalidate_dev", "writeback_v") EXCEPT
                       !.key = k, !.todo = CachedOf(DevOf[k])]
        /\ UNCHANGED <<lists, blocks, rtree, inflight>> /\ "invalidate_dev" \in Ops
    BY <1>6 DEF io_invalidate_dev, MayStart
  <2>2. Held = {}
    BY <1>6, <2>1 DEF io_invalidate_dev, MayStart, QuietClients
  <2>3. \A j \in CachedOf(DevOf[k]) : blocks[rtree[j]].ref_count = 0
    BY <1>3, <2>2 DEF TypeOK, Blocks, Held, CachedOf, Cached
  <2>4. TreeStays => Faults = {}
    BY <2>1 DEF TreeStays
  <2> QED BY <1>1, <1>2, <1>3, <2>1, <2>3, <2>4, EmptiesDevSafe
<1>7. CASE io_invalidate_all
  <2>1. /\ call'.pc = "writeback_v" /\ call'.op = "invalidate_all"
        /\ call'.todo = {k \in Keys : Cached(k)}
    BY <1>7 DEF io_invalidate_all, Start, Idle
  <2>2. UNCHANGED <<lists, blocks, rtree, inflight>> /\ "invalidate_all" \in Ops
    BY <1>7 DEF io_invalidate_all, MayStart
  <2>3. \A k \in Keys : ~Cached(k)
    BY <1>7, <2>2 DEF io_invalidate_all, MayStart, QuietClients
  <2>4. PlaceOK(on)'
    BY <2>1, <2>2, <2>3 DEF PlaceOK
  <2>5. ASSUME TreeStays PROVE TreeOK(on, {})'
    BY <1>1, <1>2, <2>1, <2>2, <2>3, <2>5 DEF Safe, TreeOK, InUse, Freed, Cached
  <2> QED BY <1>1, <1>2, <2>1, <2>2, <2>4, <2>5, OnlyCall DEF ReadGoesOn
<1>8. ASSUME NEW f \in Frames, io_put_block(f)
      PROVE  Safe(on, pos, {})'
  <2>1. UNCHANGED <<lists, rtree, inflight>>
        /\ blocks' = [blocks EXCEPT ![f].ref_count = @ - 1]
    BY <1>8 DEF io_put_block
  <2>2. \/ call'.pc = "writeback" /\ call'.op = "put" /\ call'.node = lists.n[dirty]
        \/ call'.pc = "idle" /\ call'.op = "none"
    BY <1>8 DEF io_put_block, Start, Return, Idle
  <2>3. \A g \in Frames :
          /\ blocks'[g].pending = blocks[g].pending /\ blocks'[g].error = blocks[g].error
          /\ blocks'[g].io_count = blocks[g].io_count /\ blocks'[g].key = blocks[g].key
          /\ blocks'[g].dirty_bits = blocks[g].dirty_bits
          /\ blocks'[g].io_dir = blocks[g].io_dir
          /\ blocks'[g].ref_count > 0 => blocks[g].ref_count > 0
    BY <1>3, <1>8, <2>1 DEF TypeOK, Blocks, io_put_block, Held
  <2>4. FramesOK(on, {})'
    BY <1>2, <2>3 DEF Safe, FramesOK, ListFor, Filed
  <2>5. IosOK'
    BY <1>2, <1>3, <2>1, <2>3, IosKept DEF Safe
  <2>6. on[lists.n[dirty]] = dirty
    BY <1>2, HeadFacts DEF Safe, Chained
  <2>7. PlaceOK(on)' /\ HandOK({})'
    BY <2>2, <2>6 DEF PlaceOK, HandOK
  <2>8. ASSUME TreeStays PROVE TreeOK(on, {})'
    BY <1>1, <1>2, <1>3, <2>1, <2>2, <2>3, <2>8, HeadFacts DEF Safe, TreeOK, InUse, Freed, TypeOK
  <2>9. ReadsOK(on, {})'
    BY <1>1, <1>2, <2>3 DEF Safe, ReadGoesOn, ReadsOK, Reading
  <2> QED BY <1>2, <2>1, <2>4, <2>5, <2>7, <2>8, <2>9 DEF Safe
<1> QED BY <1>4, <1>5, <1>6, <1>7, <1>8

\* _hit moves a cached block to the end of its list.
LEMMA GetSafe ==
  ASSUME SafeInv, QuietClients, NEW k \in Keys, NEW readonly \in BOOLEAN,
         NEW m \in GetModes, io_get_block_mask(k, readonly, m)
  PROVE  \E on, pos, out : Safe(on, pos, out)'
<1> DEFINE f == rtree[k]
<1>1. call.pc = "idle" /\ UNCHANGED <<blocks, rtree, inflight>>
  BY DEF io_get_block_mask, MayStart
<1>2. PICK on, pos : Safe(on, pos, {})
  BY <1>1, NothingInHand DEF SafeInv, Safe
<1>3. TypeOK
  BY DEF SafeInv, TypeInv
<1>4. CASE GetRefused(k, readonly, m)
  <2>1. call'.pc = "idle" /\ call'.op = "none" /\ UNCHANGED lists
    BY <1>4 DEF io_get_block_mask, Return, Idle
  <2>2. PlaceOK(on)'
    BY <2>1 DEF PlaceOK
  <2>3. ASSUME TreeStays PROVE TreeOK(on, {})'
    BY <1>1, <1>2, <2>1, <2>3 DEF Safe, TreeOK, InUse, Freed
  <2> QED BY <1>1, <1>2, <2>1, <2>2, <2>3, OnlyCall DEF ReadGoesOn
<1>5. CASE ~GetRefused(k, readonly, m) /\ ~Cached(k)
  <2>1. call'.pc = "alloc" /\ call'.op = "get" /\ call'.key = k /\ UNCHANGED lists
    BY <1>5 DEF io_get_block_mask, Start, Idle
  <2>2. PlaceOK(on)'
    BY <2>1 DEF PlaceOK
  <2>3. ASSUME TreeStays PROVE TreeOK(on, {})'
    BY <1>1, <1>2, <1>5, <2>1, <2>3 DEF Safe, TreeOK, InUse, Freed, Cached
  <2> QED BY <1>1, <1>2, <2>1, <2>2, <2>3, OnlyCall DEF ReadGoesOn
<1>6. CASE ~GetRefused(k, readonly, m) /\ Cached(k) /\ blocks[f].pending
  <2>1. call'.pc = "wait_block" /\ call'.op = "get" /\ call'.f = f /\ UNCHANGED lists
    BY <1>6 DEF io_get_block_mask, Start, Idle
  <2>2. PlaceOK(on)'
    BY <2>1 DEF PlaceOK
  <2>3. ASSUME TreeStays PROVE TreeOK(on, {})'
    BY <1>1, <1>2, <1>6, <2>1, <2>3 DEF Safe, TreeOK, InUse, Freed, Cached
  <2> QED BY <1>1, <1>2, <2>1, <2>2, <2>3, OnlyCall DEF ReadGoesOn
<1>7. CASE ~GetRefused(k, readonly, m) /\ Cached(k) /\ ~blocks[f].pending
  <2> DEFINE h == ListFor(blocks[f])
  <2>1. /\ call'.pc = "finish_get" /\ call'.op = "get" /\ call'.f = f
        /\ lists' = list_move(lists, h, f)
    BY <1>7 DEF io_get_block_mask, Start, Idle, Relinked
  <2>2. f \in Frames
    BY <1>3, <1>7 DEF Cached, TypeOK
  <2>3. f \in Nodes \ Heads /\ h \in {clean, dirty} /\ h \in Heads
    BY <2>2, HeadFacts
  <2>4. on \in [Nodes -> Heads]
    BY <1>2 DEF Safe, Chained
  <2>5. Chained(list_del(lists, f), Nodes, Heads, {f}, on, pos)
    BY <1>2, <2>3, DelChained DEF Safe
  <2> HIDE DEF h, f
  <2>6. PICK on2, pos2 : /\ Chained(lists', Nodes, Heads, {}, on2, pos2)
                         /\ on2 = [on EXCEPT ![f] = h]
    BY <2>1, <2>3, <2>5, MoveChained
  <2>7. on2[f] = h /\ \A x \in Nodes \ {f} : on2[x] = on[x]
    BY <2>3, <2>4, <2>6
  <2>8. FramesOK(on2, {})'
    <3>1. Filed(blocks[f], h) /\ (h = clean => blocks[f].dirty_bits = {})
      BY HeadFacts DEF ListFor, Filed, h
    <3>2. \A g \in Frames \ {f} : on2[g] = on[g]
      BY <2>7, HeadFacts
    <3> QED BY <1>1, <1>2, <1>7, <2>2, <2>3, <2>7, <3>1, <3>2, HeadFacts DEF Safe, FramesOK, h
  <2>9. IosOK' /\ HandOK({})'
    BY <1>1, <1>2, <2>1 DEF Safe, IosOK, InFlight, HandOK
  <2>10. PlaceOK(on2)'
    BY <1>1, <1>7, <2>1 DEF PlaceOK
  <2>11. ASSUME TreeStays PROVE TreeOK(on2, {})'
    <3>1. \A g \in Frames : on2[g] # free <=> on[g] # free \/ g = f
      BY <2>3, <2>7, HeadFacts
    <3>2. blocks[f].key = k /\ rtree[k] = f /\ on2[f] # free
      BY <1>2, <1>7, <2>3, <2>7, <2>11, HeadFacts DEF Safe, TreeOK, Cached, f
    <3> QED BY <1>1, <1>2, <1>3, <2>1, <2>11, <3>1, <3>2, HeadFacts DEF Safe, TreeOK, InUse, Freed, TypeOK
  <2>12. ReadsOK(on2, {})'
    <3>1. \A g \in Frames \ {f} : on2[g] = on[g]
      BY <2>7, HeadFacts
    <3>2. on2[f] \notin {errored, io_pending} /\ ReadsOK(on, {})
      BY <1>2, <2>3, <2>7, HeadFacts DEF Safe
    <3> QED BY <1>1, <3>1, <3>2 DEF ReadGoesOn, ReadsOK, Reading
  <2> QED BY <2>6, <2>8, <2>9, <2>10, <2>11, <2>12 DEF Safe
<1> QED BY <1>4, <1>5, <1>6, <1>7

\* io_flush and io_manager_destroy put the errored blocks on the dirty list.
LEMMA FlushStartSafe ==
  ASSUME SafeInv, QuietClients, io_flush \/ io_manager_destroy
  PROVE  \E on, pos, out : Safe(on, pos, out)'
<1>1. /\ call.pc = "idle" /\ UNCHANGED <<blocks, rtree, inflight>>
      /\ call'.pc = "flush" /\ call'.op \in {"flush", "destroy"}
      /\ lists' = list_splice(lists, dirty, errored)
  BY DEF io_flush, io_manager_destroy, MayStart, Start, Idle
<1>2. PICK on, pos : Safe(on, pos, {})
  BY <1>1, NothingInHand DEF SafeInv, Safe
<1>3. \A f \in Frames : blocks[f].ref_count > 0 => blocks[f].dirty_bits = {}
  BY DEF io_flush, io_manager_destroy, MayStart, QuietClients, Held
<1>4. PICK on2, pos2 :
        /\ Chained(lists', Nodes, Heads, {}, on2, pos2)
        /\ on2 = Spliced(Nodes, on, dirty, errored)
  BY <1>1, <1>2, HeadFacts, SpliceChained DEF Safe
<1>5. \A f \in Frames : on2[f] = IF on[f] = errored THEN dirty ELSE on[f]
  BY <1>4, HeadFacts DEF Spliced
<1>6. FramesOK(on2, {})'
  <2>1. FlushesWork => ReadsWork \/ "prefetch" \notin Ops
    BY DEF FlushesWork, io_flush, io_manager_destroy, MayStart
  <2>2. \A f \in Frames : "prefetch" \notin Ops /\ on[f] = errored => blocks[f].io_dir # "read"
    BY <1>1, <1>2 DEF Safe, ReadsOK, Reading
  <2>3. \A f \in Frames : blocks[f].io_dir \in {"read", "write"}
    BY DEF SafeInv, TypeInv, TypeOK, Blocks
  <2>4. \A f \in Frames : Filed(blocks[f], on2[f])
    BY <1>2, <1>5, <2>1, <2>2, <2>3, HeadFacts DEF Safe, FramesOK, Filed
  <2> QED BY <1>1, <1>2, <1>5, <2>4, HeadFacts DEF Safe, FramesOK
<1>7. IosOK' /\ HandOK({})'
  BY <1>1, <1>2 DEF Safe, IosOK, InFlight, HandOK
<1>8. PlaceOK(on2)'
  BY <1>1, <1>3 DEF PlaceOK
<1>9. ASSUME TreeStays PROVE TreeOK(on2, {})'
  <2>1. \A g \in Frames : on2[g] # free <=> on[g] # free
    BY <1>5, HeadFacts
  <2>2. TypeOK
    BY DEF SafeInv, TypeInv
  <2> QED BY <1>1, <1>2, <1>9, <2>1, <2>2 DEF Safe, TreeOK, InUse, Freed, TypeOK
<1>10. ReadsOK(on2, {})'
  BY <1>1, <1>2, <1>5, HeadFacts DEF Safe, ReadsOK, Reading
<1> QED BY <1>4, <1>6, <1>7, <1>8, <1>9, <1>10 DEF Safe

-----------------------------------------------------------------------------
(* _new_block *)

\* A frame leaves the free list, or the clean list and the tree.
LEMMA AllocSafe ==
  ASSUME SafeInv, alloc_block \/ evict
  PROVE  \E on, pos, out : Safe(on, pos, out)'
<1>1. call.pc \in {"alloc", "evict"} /\ UNCHANGED <<blocks, rtree, inflight>>
  BY DEF alloc_block, evict
<1>2. PICK on, pos : Safe(on, pos, {})
  BY <1>1, NothingInHand DEF SafeInv, Safe
<1>3. TypeOK
  BY DEF SafeInv, TypeInv
<1>4. CASE evict
  <2>1. /\ UNCHANGED lists
        /\ \/ call'.pc = "idle" /\ call'.op = "none"
           \/ /\ call'.pc = "scan" /\ call'.op = call.op /\ call'.key = call.key
              /\ call'.node = lists.n[clean]
    BY <1>3, <1>4 DEF evict, Return, Idle, At, TypeOK, Calls
  <2>2. on[lists.n[clean]] = clean
    BY <1>2, HeadFacts DEF Safe, Chained
  <2>3. PlaceOK(on)'
    BY <1>1, <1>2, <2>1, <2>2 DEF Safe, PlaceOK
  <2>4. ASSUME TreeStays PROVE TreeOK(on, {})'
    BY <1>1, <1>2, <2>1, <2>4 DEF Safe, PlaceOK, TreeOK, InUse, Freed
  <2> QED BY <1>1, <1>2, <2>1, <2>3, <2>4, OnlyCall DEF ReadGoesOn
<1>5. CASE alloc_block /\ list_empty(lists, free)
  <2>1. /\ UNCHANGED lists
        /\ call'.pc = "evict" /\ call'.op = call.op /\ call'.key = call.key
    BY <1>3, <1>5 DEF alloc_block, At, TypeOK, Calls
  <2>2. PlaceOK(on)'
    BY <1>1, <1>2, <2>1 DEF Safe, PlaceOK
  <2>3. ASSUME TreeStays PROVE TreeOK(on, {})'
    BY <1>1, <1>2, <1>5, <2>1, <2>3 DEF Safe, PlaceOK, TreeOK, InUse, Freed, alloc_block
  <2> QED BY <1>1, <1>2, <2>1, <2>2, <2>3, OnlyCall DEF ReadGoesOn
<1>6. CASE alloc_block /\ ~list_empty(lists, free)
  <2>0. PICK f : f = lists.n[free]
    OBVIOUS
  <2>1. f \in Frames /\ on[f] = free /\ f \in Nodes \ Heads
    <3>1. f \in Nodes /\ on[f] = free /\ \A h \in Heads : on[h] = h
      BY <1>2, <2>0, HeadFacts DEF Safe, Chained, ListMemory
    <3>2. f # free
      BY <1>6, <2>0 DEF list_empty
    <3> QED BY <3>1, <3>2, HeadFacts
  <2>2. ~Lost(f, free)
    BY <2>1, HeadFacts DEF Lost
  <2>3. /\ lists' = list_del(lists, f)
        /\ call'.pc = "new_block" /\ call'.op = call.op /\ call'.key = call.key
        /\ call'.f = f
    BY <1>3, <1>6, <2>0, <2>2 DEF alloc_block, At, TypeOK, Calls
  <2>4. Chained(lists', Nodes, Heads, {f}, on, pos)
    BY <1>2, <2>1, <2>3, DelChained DEF Safe
  <2>5. FramesOK(on, {f})'
    BY <1>1, <1>2, <2>1, HeadFacts DEF Safe, FramesOK
  <2>6. IosOK' /\ PlaceOK(on)' /\ HandOK({f})'
    BY <1>1, <1>2, <2>3 DEF Safe, IosOK, InFlight, PlaceOK, HandOK
  <2>7. ASSUME TreeStays PROVE TreeOK(on, {f})'
    BY <1>1, <1>2, <1>3, <1>6, <2>1, <2>3, <2>7
       DEF Safe, PlaceOK, TreeOK, InUse, Freed, alloc_block, TypeOK
  <2>8. ReadsOK(on, {f})'
    BY <1>1, <1>2 DEF Safe, ReadGoesOn, ReadsOK, Reading
  <2> QED BY <2>4, <2>5, <2>6, <2>7, <2>8 DEF Safe
<1> QED BY <1>4, <1>5, <1>6

LEMMA ScanSafe ==
  ASSUME SafeInv, find_unused_clean_block
  PROVE  \E on, pos, out : Safe(on, pos, out)'
<1>0. PICK f : f = call.node
  OBVIOUS
<1>1. call.pc = "scan" /\ UNCHANGED <<blocks, inflight>>
  BY DEF find_unused_clean_block
<1>2. PICK on, pos : Safe(on, pos, {})
  BY <1>1, NothingInHand DEF SafeInv, Safe
<1>3. TypeOK
  BY DEF SafeInv, TypeInv
<1>4. f \in Nodes /\ on[f] = clean /\ \A h \in Heads : on[h] = h
  BY <1>0, <1>1, <1>2, <1>3 DEF Safe, PlaceOK, Chained, TypeOK, Calls
<1>5. CASE f \in Frames /\ Unused(f)
  <2>1. /\ lists' = list_del(lists, f)
        /\ rtree' = [rtree EXCEPT ![blocks[f].key] = NoFrame]
        /\ call'.pc = "new_block" /\ call'.op = call.op /\ call'.key = call.key
        /\ call'.f = f
    BY <1>0, <1>3, <1>5 DEF find_unused_clean_block, At, TypeOK, Calls
  <2>2. f \in Nodes \ Heads
    BY <1>5, HeadFacts
  <2>3. Chained(lists', Nodes, Heads, {f}, on, pos)
    BY <1>2, <2>1, <2>2, DelChained DEF Safe
  <2>4. ~(blocks[f].ref_count > 0)
    BY <1>5 DEF Unused, Held
  <2>5. FramesOK(on, {f})'
    BY <1>1, <1>2, <1>4, <1>5, <2>4, HeadFacts DEF Safe, FramesOK
  <2>6. IosOK' /\ PlaceOK(on)' /\ HandOK({f})'
    BY <1>1, <1>2, <2>1 DEF Safe, IosOK, InFlight, PlaceOK, HandOK
  <2>7. ASSUME TreeStays PROVE TreeOK(on, {f})'
    <3>1. TreeOK(on, {})
      BY <1>2, <2>7 DEF Safe
    <3>2. blocks[f].key \in Keys /\ rtree[blocks[f].key] = f
      BY <1>1, <1>4, <1>5, <3>1, HeadFacts DEF TreeOK, InUse, Freed
    <3>3. \A g \in Frames \ {f} : on[g] # free =>
            blocks[g].key \in Keys /\ rtree'[blocks[g].key] = g
      BY <1>1, <1>3, <2>1, <3>1, <3>2 DEF TreeOK, InUse, Freed, TypeOK
    <3>4. \A k \in Keys : rtree'[k] # NoFrame =>
            rtree'[k] # f /\ rtree'[k] = rtree[k]
      BY <1>3, <2>1, <3>1, <3>2 DEF TreeOK, TypeOK
    <3>5. call.key \in Keys /\ rtree'[call.key] = NoFrame
      BY <1>1, <1>3, <2>1, <3>1 DEF TreeOK, TypeOK
    <3>6. call.op = "invalidate_all" => \A k \in Keys : rtree'[k] = NoFrame
      BY <1>3, <2>1, <3>1 DEF TreeOK, TypeOK
    <3> QED BY <1>1, <1>2, <2>1, <3>1, <3>3, <3>4, <3>5, <3>6
            DEF Safe, PlaceOK, TreeOK, InUse, Freed
  <2>8. ReadsOK(on, {f})'
    BY <1>1, <1>2 DEF Safe, ReadGoesOn, ReadsOK, Reading
  <2> QED BY <2>3, <2>5, <2>6, <2>7, <2>8 DEF Safe
<1>6. CASE ~(f \in Frames /\ Unused(f))
  <2>1. ~Lost(f, clean)
    BY <1>4, HeadFacts DEF Lost
  <2>2. /\ UNCHANGED <<lists, rtree>>
        /\ \/ call'.pc = "idle" /\ call'.op = "none"
           \/ /\ call'.op = call.op /\ call'.key = call.key
              /\ \/ call'.pc = "scan" /\ call'.node = lists.n[f]
                 \/ /\ call'.pc = "writeback" /\ call'.node = lists.n[dirty]
                    /\ call.op # "prefetch"
                 \/ call'.pc = "wait_io"
    <3>1. CASE f \in Frames
      BY <1>0, <1>1, <1>3, <1>6, <3>1 DEF find_unused_clean_block, TypeOK, Calls
    <3>2. CASE f \notin Frames
      <4>1. CASE call.op = "prefetch"
        BY <1>0, <2>1, <3>2, <4>1 DEF find_unused_clean_block, Return, Idle
      <4>2. CASE call.op # "prefetch" /\ list_empty(lists, io_pending)
        <5>1. /\ UNCHANGED <<lists, rtree>>
              /\ call' = [At("writeback") EXCEPT !.node = lists.n[dirty],
                                                 !.left = WritebackBatch]
          BY <1>0, <2>1, <3>2, <4>2 DEF find_unused_clean_block
        <5> QED BY <1>3, <4>2, <5>1 DEF At, TypeOK, Calls
      <4>3. CASE call.op # "prefetch" /\ ~list_empty(lists, io_pending)
        <5>1. UNCHANGED <<lists, rtree>> /\ call' = At("wait_io")
          BY <1>0, <2>1, <3>2, <4>3 DEF find_unused_clean_block
        <5> QED BY <1>3, <5>1 DEF At, TypeOK, Calls
      <4> QED BY <4>1, <4>2, <4>3
    <3> QED BY <3>1, <3>2
  <2>3. on[lists.n[f]] = clean /\ on[lists.n[dirty]] = dirty
    BY <1>2, <1>4, HeadFacts DEF Safe, Chained
  <2>4. PlaceOK(on)'
    BY <1>1, <1>2, <2>2, <2>3 DEF Safe, PlaceOK
  <2>5. ASSUME TreeStays PROVE TreeOK(on, {})'
    BY <1>1, <1>2, <2>2, <2>5 DEF Safe, PlaceOK, TreeOK, InUse, Freed
  <2> QED BY <1>1, <1>2, <2>2, <2>4, <2>5, OnlyCall DEF ReadGoesOn
<1> QED BY <1>5, <1>6

\* The frame in hand becomes the block of the call.
LEMMA NewBlockSafe ==
  ASSUME SafeInv, QuietClients, new_block
  PROVE  \E on, pos, out : Safe(on, pos, out)'
<1>0. PICK f, k, b, next, alone :
        /\ f = call.f /\ k = call.key /\ b = NewBlockOf(k)
        /\ next = IF call.op = "prefetch" THEN Return(TRUE) ELSE At("wait_block")
        /\ alone = list_init(lists, f)
  OBVIOUS
<1>1. call.pc = "new_block" /\ rtree' = [rtree EXCEPT ![k] = f]
  BY <1>0 DEF new_block
<1>2. TypeOK /\ f \in Frames /\ f \in Nodes \ Heads /\ f # NoFrame
  BY <1>0, <1>1, HeadFacts DEF SafeInv, TypeInv, CallOK
<1>3. PICK on, pos : Safe(on, pos, {f})
  BY <1>0, <1>1 DEF SafeInv, Safe, HandOK
<1>4. /\ Chained(alone, Nodes, Heads, {f}, on, pos)
      /\ list_del(alone, f) = alone /\ alone.n[f] = f
  BY <1>0, <1>2, <1>3, InitChained DEF Safe
<1>5. ~blocks[f].pending /\ blocks[f].ref_count = 0
  BY <1>2, <1>3 DEF Safe, FramesOK, TypeOK, Blocks
<1>6. /\ b \in Blocks /\ ~b.pending /\ b.io_count = 0 /\ b.ref_count = 0
      /\ b.key = k /\ ~b.error
  BY <1>0, <1>2, NewBlockType DEF NewBlockOf, TypeOK, Calls
<1>7. /\ next = Return(TRUE) \/ (next = At("wait_block") /\ call.op = "get")
      /\ call.op \in {"get", "prefetch"}
  <2>1. call.op \in {"get", "prefetch"}
    BY <1>1, <1>3 DEF Safe, PlaceOK
  <2> QED BY <1>0, <2>1
<1>8. /\ Return(TRUE).pc = "idle" /\ Return(TRUE).op = "none"
      /\ At("wait_block").pc = "wait_block" /\ At("wait_block").op = call.op
      /\ At("wait_block").f = f /\ At("wait_block").key = k
  BY <1>0, <1>2 DEF Return, Idle, At, TypeOK, Calls
\* The tree afterwards, for every frame but f as before.
<1>9. ASSUME TreeStays
      PROVE  /\ k \in Keys /\ rtree'[k] = f
             /\ \A g \in Frames \ {f} : on[g] # free =>
                  blocks[g].key \in Keys /\ rtree'[blocks[g].key] = g
             /\ \A j \in Keys \ {k} : rtree'[j] # NoFrame =>
                  /\ rtree'[j] \in Frames \ {f} /\ on[rtree'[j]] # free
                  /\ blocks[rtree'[j]].key = j
  <2>1. TreeOK(on, {f})
    BY <1>3, <1>9 DEF Safe
  <2>2. k \in Keys /\ rtree[k] = NoFrame
    BY <1>0, <1>1, <1>9, <2>1 DEF TreeOK
  <2>3. rtree'[k] = f /\ \A j \in Keys \ {k} : rtree'[j] = rtree[j]
    BY <1>1, <1>2, <2>2 DEF TypeOK
  <2>4. \A g \in Frames \ {f} : on[g] # free =>
          blocks[g].key \in Keys /\ rtree[blocks[g].key] = g
    BY <1>1, <2>1 DEF TreeOK, InUse, Freed
  <2>5. \A j \in Keys : rtree[j] # NoFrame =>
          rtree[j] \in Frames \ {f} /\ on[rtree[j]] # free /\ blocks[rtree[j]].key = j
    BY <1>1, <1>2, <2>1 DEF TreeOK, InUse, Freed, TypeOK
  <2> QED BY <1>2, <2>2, <2>3, <2>4, <2>5, HeadFacts
<1>10. CASE MustRead(call.mode)
  <2>1. issue(alone, f, b, "read", next)
    BY <1>0, <1>10 DEF new_block
  <2>2. CanIssue(alone, f, on, pos, {f}) /\ IssuesAs(b, "read")
    BY <1>2, <1>3, <1>4, <1>5, <1>6 DEF CanIssue, IssuesAs, Safe
  <2>3. call' = next /\ Issued(f, b, "read", on)
    BY <1>2, <2>1, <2>2, IssueSafe
  <2>4. /\ \A g \in Frames \ {f} : blocks'[g] = blocks[g]
        /\ blocks'[f].key = b.key /\ blocks'[f].ref_count = 0
        /\ IosOK'
    BY <2>3 DEF Issued
  <2>5. PICK on2, pos2 :
          /\ Chained(lists', Nodes, Heads, {}, on2, pos2)
          /\ \A x \in Nodes \ {f} : on2[x] = on[x]
          /\ on2[f] # free
          /\ FramesOK(on2, {})'
    BY <2>3 DEF Issued
  <2>6. HandOK({})' /\ PlaceOK(on2)'
    BY <1>7, <1>8, <2>3 DEF HandOK, PlaceOK
  <2>8. ReadsOK(on2, {})'
    <3>1. "prefetch" \notin Ops => Reading(f)'
      <4>1. "prefetch" \notin Ops => call.op = "get"
        BY <1>7 DEF SafeInv, OpOK
      <4> QED BY <1>0, <1>8, <2>3, <4>1 DEF Reading
    <3>2. \A g \in Frames \ {f} : on2[g] = on[g]
      BY <2>5, HeadFacts
    <3> QED BY <1>1, <1>3, <2>4, <3>1, <3>2 DEF Safe, ReadGoesOn, ReadsOK, Reading
  <2>7. ASSUME TreeStays PROVE TreeOK(on2, {})'
    <3>1. TreeOK(on, {f}) /\ call.op \in {"get", "prefetch"}
      BY <1>1, <1>3, <2>7 DEF Safe, PlaceOK
    <3>2. /\ call'.op \in {"none", call.op} /\ call'.pc \in {"idle", "wait_block"}
          /\ call'.pc = "wait_block" => call'.f = f /\ call'.key = k
      BY <1>7, <1>8, <2>3
    <3>3. \A g \in Frames : on2[g] # free <=> (g = f \/ on[g] # free)
      BY <2>5, HeadFacts
    <3> QED BY <1>2, <1>6, <1>9, <2>4, <2>7, <3>1, <3>2, <3>3 DEF TreeOK, InUse, Freed
  <2> QED BY <2>4, <2>5, <2>6, <2>7, <2>8 DEF Safe
<1>11. CASE ~MustRead(call.mode)
  <2>1. /\ lists' = alone /\ blocks' = [blocks EXCEPT ![f] = b] /\ UNCHANGED inflight
        /\ call' = At("finish_get")
    BY <1>0, <1>11 DEF new_block
  <2>2. call'.pc = "finish_get" /\ call'.op = call.op /\ call'.f = f
    BY <1>0, <1>2, <2>1 DEF At, TypeOK, Calls
  <2>3. blocks'[f] = b /\ \A g \in Frames \ {f} : blocks'[g] = blocks[g]
    BY <1>2, <2>1 DEF TypeOK
  <2>4. FramesOK(on, {f})'
    BY <1>3, <1>6, <2>3 DEF Safe, FramesOK
  <2>5. IosOK'
    <3>1. InFlight(f) = {} /\ blocks[f].io_count = 0
      BY <1>2, <1>3, <1>5, FS_EmptySet DEF Safe, IosOK, TypeOK, Blocks
    <3>2. \A io \in inflight : io.frame \in Frames \ {f}
      BY <1>2, <3>1 DEF TypeOK, Ios, InFlight
    <3>3. \A g \in Frames : InFlight(g)' = InFlight(g)
      BY <2>1 DEF InFlight
    <3> QED BY <1>3, <1>6, <2>1, <2>3, <3>1, <3>2, <3>3 DEF Safe, IosOK
  <2>6. HandOK({f})' /\ PlaceOK(on)'
    BY <1>4, <1>6, <1>7, <2>1, <2>2, <2>3 DEF HandOK, PlaceOK
  <2>7. ASSUME TreeStays PROVE TreeOK(on, {f})'
    <3>1. TreeOK(on, {f}) /\ call.op \in {"get", "prefetch"}
      BY <1>1, <1>3, <2>7 DEF Safe, PlaceOK
    <3> QED BY <1>2, <1>6, <1>9, <2>2, <2>3, <2>7, <3>1 DEF TreeOK, InUse, Freed
  <2>8. ReadsOK(on, {f})'
    BY <1>1, <1>3, <2>3 DEF Safe, ReadGoesOn, ReadsOK, Reading
  <2> QED BY <1>4, <2>1, <2>4, <2>5, <2>6, <2>7, <2>8 DEF Safe
<1> QED BY <1>10, <1>11

-----------------------------------------------------------------------------
(* The end of a get *)

LEMMA FinishGetSafe ==
  ASSUME SafeInv, finish_get
  PROVE  \E on, pos, out : Safe(on, pos, out)'
<1>0. PICK f, b, touched :
        /\ f = call.f /\ b = blocks[f]
        /\ touched = IF call.mode.type # "read"
                     THEN [b EXCEPT !.dirty_bits = @ \cup call.mode.mask] ELSE b
  OBVIOUS
<1>1. call.pc = "finish_get" /\ UNCHANGED inflight
  BY DEF finish_get
<1>2. TypeOK /\ f \in Frames /\ f \in Nodes \ Heads /\ b \in Blocks
  BY <1>0, <1>1, HeadFacts DEF SafeInv, TypeInv, CallOK, TypeOK
<1>3. PICK on, pos, out : Safe(on, pos, out)
  BY DEF SafeInv
<1>4. out \in {{}, {f}} /\ (out = {f} => list_del(lists, f) = lists)
  BY <1>0, <1>1, <1>3 DEF Safe, HandOK
<1>5. Chained(list_del(lists, f), Nodes, Heads, {f}, on, pos)
  <2>1. CASE out = {}
    BY <1>2, <1>3, <2>1, DelChained DEF Safe
  <2>2. CASE out = {f}
    BY <1>3, <1>4, <2>2 DEF Safe
  <2> QED BY <1>4, <2>1, <2>2
<1>6. PICK h : h = ListFor(touched)
  OBVIOUS
<1>7. h \in {clean, dirty} /\ h \in Heads /\ h # free /\ h # io_pending /\ on \in [Nodes -> Heads]
  BY <1>3, <1>6, HeadFacts DEF Safe, Chained
<1>8. /\ touched.pending = b.pending /\ touched.error = b.error /\ touched.key = b.key
      /\ touched.ref_count = b.ref_count /\ touched.io_count = b.io_count
      /\ touched.io_dir = b.io_dir /\ DOMAIN touched = DOMAIN b
  BY <1>0, <1>2 DEF Blocks
<1>9. ~b.pending /\ (b.error => b.ref_count = 0) /\ (Faults = {} => ~b.error)
  BY <1>0, <1>1, <1>2, <1>3 DEF Safe, PlaceOK, FramesOK, Blocks
<1>10. /\ blocks' = [blocks EXCEPT ![f] = blocks'[f]]
       /\ blocks'[f] = IF b.error THEN touched ELSE [touched EXCEPT !.ref_count = @ + 1]
       /\ call' = Return(~b.error)
  BY <1>0, <1>2, <1>9 DEF finish_get, TypeOK, Blocks
<1>11. /\ \A g \in Frames \ {f} : blocks'[g] = blocks[g]
       /\ blocks'[f].key = b.key /\ ~blocks'[f].pending /\ blocks'[f].error = b.error
       /\ blocks'[f].io_count = b.io_count /\ blocks'[f].io_dir = b.io_dir
       /\ blocks'[f].ref_count > 0 => ~b.error /\ ListFor(blocks'[f]) = h
       /\ (h = clean <=> blocks'[f].dirty_bits = {})
  <2>1. touched \in Blocks
    BY <1>0, <1>2 DEF Blocks, TypeOK, Calls, Modes
  <2>2. \A g \in Frames \ {f} : blocks'[g] = blocks[g]
    BY <1>2, <1>10 DEF TypeOK
  <2>3. blocks'[f].dirty_bits = touched.dirty_bits
    BY <1>10, <2>1 DEF Blocks
  <2>4. h = clean <=> blocks'[f].dirty_bits = {}
    BY <1>6, <2>3, HeadFacts DEF ListFor
  <2> QED BY <1>6, <1>8, <1>9, <1>10, <2>1, <2>2, <2>3, <2>4 DEF ListFor, Blocks
<1>12. call'.pc = "idle" /\ call'.op = "none"
  BY <1>10 DEF Return, Idle
<1>13. IosOK'
  BY <1>0, <1>1, <1>2, <1>3, <1>9, <1>11, IosKept DEF Safe
<1>14. PICK on2, pos2 : /\ Chained(list_move(lists, h, f), Nodes, Heads, {}, on2, pos2)
                        /\ on2 = [on EXCEPT ![f] = h]
  BY <1>2, <1>5, <1>7, MoveChained
<1>15. on2[f] = h /\ \A x \in Nodes \ {f} : on2[x] = on[x]
  BY <1>2, <1>7, <1>14
<1>16. HandOK({})' /\ \A o : PlaceOK(o)'
  BY <1>12 DEF HandOK, PlaceOK
<1>17. ASSUME TreeStays
       PROVE  /\ b.key \in Keys /\ rtree[b.key] = f
              /\ \A g \in Frames \ {f} : on[g] # free =>
                   blocks[g].key \in Keys /\ rtree[blocks[g].key] = g
              /\ \A k \in Keys : rtree[k] # NoFrame =>
                   /\ rtree[k] \in Frames /\ blocks[rtree[k]].key = k
                   /\ rtree[k] # f => on[rtree[k]] # free
  BY <1>0, <1>1, <1>2, <1>3, <1>4, <1>17 DEF Safe, TreeOK, InUse, Freed, TypeOK
\* The get is over, and the frame it waited for has left errored.
<1>20. ASSUME NEW o, o[f] \in {free, h}, \A g \in Frames \ {f} : o[g] = on[g]
       PROVE  ReadsOK(o, {})'
  <2>1. o[f] \notin {errored, io_pending}
    BY <1>7, <1>20, HeadFacts
  <2>2. \A g \in Frames \ {f} : g \notin out /\ ~Reading(g)
    BY <1>0, <1>4 DEF Reading
  <2> QED BY <1>3, <1>11, <1>20, <2>1, <2>2 DEF Safe, ReadsOK
<1>18. CASE ~(b.error /\ b.io_dir = "read")
  <2>1. lists' = list_move(lists, h, f) /\ UNCHANGED rtree
    BY <1>0, <1>6, <1>18 DEF finish_get, Relinked
  <2>2. FramesOK(on2, {})'
    <3>1. Filed(blocks'[f], h)
      BY <1>7, <1>11, HeadFacts DEF Filed
    <3>2. \A g \in Frames \ {f} : on2[g] = on[g]
      BY <1>15, HeadFacts
    <3> QED BY <1>3, <1>4, <1>7, <1>9, <1>11, <1>15, <3>1, <3>2, HeadFacts
            DEF Safe, FramesOK
  <2>3. ASSUME TreeStays PROVE TreeOK(on2, {})'
    BY <1>7, <1>11, <1>12, <1>15, <1>17, <2>1, <2>3, HeadFacts DEF TreeOK, InUse, Freed
  <2>4. ReadsOK(on2, {})'
    BY <1>15, <1>20, HeadFacts
  <2> QED BY <1>13, <1>14, <1>16, <2>1, <2>2, <2>3, <2>4 DEF Safe
<1>19. CASE b.error /\ b.io_dir = "read"
  <2>1. /\ lists' = list_move(list_move(lists, h, f), free, f)
        /\ rtree' = [rtree EXCEPT ![b.key] = NoFrame]
    BY <1>0, <1>6, <1>19 DEF finish_get, Relinked
  <2>2. Chained(list_del(list_move(lists, h, f), f), Nodes, Heads, {f}, on2, pos2)
    BY <1>2, <1>14, DelChained
  <2>3. PICK on3, pos3 : /\ Chained(lists', Nodes, Heads, {}, on3, pos3)
                         /\ on3 = [on2 EXCEPT ![f] = free]
    BY <1>2, <2>1, <2>2, HeadFacts, MoveChained
  <2>4. on3[f] = free /\ \A x \in Nodes \ {f} : on3[x] = on[x]
    <3>1. on2 \in [Nodes -> Heads]
      BY <1>14 DEF Chained
    <3> QED BY <1>2, <1>15, <2>3, <3>1
  <2>5. FramesOK(on3, {})'
    <3>1. Filed(blocks'[f], free)
      BY HeadFacts DEF Filed
    <3> QED BY <1>3, <1>4, <1>9, <1>11, <1>19, <2>4, <3>1, HeadFacts DEF Safe, FramesOK
  <2>6. ASSUME TreeStays PROVE TreeOK(on3, {})'
    <3>1. rtree'[b.key] = NoFrame /\ \A k \in Keys \ {b.key} : rtree'[k] = rtree[k] /\ rtree[k] # f
      BY <1>2, <1>11, <1>17, <2>1, <2>6, HeadFacts DEF TypeOK
    <3> QED BY <1>0, <1>11, <1>12, <1>17, <2>4, <2>6, <3>1, HeadFacts DEF TreeOK, InUse, Freed
  <2>7. ReadsOK(on3, {})'
    BY <1>20, <2>4, HeadFacts
  <2> QED BY <1>13, <1>16, <2>3, <2>5, <2>6, <2>7 DEF Safe
<1> QED BY <1>18, <1>19

-----------------------------------------------------------------------------
(* Writing back *)

\* What a writeback of an idle frame nobody holds leaves behind.
Written(f, next, on) ==
  /\ call' = next
  /\ \A g \in Frames :
       /\ blocks'[g].key = blocks[g].key /\ blocks'[g].dirty_bits = blocks[g].dirty_bits
       /\ blocks'[g].ref_count = blocks[g].ref_count
       /\ g # f => (blocks'[g].pending <=> blocks[g].pending)
  /\ Faults = {} => blocks'[f].pending
  /\ IosOK'
  /\ \E on2, pos2 :
       /\ Chained(lists', Nodes, Heads, {}, on2, pos2)
       /\ \A x \in Nodes \ {f} : on2[x] = on[x]
       /\ on2[f] # free
       /\ FramesOK(on2, {})'
       /\ ReadsOK(on2, {})'

LEMMA WriteSafe ==
  ASSUME TypeOK, QuietClients, NEW on, NEW pos, Safe(on, pos, {}),
         NEW f \in Frames, ~blocks[f].pending, blocks[f].ref_count = 0,
         FlushesWork => blocks[f].dirty_bits # {}, ReadGoesOn,
         NEW l \in {lists, list_del(lists, f)}, NEW next, issue_write(l, f, next)
  PROVE  Written(f, next, on)
<1>1. PICK b : b = [blocks[f] EXCEPT !.error = FALSE]
  OBVIOUS
<1>2. issue(l, f, b, "write", next)
  BY <1>1 DEF issue_write
<1>3. blocks[f] \in Blocks
  BY DEF TypeOK
<1>4. /\ b \in Blocks /\ ~b.pending /\ b.ref_count = 0 /\ ~b.error
      /\ b.key = blocks[f].key /\ b.dirty_bits = blocks[f].dirty_bits
      /\ b.io_count = blocks[f].io_count
  BY <1>1, <1>3 DEF Blocks
<1>5. blocks[f].io_count = 0
  BY <1>3 DEF Safe, IosOK, Blocks
<1>6. Chained(list_del(l, f), Nodes, Heads, {f}, on, pos)
  BY HeadFacts, DelChained DEF Safe
<1>7. CanIssue(l, f, on, pos, {}) /\ IssuesAs(b, "write")
  BY <1>4, <1>5, <1>6 DEF CanIssue, IssuesAs, Safe
<1>8. call' = next /\ Issued(f, b, "write", on)
  BY <1>2, <1>7, IssueSafe
<1>9. PICK on2, pos2 :
        /\ Chained(lists', Nodes, Heads, {}, on2, pos2)
        /\ \A x \in Nodes \ {f} : on2[x] = on[x]
        /\ on2[f] # free
        /\ FramesOK(on2, {})'
  BY <1>8 DEF Issued
<1>10. ReadsOK(on2, {})'
  <2>1. \A g \in Frames \ {f} : on2[g] = on[g] /\ blocks'[g].io_dir = blocks[g].io_dir
    BY <1>8, <1>9, HeadFacts DEF Issued
  <2>2. blocks'[f].io_dir # "read" /\ ReadsOK(on, {})
    BY <1>8 DEF Issued, Safe
  <2> QED BY <2>1, <2>2 DEF ReadsOK, Reading, ReadGoesOn
<1> QED BY <1>4, <1>8, <1>9, <1>10 DEF Issued, Written

LEMMA WritebackSafe ==
  ASSUME SafeInv, QuietClients, writeback
  PROVE  \E on, pos, out : Safe(on, pos, out)'
<1>0. PICK f, next : f = call.node /\ next = [call EXCEPT !.node = lists.n[f]]
  OBVIOUS
<1>1. call.pc = "writeback" /\ UNCHANGED <<rtree>>
  BY DEF writeback
<1>2. PICK on, pos : Safe(on, pos, {})
  BY <1>1, NothingInHand DEF SafeInv, Safe
<1>3. TypeOK
  BY DEF SafeInv, TypeInv
<1>4. f \in Nodes /\ on[f] = dirty /\ \A h \in Heads : on[h] = h
  BY <1>0, <1>1, <1>2, <1>3 DEF Safe, PlaceOK, Chained, TypeOK, Calls
<1>5. ~Lost(f, dirty)
  BY <1>4, HeadFacts DEF Lost
<1>6. /\ on[lists.n[f]] = dirty /\ lists.n[f] \in Nodes
      /\ f \in Frames => lists.n[f] # f
  BY <1>2, <1>4, HeadFacts DEF Safe, Chained, ListMemory
<1>7. CASE ~(f \in Frames /\ ~(call.left = 0) /\ Unused(f))
  <2>1. /\ UNCHANGED <<lists, blocks, inflight>>
        /\ \/ call' = next
           \/ call' = Return(TRUE)
           \/ call' = At("wait_io") /\ call.op # "put"
    BY <1>0, <1>5, <1>7, HeadFacts, NodeTypes DEF writeback
  <2>2. /\ Return(TRUE).pc = "idle" /\ Return(TRUE).op = "none"
        /\ At("wait_io").pc = "wait_io" /\ At("wait_io").op = call.op
        /\ At("wait_io").key = call.key
        /\ next.pc = call.pc /\ next.op = call.op /\ next.key = call.key
        /\ next.node = lists.n[f]
    BY <1>0, <1>3 DEF Return, Idle, At, TypeOK, Calls
  <2>3. PlaceOK(on)'
    BY <1>1, <1>2, <1>6, <2>1, <2>2 DEF Safe, PlaceOK
  <2>4. ASSUME TreeStays PROVE TreeOK(on, {})'
    <3>1. TreeOK(on, {})
      BY <1>2, <2>4 DEF Safe
    <3>2. /\ call'.pc \in {"idle", "writeback", "wait_io"} /\ call'.op \in {"none", call.op}
          /\ call'.pc # "idle" => call'.op = call.op /\ call'.key = call.key
          /\ call'.pc = "wait_io" => call.op = "get"
      BY <1>1, <1>2, <2>1, <2>2 DEF Safe, PlaceOK
    <3>3. \A g : InUse(g, on, {})' <=> InUse(g, on, {})
      BY DEF InUse
    <3> QED BY <1>1, <1>2, <2>1, <3>1, <3>2, <3>3 DEF Safe, PlaceOK, TreeOK, Freed
  <2>5. call'.pc # "new_block"
    BY <1>1, <2>1, <2>2
  <2> QED BY <1>1, <1>2, <2>1, <2>3, <2>4, <2>5, OnlyCall DEF ReadGoesOn
<1>8. CASE f \in Frames /\ ~(call.left = 0) /\ Unused(f)
  <2>1. PICK c : c = [next EXCEPT !.left = @ - 1]
    OBVIOUS
  <2>2. issue_write(lists, f, c)
    BY <1>0, <1>4, <1>8, <2>1, HeadFacts DEF writeback
  <2>3. c.pc = call.pc /\ c.op = call.op /\ c.key = call.key /\ c.node = lists.n[f]
    BY <1>0, <1>3, <2>1 DEF TypeOK, Calls
  <2>4. ~blocks[f].pending /\ blocks[f].ref_count = 0
    BY <1>2, <1>3, <1>4, <1>8, HeadFacts DEF Safe, FramesOK, Unused, Held, TypeOK, Blocks
  <2>5. Written(f, c, on)
    BY <1>1, <1>2, <1>3, <1>4, <1>8, <2>2, <2>4, WriteSafe
       DEF Safe, FramesOK, Filed, ReadGoesOn
  <2>6. PICK on2, pos2 :
          /\ Chained(lists', Nodes, Heads, {}, on2, pos2)
          /\ \A x \in Nodes \ {f} : on2[x] = on[x]
          /\ on2[f] # free
          /\ FramesOK(on2, {})' /\ ReadsOK(on2, {})'
    BY <2>5 DEF Written
  <2>7. call' = c /\ IosOK' /\ \A g \in Frames : blocks'[g].key = blocks[g].key
    BY <2>5 DEF Written
  <2>8. PlaceOK(on2)' /\ HandOK({})'
    BY <1>1, <1>2, <1>6, <1>8, <2>3, <2>6, <2>7 DEF Safe, PlaceOK, HandOK
  <2>9. ASSUME TreeStays PROVE TreeOK(on2, {})'
    <3>1. \A g \in Frames : on2[g] # free <=> on[g] # free
      BY <1>4, <1>8, <2>6, HeadFacts
    <3> QED BY <1>1, <1>2, <1>3, <2>3, <2>7, <2>9, <3>1
       DEF Safe, PlaceOK, TreeOK, InUse, Freed, TypeOK
  <2> QED BY <2>6, <2>7, <2>8, <2>9 DEF Safe
<1> QED BY <1>7, <1>8

\* Every block on the dirty list is written: the held ones are not dirty.
LEMMA FlushSafe ==
  ASSUME SafeInv, QuietClients, flush
  PROVE  \E on, pos, out : Safe(on, pos, out)'
<1>0. PICK f : f = lists.n[dirty]
  OBVIOUS
<1>1. call.pc = "flush" /\ UNCHANGED <<rtree>>
  BY DEF flush
<1>2. PICK on, pos : Safe(on, pos, {})
  BY <1>1, NothingInHand DEF SafeInv, Safe
<1>3. TypeOK
  BY DEF SafeInv, TypeInv
<1>4. CASE list_empty(lists, dirty)
  <2>1. UNCHANGED <<lists, blocks, inflight>> /\ call' = At("wait_all")
    BY <1>4 DEF flush
  <2>2. call'.pc = "wait_all" /\ call'.op = call.op
    BY <1>3, <2>1 DEF At, TypeOK, Calls
  <2>3. PlaceOK(on)'
    <3>1. ASSUME NEW g \in Frames, on[g] = dirty PROVE FALSE
      <4>1. g \in Nodes /\ g # dirty
        BY HeadFacts
      <4> QED BY <1>2, <1>4, <3>1, <4>1, HeadFacts, EmptyChained DEF Safe
    <3> QED BY <1>1, <1>2, <2>2, <3>1 DEF Safe, PlaceOK
  <2>4. ASSUME TreeStays PROVE TreeOK(on, {})'
    BY <1>1, <1>2, <2>1, <2>2, <2>4 DEF Safe, PlaceOK, TreeOK, InUse, Freed
  <2> QED BY <1>1, <1>2, <2>1, <2>2, <2>3, <2>4, OnlyCall DEF ReadGoesOn
<1>5. CASE ~list_empty(lists, dirty)
  <2>1. f \in Nodes /\ on[f] = dirty /\ f # dirty /\ \A h \in Heads : on[h] = h
    BY <1>0, <1>2, <1>5, HeadFacts DEF Safe, Chained, ListMemory, list_empty
  <2>2. f \in Frames /\ ~Lost(f, dirty)
    BY <2>1, HeadFacts DEF Lost
  <2>3. ~blocks[f].pending /\ blocks[f].ref_count = 0
    <3>1. ~(blocks[f].ref_count > 0)
      BY <1>1, <1>2, <2>1, <2>2, HeadFacts DEF Safe, FramesOK, PlaceOK, ListFor
    <3> QED BY <1>2, <1>3, <2>1, <2>2, <3>1, HeadFacts DEF Safe, FramesOK, TypeOK, Blocks
  <2>4. issue_write(list_del(lists, f), f, call)
    BY <1>0, <1>5, <2>2, <2>3 DEF flush, Unused, Held
  <2>5. Written(f, call, on)
    BY <1>1, <1>2, <1>3, <2>1, <2>2, <2>3, <2>4, WriteSafe
       DEF Safe, FramesOK, Filed, ReadGoesOn
  <2>6. PICK on2, pos2 :
          /\ Chained(lists', Nodes, Heads, {}, on2, pos2)
          /\ \A x \in Nodes \ {f} : on2[x] = on[x]
          /\ on2[f] # free
          /\ FramesOK(on2, {})' /\ ReadsOK(on2, {})'
    BY <2>5 DEF Written
  <2>7. call' = call /\ IosOK'
        /\ \A g \in Frames : /\ blocks'[g].key = blocks[g].key
                             /\ blocks'[g].dirty_bits = blocks[g].dirty_bits
                             /\ blocks'[g].ref_count = blocks[g].ref_count
    BY <2>5 DEF Written
  <2>8. PlaceOK(on2)' /\ HandOK({})'
    BY <1>1, <1>2, <2>7 DEF Safe, PlaceOK, HandOK
  <2>9. ASSUME TreeStays PROVE TreeOK(on2, {})'
    <3>1. \A g \in Frames : on2[g] # free <=> on[g] # free
      BY <2>1, <2>2, <2>6, HeadFacts
    <3> QED BY <1>1, <1>2, <1>3, <2>7, <2>9, <3>1
       DEF Safe, PlaceOK, TreeOK, InUse, Freed, TypeOK
  <2> QED BY <2>6, <2>7, <2>8, <2>9 DEF Safe
<1> QED BY <1>4, <1>5

-----------------------------------------------------------------------------
(* Invalidating *)

\* _recycle_block as the end of a call.
LEMMA RecycleSafe ==
  ASSUME TypeOK, NEW on, NEW pos, Safe(on, pos, {}), call.pc # "destroyed",
         NEW f \in Frames, ~blocks[f].pending, blocks[f].ref_count = 0,
         TreeStays => on[f] # free,
         call.pc \notin {"wait_block", "finish_get", "invalidate_v"},
         recycle_block(f), UNCHANGED <<blocks, inflight>>, call' = Return(TRUE)
  PROVE  \E on2, pos2, out : Safe(on2, pos2, out)'
<1>1. call'.pc = "idle" /\ call'.op = "none"
  BY DEF Return, Idle
<1>2. /\ lists' = list_move(lists, free, f)
      /\ rtree' = [rtree EXCEPT ![blocks[f].key] = NoFrame]
  BY DEF recycle_block
<1>3. f \in Nodes \ Heads /\ on \in [Nodes -> Heads]
  BY HeadFacts DEF Safe, Chained
<1>4. Chained(list_del(lists, f), Nodes, Heads, {f}, on, pos)
  BY <1>3, DelChained DEF Safe
<1>5. PICK on2, pos2 : /\ Chained(lists', Nodes, Heads, {}, on2, pos2)
                       /\ on2 = [on EXCEPT ![f] = free]
  BY <1>2, <1>3, <1>4, HeadFacts, MoveChained
<1>6. on2[f] = free /\ \A x \in Nodes \ {f} : on2[x] = on[x]
  BY <1>3, <1>5
<1>7. FramesOK(on2, {})'
  BY <1>6, HeadFacts DEF Safe, FramesOK, Filed
<1>8. IosOK' /\ PlaceOK(on2)' /\ HandOK({})'
  BY <1>1, IosKept DEF Safe, PlaceOK, HandOK
<1>9. ASSUME TreeStays PROVE TreeOK(on2, {})'
  <2>1. TreeOK(on, {})
    BY <1>9 DEF Safe
  <2>2. blocks[f].key \in Keys /\ rtree[blocks[f].key] = f
    BY <1>9, <2>1 DEF TreeOK, InUse, Freed
  <2>3. \A g \in Frames \ {f} : on[g] # free =>
          blocks[g].key \in Keys /\ rtree'[blocks[g].key] = g
    BY <1>2, <2>1, <2>2 DEF TreeOK, InUse, Freed, TypeOK
  <2>4. \A k \in Keys : rtree'[k] # NoFrame =>
          /\ rtree'[k] \in Frames \ {f} /\ on[rtree'[k]] # free
          /\ blocks[rtree'[k]].key = k
    BY <1>2, <2>1, <2>2 DEF TreeOK, InUse, Freed, TypeOK
  <2>5. \A g \in Frames : InUse(g, on2, {})' <=> g # f /\ on[g] # free
    BY <1>6, HeadFacts DEF InUse
  <2>6. \A k \in Keys : rtree'[k] # NoFrame => InUse(rtree[k], on2, {})'
    BY <2>4, <2>5
  <2> QED BY <1>1, <2>3, <2>4, <2>5, <2>6 DEF TreeOK
<1>10. ReadsOK(on2, {})'
  <2>1. \A g \in Frames \ {f} : on2[g] = on[g]
    BY <1>6, HeadFacts
  <2>2. on2[f] \notin {errored, io_pending} /\ ReadsOK(on, {})
    BY <1>6, HeadFacts DEF Safe
  <2> QED BY <2>1, <2>2 DEF ReadGoesOn, ReadsOK, Reading
<1> QED BY <1>5, <1>7, <1>8, <1>9, <1>10 DEF Safe

LEMMA InvalidateBlockSafe ==
  ASSUME SafeInv, QuietClients, invalidate_block
  PROVE  \E on, pos, out : Safe(on, pos, out)'
<1>0. PICK f : f = call.f
  OBVIOUS
<1>1. call.pc = "invalidate"
  BY DEF invalidate_block
<1>2. PICK on, pos : Safe(on, pos, {})
  BY <1>1, NothingInHand DEF SafeInv, Safe
<1>3. TypeOK /\ f \in Frames
  BY <1>0, <1>1 DEF SafeInv, TypeInv, CallOK
<1>4. ~blocks[f].pending /\ (TreeStays => on[f] # free)
  BY <1>0, <1>1, <1>2 DEF Safe, PlaceOK, TreeOK, InUse, Freed
<1>5. CASE f \in Held
  <2>1. UNCHANGED <<lists, blocks, rtree, inflight>> /\ call'.pc = "idle" /\ call'.op = "none"
    BY <1>0, <1>5 DEF invalidate_block, Return, Idle
  <2>2. PlaceOK(on)'
    BY <2>1 DEF PlaceOK
  <2>3. ASSUME TreeStays PROVE TreeOK(on, {})'
    BY <1>1, <1>2, <2>1, <2>3 DEF Safe, TreeOK, InUse, Freed
  <2> QED BY <1>1, <1>2, <2>1, <2>2, <2>3, OnlyCall DEF ReadGoesOn
<1>6. CASE f \notin Held /\ blocks[f].dirty_bits # {}
  <2>1. issue_write(lists, f, At("wait_written")) /\ UNCHANGED rtree
    BY <1>0, <1>6 DEF invalidate_block
  <2>2. blocks[f].ref_count = 0
    BY <1>3, <1>6 DEF Held, TypeOK, Blocks
  <2>3. Written(f, At("wait_written"), on)
    BY <1>1, <1>2, <1>3, <1>4, <1>6, <2>1, <2>2, WriteSafe DEF ReadGoesOn
  <2>4. PICK on2, pos2 :
          /\ Chained(lists', Nodes, Heads, {}, on2, pos2)
          /\ \A x \in Nodes \ {f} : on2[x] = on[x]
          /\ on2[f] # free
          /\ FramesOK(on2, {})' /\ ReadsOK(on2, {})'
    BY <2>3 DEF Written
  <2>5. /\ call' = At("wait_written") /\ IosOK'
        /\ \A g \in Frames : /\ blocks'[g].key = blocks[g].key
                             /\ blocks'[g].ref_count = blocks[g].ref_count
    BY <2>3 DEF Written
  <2>6. call'.pc = "wait_written" /\ call'.op = call.op /\ call'.f = f
        /\ call'.key = call.key
    BY <1>0, <1>3, <2>5 DEF At, TypeOK, Calls
  <2>7. PlaceOK(on2)' /\ HandOK({})'
    BY <1>1, <1>2, <1>3, <2>2, <2>5, <2>6 DEF Safe, PlaceOK, HandOK
  <2>8. ASSUME TreeStays PROVE TreeOK(on2, {})'
    <3>1. \A g \in Frames : on2[g] # free <=> on[g] # free
      BY <1>3, <1>4, <2>4, <2>8, HeadFacts
    <3>2. TreeOK(on, {}) /\ rtree' = rtree /\ rtree \in [Keys -> Frames \cup {NoFrame}]
      BY <1>2, <1>3, <2>1, <2>8 DEF Safe, TypeOK
    <3>3. \A g \in Frames : blocks'[g].key = blocks[g].key
      BY <2>5
    <3>4. InUse(f, on2, {})'
      BY <1>0, <1>1, <1>3, <3>1, <3>2 DEF TreeOK, InUse, Freed
    <3>5. call.op = "invalidate_block"
      BY <1>1, <1>2 DEF Safe, PlaceOK
    <3> QED BY <1>0, <1>1, <1>3, <2>6, <3>1, <3>2, <3>3, <3>4, <3>5 DEF TreeOK, InUse, Freed
  <2> QED BY <2>4, <2>5, <2>7, <2>8 DEF Safe
<1>7. CASE f \notin Held /\ blocks[f].dirty_bits = {}
  <2>1. recycle_block(f) /\ UNCHANGED <<blocks, inflight>> /\ call' = Return(TRUE)
    BY <1>0, <1>7 DEF invalidate_block
  <2>2. blocks[f].ref_count = 0
    BY <1>3, <1>7 DEF Held, TypeOK, Blocks
  <2> QED BY <1>1, <1>2, <1>3, <1>4, <2>1, <2>2, RecycleSafe
<1> QED BY <1>5, <1>6, <1>7

\* A block whose writeback is pending is not issued again, and the tree is
\* empty when io_invalidate_all runs.
LEMMA WritebackVTree ==
  ASSUME TypeOK, TreeStays, NEW on, TreeOK(on, {}), PlaceOK(on),
         call.pc = "writeback_v", UNCHANGED rtree,
         NEW k \in call.todo, rtree[k] \in Frames,
         call' = [call EXCEPT !.todo = @ \ {k}],
         NEW on2, \A g \in Frames : on2[g] # free <=> on[g] # free,
         \A g \in Frames :
           /\ blocks'[g].key = blocks[g].key /\ blocks'[g].dirty_bits = blocks[g].dirty_bits
           /\ blocks'[g].ref_count = blocks[g].ref_count
           /\ blocks[g].pending => blocks'[g].pending,
         \/ blocks[rtree[k]].dirty_bits = {}
         \/ Faults = {} => blocks'[rtree[k]].pending
  PROVE  TreeOK(on2, {})'
<1>1. /\ call'.pc = "writeback_v" /\ call'.op = call.op /\ call'.key = call.key
      /\ call'.todo = call.todo \ {k} /\ k \in Keys
  BY DEF TypeOK, Calls
<1>2. Emptying(on) /\ call.op = "invalidate_dev"
  BY <1>1, NodeTypes DEF TreeOK, PlaceOK
<1>3. \A j \in Keys : rtree[j] # NoFrame => rtree[j] \in Frames
  BY DEF TypeOK
<1>4. Emptying(on2)'
  <2>1. \A j : OfDevice(j)' <=> OfDevice(j)
    BY <1>1 DEF OfDevice
  <2>2. \A j \in Keys : OfDevice(j) =>
          /\ blocks'[rtree[j]].ref_count = 0
          /\ \/ blocks'[rtree[j]].dirty_bits = {}
             \/ blocks'[rtree[j]].pending \/ j \in call.todo \ {k}
    BY <1>1, <1>2, <1>3 DEF Emptying, OfDevice
  <2> QED BY <1>1, <1>2, <2>1, <2>2 DEF Emptying
<1> QED BY <1>1, <1>2, <1>3, <1>4 DEF TreeOK, InUse, Freed

LEMMA WritebackVSafe ==
  ASSUME SafeInv, QuietClients, writeback_v
  PROVE  \E on, pos, out : Safe(on, pos, out)'
<1>1. call.pc = "writeback_v" /\ UNCHANGED rtree
  BY DEF writeback_v
<1>2. PICK on, pos : Safe(on, pos, {})
  BY <1>1, NothingInHand DEF SafeInv, Safe
<1>3. PICK k \in call.todo :
        LET next == [call EXCEPT !.todo = @ \ {k}] IN
        IF blocks[rtree[k]].dirty_bits # {}
        THEN issue_write(lists, rtree[k], next)
        ELSE call' = next /\ UNCHANGED <<lists, blocks, nr_io_pending, inflight>>
  BY DEF writeback_v
<1>4. PICK f, next : f = rtree[k] /\ next = [call EXCEPT !.todo = @ \ {k}]
  OBVIOUS
<1>5. TypeOK /\ k \in Keys /\ f \in Frames
  BY <1>1, <1>4 DEF SafeInv, TypeInv, CallOK, TypeOK, Calls
<1>6. blocks[f].ref_count = 0 /\ \A j \in call.todo : blocks[rtree[j]].ref_count = 0
  BY <1>1, <1>2, <1>4 DEF Safe, PlaceOK
<1>7. \A j \in call.todo : rtree[j] \in Frames
  BY <1>1 DEF SafeInv, TypeInv, CallOK
<1>8. next.pc = call.pc /\ next.op = call.op /\ next.todo = call.todo \ {k}
  BY <1>4, <1>5 DEF TypeOK, Calls
<1>9. CASE blocks[f].dirty_bits = {}
  <2>1. call' = next /\ UNCHANGED <<lists, blocks, inflight>>
    BY <1>3, <1>4, <1>9
  <2>2. PlaceOK(on)'
    BY <1>1, <1>2, <1>6, <1>8, <2>1 DEF Safe, PlaceOK
  <2>3. ASSUME TreeStays PROVE TreeOK(on, {})'
    BY <1>1, <1>2, <1>4, <1>5, <1>9, <2>1, <2>3, WritebackVTree DEF Safe
  <2> QED BY <1>1, <1>2, <1>8, <2>1, <2>2, <2>3, OnlyCall DEF ReadGoesOn
<1>10. CASE blocks[f].dirty_bits # {} /\ ~blocks[f].pending
  <2>1. issue_write(lists, f, next)
    BY <1>3, <1>4, <1>10
  <2>2. Written(f, next, on)
    BY <1>1, <1>2, <1>5, <1>6, <1>10, <2>1, WriteSafe DEF ReadGoesOn
  <2>3. PICK on2, pos2 :
          /\ Chained(lists', Nodes, Heads, {}, on2, pos2)
          /\ \A x \in Nodes \ {f} : on2[x] = on[x]
          /\ on2[f] # free
          /\ FramesOK(on2, {})' /\ ReadsOK(on2, {})'
    BY <2>2 DEF Written
  <2>4. /\ call' = next /\ IosOK' /\ (Faults = {} => blocks'[f].pending)
        /\ \A g \in Frames :
             /\ blocks'[g].key = blocks[g].key /\ blocks'[g].dirty_bits = blocks[g].dirty_bits
             /\ blocks'[g].ref_count = blocks[g].ref_count
             /\ g # f => (blocks'[g].pending <=> blocks[g].pending)
    BY <2>2 DEF Written
  <2>5. PlaceOK(on2)' /\ HandOK({})'
    BY <1>1, <1>2, <1>6, <1>7, <1>8, <2>4 DEF Safe, PlaceOK, HandOK
  <2>6. ASSUME TreeStays PROVE TreeOK(on2, {})'
    <3>1. TreeOK(on, {}) /\ PlaceOK(on)
      BY <1>2, <2>6 DEF Safe
    <3>2. on[f] # free
      BY <1>1, <1>4, <1>5, <3>1, HeadFacts DEF TreeOK, InUse, Freed
    <3>3. \A g \in Frames : on2[g] # free <=> on[g] # free
      BY <2>3, <3>2, HeadFacts
    <3>4. \A g \in Frames : blocks[g].pending => blocks'[g].pending
      BY <1>10, <2>4
    <3> QED BY <1>1, <1>4, <1>5, <2>4, <2>6, <3>1, <3>3, <3>4, WritebackVTree
  <2> QED BY <2>3, <2>4, <2>5, <2>6 DEF Safe
<1>11. CASE blocks[f].dirty_bits # {} /\ blocks[f].pending
  <2>1. PICK b : b = [blocks[f] EXCEPT !.error = FALSE]
    OBVIOUS
  <2>2. issue(lists, f, b, "write", next)
    BY <1>3, <1>4, <1>11, <2>1 DEF issue_write
  <2>3. /\ b.pending <=> blocks[f].pending
        /\ b.key = blocks[f].key /\ b.io_dir = blocks[f].io_dir
        /\ b.io_count = blocks[f].io_count /\ b.ref_count = 0
        /\ b.dirty_bits = blocks[f].dirty_bits
    BY <1>5, <1>6, <2>1 DEF TypeOK, Blocks
  <2>4. UNCHANGED <<lists, inflight>> /\ blocks' = [blocks EXCEPT ![f] = b] /\ call' = next
    BY <1>11, <2>2, <2>3 DEF issue
  <2>5. /\ \A g \in Frames : g # f => blocks'[g] = blocks[g]
        /\ blocks'[f] = b
    BY <1>5, <2>4 DEF TypeOK
  <2>6. IosOK'
    BY <1>2, <1>5, <2>3, <2>4, <2>5, IosKept DEF Safe
  <2>7. FramesOK(on, {})'
    <3>1. on[f] = io_pending /\ Filed(blocks[f], io_pending) /\ ~b.error
      BY <1>2, <1>5, <1>11, <2>1 DEF Safe, FramesOK, TypeOK, Blocks
    <3>2. Filed(b, io_pending)
      BY <2>3, <3>1, HeadFacts DEF Filed
    <3> QED BY <1>2, <1>6, <2>3, <2>5, <3>1, <3>2, HeadFacts DEF Safe, FramesOK
  <2>8. /\ \A j \in call.todo : blocks'[rtree[j]].ref_count = 0
        /\ \A g \in Frames : /\ blocks'[g].ref_count = blocks[g].ref_count
                             /\ blocks'[g].key = blocks[g].key
                             /\ blocks'[g].dirty_bits = blocks[g].dirty_bits
                             /\ blocks[g].pending => blocks'[g].pending
    BY <1>6, <1>7, <2>3, <2>5
  <2>9. PlaceOK(on)' /\ HandOK({})'
    BY <1>1, <1>2, <1>8, <2>4, <2>8 DEF Safe, PlaceOK, HandOK
  <2>10. ReadsOK(on, {})'
    <3>1. \A g \in Frames : blocks'[g].io_dir = blocks[g].io_dir
      BY <2>3, <2>5
    <3> QED BY <1>1, <1>2, <1>5, <3>1 DEF Safe, ReadGoesOn, ReadsOK, Reading
  <2>11. ASSUME TreeStays PROVE TreeOK(on, {})'
    <3>1. TreeOK(on, {}) /\ PlaceOK(on) /\ blocks'[rtree[k]].pending
      BY <1>2, <1>4, <1>5, <1>11, <2>8, <2>11 DEF Safe
    <3> QED BY <1>1, <1>4, <1>5, <2>4, <2>8, <2>11, <3>1, WritebackVTree
  <2> QED BY <1>2, <2>4, <2>6, <2>7, <2>9, <2>10, <2>11 DEF Safe
<1> QED BY <1>9, <1>10, <1>11

LEMMA InvalidateDevSafe ==
  ASSUME SafeInv, writeback_v_done \/ invalidate_v \/ remove_prefix
  PROVE  \E on, pos, out : Safe(on, pos, out)'
<1>1. /\ call.pc \in {"writeback_v", "invalidate_v"} /\ UNCHANGED <<blocks, inflight>>
  BY DEF writeback_v_done, invalidate_v, remove_prefix
<1>2. PICK on, pos : Safe(on, pos, {})
  BY <1>1, NothingInHand DEF SafeInv, Safe
<1>3. TypeOK
  BY DEF SafeInv, TypeInv
<1>4. CASE writeback_v_done
  <2>1. UNCHANGED lists
    BY <1>4 DEF writeback_v_done
  <2>2. CASE call.op = "invalidate_dev"
    <3>1. call' = At("wait_all") /\ UNCHANGED rtree
      BY <1>4, <2>2 DEF writeback_v_done
    <3>2. /\ call'.pc = "wait_all" /\ call'.op = call.op /\ call'.key = call.key
          /\ call'.todo = {} /\ call.todo = {} /\ call.pc = "writeback_v"
      BY <1>3, <1>4, <3>1 DEF writeback_v_done, At, TypeOK, Calls
    <3>3. PlaceOK(on)'
      BY <2>2, <3>2 DEF PlaceOK
    <3>4. ASSUME TreeStays PROVE TreeOK(on, {})'
      <4>1. Emptying(on)'
        BY <1>1, <1>2, <2>2, <3>1, <3>2, <3>4 DEF Safe, TreeOK, Emptying, OfDevice
      <4> QED BY <1>1, <1>2, <2>2, <3>1, <3>2, <3>4, <4>1 DEF Safe, TreeOK, InUse, Freed
    <3> QED BY <1>1, <1>2, <2>1, <3>1, <3>2, <3>3, <3>4, OnlyCall DEF ReadGoesOn
  <2>3. CASE call.op # "invalidate_dev"
    <3>1. call'.pc = "idle" /\ call'.op = "none" /\ rtree' = [k \in Keys |-> NoFrame]
      BY <1>4, <2>3 DEF writeback_v_done, Return, Idle
    <3>2. PlaceOK(on)' /\ HandOK({})'
      BY <3>1 DEF PlaceOK, HandOK
    <3>3. call.op = "invalidate_all"
      BY <1>2, <1>4, <2>3 DEF writeback_v_done, Safe, PlaceOK
    <3>4. ASSUME TreeStays PROVE TreeOK(on, {})'
      BY <1>1, <1>2, <1>3, <3>1, <3>3, <3>4, HeadFacts DEF Safe, TreeOK, InUse, Freed, TypeOK
    <3>5. FramesOK(on, {})' /\ IosOK'
      BY <1>1, <1>2 DEF Safe, FramesOK, IosOK, InFlight
    <3>6. ReadsOK(on, {})'
      BY <1>1, <1>2 DEF Safe, ReadGoesOn, ReadsOK, Reading
    <3> QED BY <1>2, <2>1, <3>2, <3>4, <3>5, <3>6 DEF Safe
  <2> QED BY <2>2, <2>3
<1>5. CASE invalidate_v
  <2>0. PICK k \in call.todo :
          \E g : /\ g = rtree[k]
                /\ call' = [call EXCEPT !.todo = @ \ {k},
                              !.ret = @ /\ ~(\/ blocks[g].error
                                            \/ blocks[g].dirty_bits # {}
                                            \/ g \in Held)]
                /\ \/ /\ blocks[g].error \/ blocks[g].dirty_bits # {} \/ g \in Held
                      /\ UNCHANGED lists
                   \/ lists' = list_move(lists, free, g) /\ g \notin Held
    BY <1>5 DEF invalidate_v
  <2>1. PICK f :
          /\ f = rtree[k]
          /\ call' = [call EXCEPT !.todo = @ \ {k},
                        !.ret = @ /\ ~(blocks[f].error \/ blocks[f].dirty_bits # {} \/ f \in Held)]
          /\ \/ /\ blocks[f].error \/ blocks[f].dirty_bits # {} \/ f \in Held
                /\ UNCHANGED lists
             \/ lists' = list_move(lists, free, f) /\ f \notin Held
    BY <2>0
  <2>2. f \in Frames /\ f \in Nodes \ Heads
    BY <1>5, <2>1, HeadFacts DEF invalidate_v, SafeInv, TypeInv, CallOK
  <2>3. /\ call'.pc = call.pc /\ call'.op = call.op /\ call.pc = "invalidate_v"
        /\ call'.key = call.key /\ call'.todo = call.todo \ {k} /\ UNCHANGED rtree
    BY <1>3, <1>5, <2>1 DEF invalidate_v, TypeOK, Calls
  <2>4. ~blocks[f].pending /\ call.op = "invalidate_dev"
    BY <1>2, <2>2, <2>3 DEF Safe, PlaceOK
  <2>8. ASSUME TreeStays
        PROVE  TreeOK(on, {}) /\ Emptying(on) /\ k \in Keys /\ OfDevice(k)
    BY <1>2, <2>4, <2>8 DEF Safe, TreeOK, Emptying
  <2>5. HandOK({})' /\ IosOK' /\ \A o : PlaceOK(o)'
    BY <1>1, <1>2, <2>3 DEF Safe, HandOK, IosOK, InFlight, PlaceOK
  <2>6. CASE /\ blocks[f].error \/ blocks[f].dirty_bits # {} \/ f \in Held
             /\ UNCHANGED lists
    <3>3. ~TreeStays
      <4> SUFFICES ASSUME TreeStays PROVE FALSE
        OBVIOUS
      <4>1. blocks[f].dirty_bits = {} /\ blocks[f].ref_count = 0 /\ ~blocks[f].error
        BY <1>2, <2>1, <2>2, <2>3, <2>8 DEF Emptying, Safe, FramesOK
      <4> QED BY <2>6, <4>1 DEF Held
    <3>1. FramesOK(on, {})'
      BY <1>1, <1>2 DEF Safe, FramesOK
    <3>2. ReadsOK(on, {})'
      BY <1>1, <1>2 DEF Safe, ReadGoesOn, ReadsOK, Reading
    <3> QED BY <1>2, <2>5, <2>6, <3>1, <3>2, <3>3 DEF Safe
  <2>7. CASE lists' = list_move(lists, free, f) /\ f \notin Held
    <3>0. on \in [Nodes -> Heads]
      BY <1>2 DEF Safe, Chained
    <3>1. Chained(list_del(lists, f), Nodes, Heads, {f}, on, pos)
      BY <1>2, <2>2, DelChained DEF Safe
    <3>2. PICK on2, pos2 : /\ Chained(lists', Nodes, Heads, {}, on2, pos2)
                           /\ on2 = [on EXCEPT ![f] = free]
      BY <2>2, <2>7, <3>1, HeadFacts, MoveChained
    <3>3. on2[f] = free /\ \A x \in Nodes \ {f} : on2[x] = on[x]
      BY <2>2, <3>0, <3>2
    <3>4. ~(blocks[f].ref_count > 0)
      BY <2>2, <2>7 DEF Held
    <3>5. FramesOK(on2, {})'
      BY <1>1, <1>2, <2>4, <3>3, <3>4, HeadFacts DEF Safe, FramesOK, Filed
    <3>6. ReadsOK(on2, {})'
      <4>1. \A g \in Frames \ {f} : on2[g] = on[g]
        BY <3>3, HeadFacts
      <4> QED BY <1>1, <1>2, <3>3, <4>1, HeadFacts DEF Safe, ReadGoesOn, ReadsOK, Reading
    <3>7. ASSUME TreeStays PROVE TreeOK(on2, {})'
      <4>1. /\ \A g \in Frames : g # f => on2[g] = on[g]
            /\ \A j \in Keys : rtree[j] # NoFrame => rtree[j] \in Frames
        BY <1>3, <3>3, HeadFacts DEF TypeOK
      <4>2. blocks[f].key = k
        BY <2>1, <2>2, <2>8, <3>7, NodeTypes DEF TreeOK
      <4>3. \A j : OfDevice(j)' <=> OfDevice(j)
        BY <2>3 DEF OfDevice
      <4>4. \A j \in Keys : j # k /\ rtree[j] # NoFrame => rtree[j] # f
        BY <2>8, <3>7, <4>2 DEF TreeOK
      <4>5. Emptying(on2)'
        <5>1. \A j \in Keys : OfDevice(j) =>
                /\ blocks[rtree[j]].ref_count = 0 /\ blocks[rtree[j]].dirty_bits = {}
                /\ j \notin call.todo \ {k} => on2[rtree[j]] = free
          BY <2>1, <2>3, <2>8, <3>3, <3>7, <4>1, <4>4 DEF Emptying, OfDevice
        <5> QED BY <1>1, <2>3, <2>8, <3>7, <4>3, <5>1 DEF Emptying
      <4>6. \A g \in Frames : on2[g] # free => on[g] # free
        BY <3>3, <4>1
      <4>7. \A j \in Keys : rtree[j] # NoFrame => on2[rtree[j]] # free \/ Freed(j)'
        <5>1. ASSUME NEW j \in Keys, rtree[j] # NoFrame PROVE on2[rtree[j]] # free \/ Freed(j)'
          <6>1. CASE j = k
            BY <2>3, <2>8, <3>7, <4>3, <6>1 DEF Freed
          <6>2. CASE j # k
            BY <2>3, <2>8, <3>7, <4>1, <4>3, <4>4, <5>1, <6>2 DEF TreeOK, InUse, Freed
          <6> QED BY <6>1, <6>2
        <5> QED BY <5>1
      <4> QED BY <1>1, <2>3, <2>4, <2>8, <3>7, <4>1, <4>5, <4>6, <4>7 DEF TreeOK, InUse
    <3> QED BY <2>5, <3>2, <3>5, <3>6, <3>7 DEF Safe
  <2> QED BY <2>1, <2>6, <2>7
<1>6. CASE remove_prefix
  <2>1. UNCHANGED lists /\ call'.pc = "idle" /\ call'.op = "none"
        /\ call.pc = "invalidate_v" /\ call.todo = {}
        /\ rtree' = [k \in Keys |-> IF DevOf[k] = DevOf[call.key] THEN NoFrame ELSE rtree[k]]
    BY <1>6 DEF remove_prefix, Return, Idle
  <2>2. ASSUME TreeStays PROVE TreeOK(on, {})'
    <3>1. TreeOK(on, {}) /\ Emptying(on)
      BY <1>2, <2>1, <2>2 DEF Safe, PlaceOK, TreeOK
    <3>2. \A g \in Frames : on[g] # free =>
            blocks[g].key \in Keys /\ rtree[blocks[g].key] = g /\ ~OfDevice(blocks[g].key)
      BY <1>3, <2>1, <3>1, NodeTypes DEF TreeOK, InUse, Emptying
    <3>3. \A g \in Frames : on[g] # free => rtree'[blocks[g].key] = g
      BY <2>1, <3>2, NodeTypes DEF OfDevice
    <3>4. \A k \in Keys : rtree'[k] # NoFrame =>
            rtree'[k] = rtree[k] /\ on[rtree[k]] # free /\ blocks[rtree[k]].key = k
      BY <1>3, <2>1, <3>1 DEF TreeOK, InUse, Freed, OfDevice
    <3> QED BY <1>1, <2>1, <3>2, <3>3, <3>4 DEF TreeOK, InUse
  <2>3. PlaceOK(on)' /\ HandOK({})' /\ FramesOK(on, {})' /\ IosOK'
    BY <1>1, <1>2, <2>1 DEF Safe, PlaceOK, HandOK, FramesOK, IosOK, InFlight
  <2>4. ReadsOK(on, {})'
    BY <1>1, <1>2 DEF Safe, ReadGoesOn, ReadsOK, Reading
  <2> QED BY <1>2, <2>1, <2>2, <2>3, <2>4 DEF Safe
<1> QED BY <1>4, <1>5, <1>6

-----------------------------------------------------------------------------
(* Completions, and the ends of the engine->wait loops *)

\* The last completion of an io takes the frame off io_pending.
LEMMA CompletionSafe ==
  ASSUME SafeInv, Completion
  PROVE  \E on, pos, out : Safe(on, pos, out)'
<1>1. PICK io \in inflight, success \in BOOLEAN :
        complete_io(io, success) /\ (success \/ io.dir \in Faults)
  BY DEF Completion
<1>2. PICK f, b, failed :
        f = io.frame /\ b = blocks[f] /\ failed = (b.error \/ ~success)
  OBVIOUS
<1>3. InWait /\ UNCHANGED rtree /\ inflight' = inflight \ {io}
  BY <1>1 DEF complete_io
<1>4. PICK on, pos : Safe(on, pos, {})
  BY <1>3, NothingInHand DEF SafeInv, Safe, InWait
<1>5. TypeOK /\ f \in Frames /\ b \in Blocks /\ f \in Nodes \ Heads
  <2>1. TypeOK /\ f \in Frames
    BY <1>2 DEF SafeInv, TypeInv, TypeOK, Ios
  <2> QED BY <1>2, <2>1, HeadFacts DEF TypeOK
<1>6. /\ IsFiniteSet(InFlight(f)) /\ b.io_count = Cardinality(InFlight(f))
      /\ io \in InFlight(f) /\ Cardinality(InFlight(f)) \in Nat
  BY <1>2, <1>4, <1>5, FS_CardinalityType DEF Safe, IosOK, InFlight
<1>7. /\ IsFiniteSet(InFlight(f) \ {io})
      /\ Cardinality(InFlight(f) \ {io}) = b.io_count - 1
      /\ b.io_count \in Nat \ {0}
  <2>1. Cardinality(InFlight(f) \ {io}) = Cardinality(InFlight(f)) - 1
        /\ IsFiniteSet(InFlight(f) \ {io})
    BY <1>6, FS_RemoveElement
  <2>2. Cardinality(InFlight(f) \ {io}) \in Nat
    BY <2>1, FS_CardinalityType
  <2> QED BY <1>6, <2>1, <2>2
<1>8. b.pending /\ b.ref_count = 0 /\ on[f] = io_pending
  BY <1>2, <1>4, <1>5, <1>7, HeadFacts DEF Safe, IosOK, FramesOK, Blocks
<1>9. call' = [call EXCEPT !.batch = TRUE]
  BY <1>1, <1>2, <1>7 DEF complete_io
<1>10. /\ call'.pc = call.pc /\ call'.op = call.op /\ call'.key = call.key
       /\ call'.f = call.f
       /\ call.pc \in {"wait_all", "wait_block", "wait_written", "wait_io"}
  BY <1>3, <1>5, <1>9 DEF InWait, TypeOK, Calls
<1>11. InFlight(f)' = InFlight(f) \ {io} /\ \A g \in Frames \ {f} : InFlight(g)' = InFlight(g)
  BY <1>2, <1>3 DEF InFlight
\* What the two cases below have to show of the blocks.
<1>12. ASSUME \A g \in Frames \ {f} : blocks'[g] = blocks[g],
              blocks'[f].key = b.key, blocks'[f].io_dir = b.io_dir,
              blocks'[f].ref_count = 0, blocks'[f].io_count = b.io_count - 1,
              blocks'[f].io_count > 0 => blocks'[f].pending
       PROVE  /\ IosOK' /\ HandOK({})'
              /\ \A o : (\A g \in Frames : o[g] = dirty => on[g] = dirty) => PlaceOK(o)'
              /\ \A g \in Frames : blocks'[g].key = blocks[g].key
  <2>1. \A g \in Frames : /\ blocks'[g].key = blocks[g].key
                          /\ blocks'[g].io_dir = blocks[g].io_dir
                          /\ blocks[g].ref_count = 0 => blocks'[g].ref_count = 0
    BY <1>2, <1>12
  <2>2. \A g \in Frames :
          /\ IsFiniteSet(InFlight(g)') /\ blocks'[g].io_count = Cardinality(InFlight(g)')
          /\ blocks'[g].io_count > 0 => blocks'[g].pending
    BY <1>4, <1>7, <1>11, <1>12 DEF Safe, IosOK
  <2>3. \A i \in inflight' : i \in inflight /\ i.frame \in Frames
    BY <1>3, <1>5 DEF TypeOK, Ios
  <2>4. IosOK'
    BY <1>4, <2>1, <2>2, <2>3 DEF Safe, IosOK
  <2>5. HandOK({})'
    BY <1>10 DEF HandOK
  <2>6. call.pc = "wait_written" => call.f \in Frames
    BY DEF SafeInv, TypeInv, CallOK
  <2>7. \A o : (\A g \in Frames : o[g] = dirty => on[g] = dirty) => PlaceOK(o)'
    BY <1>4, <1>10, <2>1, <2>6 DEF Safe, PlaceOK
  <2> QED BY <2>1, <2>4, <2>5, <2>7
<1>15. call'.todo = call.todo
  BY <1>5, <1>9 DEF TypeOK, Calls
<1>13. CASE b.io_count > 1
  <2>1. UNCHANGED lists
        /\ blocks' = [blocks EXCEPT ![f].io_count = @ - 1, ![f].error = failed]
    BY <1>1, <1>2, <1>13 DEF complete_io
  <2>2. /\ \A g \in Frames \ {f} : blocks'[g] = blocks[g]
        /\ blocks'[f].key = b.key /\ blocks'[f].io_dir = b.io_dir
        /\ blocks'[f].ref_count = 0 /\ blocks'[f].io_count = b.io_count - 1
        /\ blocks'[f].pending
    BY <1>2, <1>5, <1>8, <2>1 DEF TypeOK, Blocks
  <2>3. /\ IosOK' /\ HandOK({})' /\ PlaceOK(on)'
        /\ \A g \in Frames : blocks'[g].key = blocks[g].key
    BY <1>12, <2>2
  <2>4. FramesOK(on, {})'
    <3>1. Filed(b, io_pending) /\ (b.io_dir = "read" /\ ReadsWork => success)
      BY <1>1, <1>2, <1>4, <1>5, <1>8 DEF Safe, FramesOK, IosOK, ReadsWork
    <3>2. blocks'[f].error = failed /\ blocks'[f].dirty_bits = b.dirty_bits
      BY <1>2, <1>5, <2>1 DEF TypeOK, Blocks
    <3>3. Filed(blocks'[f], on[f])
      BY <1>2, <1>8, <2>2, <3>1, <3>2, HeadFacts DEF Filed
    <3>4. Faults = {} => ~blocks'[f].error
      BY <1>1, <1>2, <1>4, <1>5, <3>2 DEF Safe, FramesOK
    <3> QED BY <1>4, <1>8, <2>2, <3>3, <3>4, HeadFacts DEF Safe, FramesOK
  <2>5. ASSUME TreeStays PROVE TreeOK(on, {})'
    <3>1. TreeOK(on, {}) /\ \A k \in Keys : rtree[k] # NoFrame => rtree[k] \in Frames
      BY <1>4, <1>5, <2>5 DEF Safe, TypeOK
    <3>2. blocks'[f].dirty_bits = b.dirty_bits /\ \A k : OfDevice(k)' <=> OfDevice(k)
      BY <1>2, <1>3, <1>5, <1>10, <2>1 DEF TypeOK, Blocks, OfDevice
    <3>3. call.op = "invalidate_dev" => Emptying(on)'
      BY <1>2, <1>3, <1>8, <1>10, <1>15, <2>2, <3>1, <3>2 DEF TreeOK, Emptying, OfDevice
    <3>4. call.pc \in {"wait_block", "wait_written"} => call.f \in Frames
      BY DEF SafeInv, TypeInv, CallOK
    <3> QED BY <1>3, <1>5, <1>10, <2>3, <3>1, <3>3, <3>4 DEF TreeOK, InUse, Freed
  <2>6. ReadsOK(on, {})'
    <3>1. \A g \in Frames : blocks'[g].io_dir = blocks[g].io_dir
      BY <1>2, <2>2
    <3> QED BY <1>4, <1>5, <1>10, <3>1 DEF Safe, ReadGoesOn, ReadsOK, Reading
  <2> QED BY <1>4, <2>1, <2>3, <2>4, <2>5, <2>6 DEF Safe
<1>14. CASE b.io_count = 1
  <2> DEFINE fails == blocks[io.frame].error \/ ~success
             h == IF fails THEN errored ELSE clean
             bits == DirtyAfter(blocks[io.frame], fails)
  <2>1. lists' = list_move(lists, h, io.frame)
        /\ blocks' = [blocks EXCEPT ![io.frame].io_count = 0, ![io.frame].error = fails,
                        ![io.frame].pending = FALSE, ![io.frame].dirty_bits = bits]
    <3>1. blocks[io.frame].io_count = 1
      BY <1>2, <1>14
    <3> QED BY <1>1, <3>1 DEF complete_io
  <2>2. /\ h \in Heads /\ h # free /\ h # io_pending /\ h # dirty
        /\ h = clean => bits = {}
    BY HeadFacts DEF DirtyAfter
  <2> HIDE DEF fails, bits, h
  <2>3. lists' = list_move(lists, h, f)
        /\ blocks' = [blocks EXCEPT ![f].io_count = 0, ![f].error = fails,
                        ![f].pending = FALSE, ![f].dirty_bits = bits]
    BY <1>2, <2>1
  <2>4. /\ \A g \in Frames \ {f} : blocks'[g] = blocks[g]
        /\ blocks'[f].key = b.key /\ blocks'[f].io_dir = b.io_dir
        /\ blocks'[f].ref_count = 0 /\ blocks'[f].io_count = b.io_count - 1
        /\ ~blocks'[f].pending /\ ~(blocks'[f].io_count > 0)
        /\ blocks'[f].dirty_bits = bits
    BY <1>2, <1>5, <1>8, <1>14, <2>3 DEF TypeOK, Blocks
  <2>5. /\ IosOK' /\ HandOK({})'
        /\ \A o : (\A g \in Frames : o[g] = dirty => on[g] = dirty) => PlaceOK(o)'
        /\ \A g \in Frames : blocks'[g].key = blocks[g].key
    BY <1>12, <2>4
  <2>6. on \in [Nodes -> Heads]
    BY <1>4 DEF Safe, Chained
  <2>7. Chained(list_del(lists, f), Nodes, Heads, {f}, on, pos)
    BY <1>4, <1>5, DelChained DEF Safe
  <2>8. PICK on2, pos2 : /\ Chained(lists', Nodes, Heads, {}, on2, pos2)
                         /\ on2 = [on EXCEPT ![f] = h]
    BY <1>5, <2>3, <2>2, <2>7, MoveChained
  <2>9. on2[f] = h /\ \A x \in Nodes \ {f} : on2[x] = on[x]
    BY <1>5, <2>6, <2>8
  <2>10. FramesOK(on2, {})'
    <3>1. Filed(b, io_pending) /\ (b.io_dir = "read" /\ ReadsWork => success)
      BY <1>1, <1>2, <1>4, <1>5, <1>8 DEF Safe, FramesOK, IosOK, ReadsWork
    <3>2. blocks'[f].error = fails /\ fails = (b.error \/ ~success)
          /\ (fails => bits = b.dirty_bits)
      BY <1>2, <1>5, <2>3 DEF TypeOK, Blocks, fails, bits, DirtyAfter
    <3>3. Filed(blocks'[f], h)
      BY <1>5, <2>4, <3>1, <3>2, HeadFacts DEF Filed, h, Blocks
    <3>4. \A g \in Frames \ {f} : on2[g] = on[g]
      BY <2>9, HeadFacts
    <3>5. Faults = {} => ~blocks'[f].error
      BY <1>1, <1>2, <1>4, <1>5, <3>2 DEF Safe, FramesOK
    <3> QED BY <1>4, <1>5, <2>4, <2>2, <2>9, <3>3, <3>4, <3>5, HeadFacts DEF Safe, FramesOK
  <2>11. ASSUME TreeStays PROVE TreeOK(on2, {})'
    <3>1. \A g \in Frames : on2[g] # free <=> on[g] # free
      BY <1>8, <2>2, <2>9, HeadFacts
    <3>2. TreeOK(on, {}) /\ rtree \in [Keys -> Frames \cup {NoFrame}]
      BY <1>4, <1>5, <2>11 DEF Safe, TypeOK
    <3>3. \A g \in Frames : blocks'[g].key = blocks[g].key
      BY <2>5
    <3>4. call.pc = "wait_block" \/ call.pc = "wait_written" => call.f \in Frames
      BY DEF SafeInv, TypeInv, CallOK
    <3>5. Faults = {} => bits = {}
      <4>1. Faults = {} => ~fails
        BY <1>1, <1>2, <1>4, <1>5 DEF Safe, FramesOK, fails
      <4> QED BY <4>1 DEF bits, DirtyAfter
    <3>6. \A k : OfDevice(k)' <=> OfDevice(k)
      BY <1>3, <1>10 DEF OfDevice
    <3>7. call.op = "invalidate_dev" => Emptying(on2)'
      BY <1>2, <1>3, <1>8, <1>10, <1>15, <2>4, <3>2, <3>5, <3>6 DEF TreeOK, Emptying, OfDevice
    <3> QED BY <1>3, <1>10, <3>1, <3>2, <3>3, <3>4, <3>7 DEF TreeOK, InUse, Freed
  <2>12. PlaceOK(on2)'
    BY <2>2, <2>5, <2>9, HeadFacts
  <2>13. ReadsOK(on2, {})'
    <3>1. \A g \in Frames \ {f} : on2[g] = on[g]
      BY <2>9, HeadFacts
    <3>2. "prefetch" \notin Ops /\ b.io_dir = "read" => Reading(f)'
      <4>1. f \in Frames \ {}
        BY <1>5
      <4> QED BY <1>2, <1>4, <1>8, <1>10, <4>1 DEF Safe, ReadsOK, Reading
    <3> QED BY <1>4, <1>10, <2>4, <3>1, <3>2 DEF Safe, ReadGoesOn, ReadsOK, Reading
  <2> QED BY <2>5, <2>8, <2>10, <2>11, <2>12, <2>13 DEF Safe
<1> QED BY <1>7, <1>13, <1>14

LEMMA WaitedSafe ==
  ASSUME SafeInv, waited_io \/ waited_block \/ waited_written \/ waited_all
  PROVE  \E on, pos, out : Safe(on, pos, out)'
<1>1. /\ call.pc \in {"wait_io", "wait_block", "wait_written", "wait_all"}
      /\ UNCHANGED <<blocks, inflight>> /\ ~Waiting
  BY DEF waited_io, waited_block, waited_written, waited_all, Waited
<1>2. PICK on, pos : Safe(on, pos, {})
  BY <1>1, NothingInHand DEF SafeInv, Safe
<1>3. TypeOK
  BY DEF SafeInv, TypeInv
<1>4. CASE waited_io
  <2>1. UNCHANGED <<lists, rtree>> /\ call' = At("evict")
    BY <1>4 DEF waited_io
  <2>2. call'.pc = "evict" /\ call'.op = call.op /\ call'.key = call.key
        /\ call.pc = "wait_io"
    BY <1>3, <1>4, <2>1 DEF At, TypeOK, Calls, waited_io, Waited
  <2>3. PlaceOK(on)'
    BY <1>2, <2>2 DEF Safe, PlaceOK
  <2>4. ASSUME TreeStays PROVE TreeOK(on, {})'
    BY <1>1, <1>2, <2>1, <2>2, <2>4 DEF Safe, PlaceOK, TreeOK, InUse, Freed
  <2> QED BY <1>1, <1>2, <2>1, <2>2, <2>3, <2>4, OnlyCall DEF ReadGoesOn
<1>5. CASE waited_block
  <2>1. UNCHANGED <<lists, rtree>> /\ call.pc = "wait_block"
        /\ call' = At(IF call.op = "get" THEN "finish_get" ELSE "invalidate")
    BY <1>5 DEF waited_block, Waited
  <2>2. /\ call'.pc = IF call.op = "get" THEN "finish_get" ELSE "invalidate"
        /\ call'.op = call.op /\ call'.f = call.f /\ call'.key = call.key
    BY <1>3, <2>1 DEF At, TypeOK, Calls
  <2>3. ~blocks[call.f].pending
    BY <1>1, <2>1 DEF Waiting
  <2>4. PlaceOK(on)'
    BY <1>1, <1>2, <2>1, <2>2, <2>3 DEF Safe, PlaceOK
  <2>5. ASSUME TreeStays PROVE TreeOK(on, {})'
    BY <1>1, <1>2, <2>1, <2>2, <2>5 DEF Safe, PlaceOK, TreeOK, InUse, Freed
  <2> QED BY <1>1, <1>2, <2>1, <2>2, <2>4, <2>5, OnlyCall DEF ReadGoesOn
<1>6. CASE waited_written
  <2>1. PICK f : f = call.f
    OBVIOUS
  <2>2. call.pc = "wait_written" /\ f \in Frames
    BY <1>6, <2>1 DEF waited_written, Waited, SafeInv, TypeInv, CallOK
  <2>3. ~blocks[f].pending /\ blocks[f].ref_count = 0
    BY <1>1, <1>2, <2>1, <2>2 DEF Waiting, Safe, PlaceOK
  <2>4. CASE blocks[f].error
    <3>1. UNCHANGED <<lists, rtree>> /\ call'.pc = "idle" /\ call'.op = "none"
      BY <1>6, <2>1, <2>4 DEF waited_written, Return, Idle
    <3>2. PlaceOK(on)'
      BY <3>1 DEF PlaceOK
    <3>3. ASSUME TreeStays PROVE TreeOK(on, {})'
      BY <1>1, <1>2, <3>1, <3>3 DEF Safe, TreeOK, InUse, Freed
    <3> QED BY <1>1, <1>2, <2>2, <3>1, <3>2, <3>3, OnlyCall DEF ReadGoesOn
  <2>5. CASE ~blocks[f].error
    <3>1. recycle_block(f) /\ call' = Return(TRUE)
      BY <1>6, <2>1, <2>5 DEF waited_written
    <3>2. TreeStays => on[f] # free
      BY <1>2, <2>1, <2>2 DEF Safe, TreeOK, InUse, Freed
    <3> QED BY <1>1, <1>2, <1>3, <2>2, <2>3, <3>1, <3>2, RecycleSafe
  <2> QED BY <2>4, <2>5
<1>7. CASE waited_all
  <2>1. UNCHANGED lists /\ call.pc = "wait_all" /\ list_empty(lists, io_pending)
    BY <1>1, <1>7 DEF waited_all, Waited, Waiting
  <2>2. call.op \in {"flush", "destroy", "invalidate_dev"}
    BY <1>2, <2>1 DEF Safe, PlaceOK
  <2>3. \A f \in Frames : ~blocks[f].pending
    <3> SUFFICES ASSUME NEW f \in Frames, blocks[f].pending PROVE FALSE
      OBVIOUS
    <3>1. on[f] = io_pending /\ f \in Nodes /\ f # io_pending
      BY <1>2, HeadFacts DEF Safe, FramesOK
    <3> QED BY <1>2, <2>1, <3>1, HeadFacts, EmptyChained DEF Safe
  <2>4. CASE call.op = "flush"
    <3>1. UNCHANGED rtree /\ call'.pc = "idle" /\ call'.op = "none"
      BY <1>7, <2>4 DEF waited_all, Return, Idle
    <3>2. PlaceOK(on)'
      BY <3>1 DEF PlaceOK
    <3>3. ASSUME TreeStays PROVE TreeOK(on, {})'
      BY <1>1, <1>2, <2>1, <3>1, <3>3 DEF Safe, TreeOK, InUse, Freed
    <3> QED BY <1>1, <1>2, <2>1, <3>1, <3>2, <3>3, OnlyCall DEF ReadGoesOn
  <2>5. CASE call.op = "destroy"
    <3>1. rtree' = [k \in Keys |-> NoFrame] /\ call' = At("destroyed")
      BY <1>7, <2>5 DEF waited_all
    <3>2. call'.pc = "destroyed" /\ call'.op = "destroy"
      BY <1>3, <2>5, <3>1 DEF At, TypeOK, Calls
    <3>3. PlaceOK(on)' /\ HandOK({})' /\ FramesOK(on, {})' /\ IosOK'
      BY <1>1, <1>2, <2>3, <3>2 DEF Safe, PlaceOK, HandOK, FramesOK, IosOK, InFlight
    <3>4. TreeOK(on, {})'
      BY <3>1, <3>2 DEF TreeOK
    <3>5. ReadsOK(on, {})'
      BY <1>1, <1>2, <2>1 DEF Safe, ReadGoesOn, ReadsOK, Reading
    <3> QED BY <1>2, <2>1, <3>3, <3>4, <3>5 DEF Safe
  <2>6. CASE call.op = "invalidate_dev"
    <3>1. UNCHANGED rtree
          /\ call' = [At("invalidate_v") EXCEPT !.todo = CachedOf(DevOf[call.key])]
      BY <1>7, <2>6 DEF waited_all
    <3>2. /\ call'.pc = "invalidate_v" /\ call'.op = call.op /\ call'.key = call.key
          /\ call'.todo = CachedOf(DevOf[call.key])
      BY <1>3, <3>1 DEF At, TypeOK, Calls
    <3>3. PlaceOK(on)'
      BY <1>1, <2>3, <2>6, <3>2 DEF PlaceOK
    <3>4. ASSUME TreeStays PROVE TreeOK(on, {})'
      <4>1. TreeOK(on, {}) /\ Emptying(on)
        BY <1>2, <2>6, <3>4 DEF Safe, TreeOK
      <4>2. \A k \in Keys : OfDevice(k) => rtree[k] \in Frames /\ k \in call'.todo
        BY <1>3, <3>2 DEF OfDevice, TypeOK, CachedOf, Cached
      <4>3. Emptying(on)'
        BY <1>1, <2>1, <2>3, <3>1, <3>2, <4>1, <4>2 DEF Emptying, OfDevice, CachedOf, Cached
      <4> QED BY <1>1, <2>1, <2>6, <3>1, <3>2, <4>1, <4>3 DEF TreeOK, InUse, Freed
    <3> QED BY <1>1, <1>2, <2>1, <3>1, <3>2, <3>3, <3>4, OnlyCall DEF ReadGoesOn
  <2> QED BY <2>2, <2>4, <2>5, <2>6
<1> QED BY <1>4, <1>5, <1>6, <1>7

-----------------------------------------------------------------------------
(* The invariant holds initially and is kept by every step *)

LEMMA InitSafe ==
  ASSUME Init
  PROVE  SafeInv
<1> DEFINE on == [x \in Nodes |-> IF x \in Heads THEN x ELSE free]
           pos == [x \in Nodes |-> IF x \in Heads THEN 0 ELSE x]
<1>1. TypeInv
  BY InitTypes
<1>2. Chained(lists, Nodes, Heads, {}, on, pos)
  <2>1. Heads \subseteq Nodes /\ lists \in ListMemory(Nodes)
    BY <1>1, HeadFacts, NodeTypes DEF TypeInv, TypeOK, ListMemory
  <2>2. on \in [Nodes -> Heads] /\ pos \in [Nodes -> Nat]
    BY HeadFacts, SizeAssumption
       DEF Nodes, Heads, free, errored, dirty, clean, io_pending
  <2>3. ASSUME NEW x \in Nodes
        PROVE  /\ lists.p[lists.n[x]] = x /\ lists.n[lists.p[x]] = x
               /\ on[lists.n[x]] = on[x]
               /\ lists.n[x] \in Heads \/ pos[x] < pos[lists.n[x]]
    <3>1. \A y \in Nodes :
            /\ lists.n[y] = IF y \in Heads \ {free} THEN y
                            ELSE IF y = NrCacheBlocks THEN free ELSE y + 1
            /\ lists.p[y] = IF y \in Heads \ {free} THEN y
                            ELSE IF y = free THEN NrCacheBlocks ELSE y - 1
      BY DEF Init, InitLists
    <3>2. x \in Int /\ NrCacheBlocks \in Nat /\ NrCacheBlocks >= 1
      BY SizeAssumption DEF Nodes, io_pending
    <3>3. Nodes = -4 .. NrCacheBlocks /\ Heads = {0, -1, -2, -3, -4} /\ free = 0
      BY DEF Nodes, Heads, free, errored, dirty, clean, io_pending
    <3>4. CASE x \in Heads \ {free}
      BY <3>1, <3>3, <3>4
    <3>5. CASE x = free
      BY <3>1, <3>2, <3>3, <3>5
    <3>6. CASE x \notin Heads
      <4>1. x \in 1 .. NrCacheBlocks
        BY <3>2, <3>3, <3>6
      <4>2. CASE x = NrCacheBlocks /\ x # 1
        BY <3>1, <3>2, <3>3, <4>1, <4>2
      <4>3. CASE x = 1 /\ x # NrCacheBlocks
        BY <3>1, <3>2, <3>3, <4>1, <4>3
      <4>4. CASE x = 1 /\ x = NrCacheBlocks
        BY <3>1, <3>2, <3>3, <4>1, <4>4
      <4>5. CASE x # 1 /\ x # NrCacheBlocks
        <5>1. /\ x - 1 \in Nodes \ Heads /\ x - 1 # NrCacheBlocks /\ (x - 1) + 1 = x
              /\ x + 1 \in Nodes \ Heads /\ x + 1 # free /\ (x + 1) - 1 = x
          BY <3>2, <3>3, <4>1, <4>5
        <5>2. /\ lists.n[x] = x + 1 /\ lists.p[x] = x - 1
              /\ lists.p[x + 1] = x /\ lists.n[x - 1] = x
          BY <3>1, <3>3, <3>6, <4>5, <5>1
        <5> QED BY <3>2, <3>6, <5>1, <5>2
      <4> QED BY <4>2, <4>3, <4>4, <4>5
    <3> QED BY <3>4, <3>5, <3>6
  <2>4. \A h \in Heads : on[h] = h /\ pos[h] = 0
    BY <2>1
  <2> QED BY <2>1, <2>2, <2>3, <2>4 DEF Chained
<1>3. call.pc = "idle" /\ call.op = "none"
  BY DEF Init, Idle
<1>4. \A f \in Frames :
        /\ ~blocks[f].pending /\ blocks[f].ref_count = 0 /\ blocks[f].io_count = 0
        /\ on[f] = free /\ ~blocks[f].error
  BY HeadFacts DEF Init, NewBlockOf
<1> HIDE DEF on, pos
<1>5. IosOK
  <2>1. inflight = {} /\ \A f \in Frames : InFlight(f) = {}
    BY DEF Init, InFlight
  <2>2. IsFiniteSet({}) /\ Cardinality({}) = 0
    BY FS_EmptySet
  <2>3. ASSUME NEW f \in Frames
        PROVE  IsFiniteSet(InFlight(f)) /\ blocks[f].io_count = Cardinality(InFlight(f))
    <3>1. InFlight(f) = {}
      BY <2>1
    <3> QED BY <1>4, <2>2, <3>1
  <2>4. \A f \in Frames : ~(blocks[f].io_count > 0)
    BY <1>4
  <2> QED BY <2>1, <2>3, <2>4 DEF IosOK
<1>6. FramesOK(on, {})
  BY <1>4, HeadFacts DEF FramesOK, Filed
<1>7. HandOK({}) /\ PlaceOK(on)
  BY <1>3 DEF HandOK, PlaceOK
<1>8. TreeOK(on, {})
  BY <1>3, <1>4 DEF TreeOK, InUse, Freed, Init
<1>9. OpOK /\ ReadsOK(on, {})
  BY <1>3, <1>4, HeadFacts DEF OpOK, ReadsOK
<1> QED BY <1>1, <1>2, <1>5, <1>6, <1>7, <1>8, <1>9 DEF SafeInv, Safe

\* A step goes on with the call, or ends it.
GoesOn(c) == c.op = call.op /\ c.key = call.key /\ c.mode = call.mode

LEMMA StepGoesOn ==
  ASSUME TypeOK, Step
  PROVE  \/ call'.op = "none" /\ call'.pc = "idle"
         \/ GoesOn(call') /\ call'.pc # "idle"
<1> DEFINE Fine(c) == \/ c.op = "none" /\ c.pc = "idle"
                      \/ GoesOn(c) /\ c.pc # "idle"
           Places == Pcs \ {"idle"}
<1>0. call.pc # "idle"
  BY DEF Step, alloc_block, evict, find_unused_clean_block, new_block, finish_get, writeback,
     flush, invalidate_block, writeback_v, writeback_v_done, invalidate_v, remove_prefix,
     Completion, complete_io, InWait, waited_io, waited_block, waited_written, waited_all, Waited
<1>1. /\ \A r : Fine(Return(r))
      /\ \A p \in Places : Fine(At(p))
      /\ \A p \in Places : \A x : Fine([At(p) EXCEPT !.f = x])
      /\ \A p \in Places : \A x : Fine([At(p) EXCEPT !.node = x])
      /\ \A p \in Places : \A x, y : Fine([At(p) EXCEPT !.node = x, !.left = y])
      /\ \A p \in Places : \A x : Fine([At(p) EXCEPT !.todo = x])
      /\ \A x : Fine([call EXCEPT !.node = x])
      /\ \A x, y : Fine([[call EXCEPT !.node = x] EXCEPT !.left = y])
      /\ \A x : Fine([call EXCEPT !.todo = x])
      /\ \A x, y : Fine([call EXCEPT !.todo = x, !.ret = y])
      /\ \A x : Fine([call EXCEPT !.batch = x])
      /\ Fine(call)
  BY <1>0 DEF Return, Idle, At, TypeOK, Calls, GoesOn
<1>14. {"alloc", "evict", "scan", "new_block", "finish_get", "writeback", "wait_io", "wait_block",
       "wait_all", "flush", "invalidate", "wait_written", "writeback_v", "invalidate_v",
       "destroyed", "abort", "undefined"} \subseteq Places
  BY DEF Pcs
<1> HIDE DEF Fine, Places
<1> SUFFICES Fine(call')
  BY DEF Fine
<1>2. ASSUME NEW l, NEW f, NEW b, NEW d, NEW next, issue(l, f, b, d, next), Fine(next)
      PROVE  Fine(call')
  BY <1>1, <1>2, <1>14 DEF issue
<1>3. ASSUME NEW l, NEW f, NEW next, issue_write(l, f, next), Fine(next)
      PROVE  Fine(call')
  BY <1>2, <1>3 DEF issue_write
<1>15. /\ \A x : /\ Fine([At("new_block") EXCEPT !.f = x])
                 /\ Fine([At("scan") EXCEPT !.node = x])
       /\ \A x, y : Fine([At("writeback") EXCEPT !.node = x, !.left = y])
  <2>1. {"new_block", "scan", "writeback"} \subseteq Places
    BY <1>14
  <2> QED BY <1>1, <2>1, Zenon
<1>4. CASE alloc_block \/ evict
  <2>1. CASE alloc_block
    <3>1. \/ call' = At("evict") \/ call' = At("undefined")
          \/ \E x : call' = [At("new_block") EXCEPT !.f = x]
      BY <2>1 DEF alloc_block
    <3> QED BY <1>1, <1>14, <1>15, <3>1
  <2>2. CASE evict
    <3>1. \/ call' = Return(FALSE) \/ \E x : call' = [At("scan") EXCEPT !.node = x]
      BY <2>2 DEF evict
    <3> QED BY <1>1, <1>14, <1>15, <3>1
  <2> QED BY <1>4, <2>1, <2>2
<1>5. CASE find_unused_clean_block
  <2>1. \/ \E x : call' = [At("new_block") EXCEPT !.f = x]
        \/ \E x : call' = [call EXCEPT !.node = x]
        \/ call' = At("undefined") \/ call' = Return(FALSE) \/ call' = At("wait_io")
        \/ \E x, y : call' = [At("writeback") EXCEPT !.node = x, !.left = y]
    BY <1>5 DEF find_unused_clean_block
  <2>2. Fine(At("undefined")) /\ Fine(At("wait_io")) /\ Fine(Return(FALSE))
    BY <1>1, <1>14
  <2>3. \A x : Fine([call EXCEPT !.node = x])
    BY <1>1, Zenon
  <2>4. CASE \E x : call' = [At("new_block") EXCEPT !.f = x]
    BY <1>15, <2>4, Zenon
  <2>5. CASE \E x, y : call' = [At("writeback") EXCEPT !.node = x, !.left = y]
    <3>1. PICK x, y : call' = [At("writeback") EXCEPT !.node = x, !.left = y]
      BY <2>5, Zenon
    <3>2. Fine([At("writeback") EXCEPT !.node = x, !.left = y])
      BY <1>15, Zenon
    <3> QED BY <3>1, <3>2, Zenon
  <2>6. CASE \E x : call' = [call EXCEPT !.node = x]
    BY <2>3, <2>6, Zenon
  <2> QED BY <2>1, <2>2, <2>4, <2>5, <2>6, Zenon
<1>6. CASE new_block
  <2>1. PICK next : next \in {Return(TRUE), At("wait_block")}
                    /\ (\/ \E l, b : issue(l, call.f, b, "read", next)
                        \/ call' = At("finish_get"))
    BY <1>6 DEF new_block
  <2> QED BY <1>1, <1>14, <1>2, <2>1
<1>7. CASE finish_get
  <2>1. call' \in {Return(FALSE), Return(TRUE)}
    BY <1>7 DEF finish_get
  <2> QED BY <1>1, <2>1
<1>8. CASE writeback
  <2>1. \A x : Fine([[call EXCEPT !.node = x] EXCEPT !.left = @ - 1])
    BY <1>1 DEF TypeOK, Calls
  <2> QED BY <1>1, <1>14, <1>3, <1>8, <2>1 DEF writeback
<1>9. CASE flush \/ invalidate_block
  BY <1>1, <1>14, <1>3, <1>9 DEF flush, invalidate_block
<1>10. CASE writeback_v \/ invalidate_v
  <2>1. /\ \A k : Fine([call EXCEPT !.todo = @ \ {k}])
        /\ \A k, r : Fine([call EXCEPT !.todo = @ \ {k}, !.ret = r])
    BY <1>1 DEF TypeOK, Calls
  <2>2. CASE writeback_v
    BY <1>3, <2>1, <2>2 DEF writeback_v
  <2>3. CASE invalidate_v
    <3>1. \E k, r : call' = [call EXCEPT !.todo = @ \ {k}, !.ret = call.ret /\ r]
      BY <2>3 DEF invalidate_v
    <3>2. PICK k, r : call' = [call EXCEPT !.todo = @ \ {k}, !.ret = call.ret /\ r]
      BY <3>1
    <3>3. \A s : Fine([call EXCEPT !.todo = @ \ {k}, !.ret = s])
      BY <2>1, Zenon
    <3> QED BY <3>2, <3>3, Zenon
  <2> QED BY <1>10, <2>2, <2>3
<1>11. CASE writeback_v_done \/ remove_prefix
  <2>1. call' = At("wait_all") \/ \E r : call' = Return(r)
    BY <1>11 DEF writeback_v_done, remove_prefix
  <2> QED BY <1>1, <1>14, <2>1
<1>12. CASE Completion
  <2>1. call' = At("abort") \/ call' = [call EXCEPT !.batch = TRUE]
    BY <1>12, Zenon DEF Completion, complete_io
  <2>2. Fine([call EXCEPT !.batch = TRUE])
    BY <1>1, Zenon
  <2>3. Fine(At("abort"))
    BY <1>1, <1>14, Zenon
  <2> QED BY <2>1, <2>2, <2>3, Zenon
<1>13. CASE waited_io \/ waited_block \/ waited_written \/ waited_all
  BY <1>1, <1>14, <1>13 DEF waited_io, waited_block, waited_written, waited_all
<1> QED BY <1>4, <1>5, <1>6, <1>7, <1>8, <1>9, <1>10, <1>11, <1>12, <1>13 DEF Step

\* A call is one of those the clients make.
LEMMA NextOp ==
  ASSUME TypeOK, OpOK, [Next]_vars
  PROVE  OpOK'
<1>1. \A r : Return(r).op = "none"
  BY DEF Return, Idle
<1>2. CASE Client
  <2>1. ASSUME NEW k \in Keys, NEW readonly \in BOOLEAN, NEW m \in GetModes,
               io_get_block_mask(k, readonly, m)
        PROVE  OpOK'
    <3>1. call'.op \in {"get", "none"}
      <4>1. CASE GetRefused(k, readonly, m)
        BY <1>1, <2>1, <4>1 DEF io_get_block_mask
      <4>2. CASE ~GetRefused(k, readonly, m)
        BY <2>1, <4>2 DEF io_get_block_mask, Start, Idle
      <4> QED BY <4>1, <4>2
    <3>2. "get" \in Ops
      BY <2>1 DEF io_get_block_mask, MayStart
    <3> QED BY <3>1, <3>2 DEF OpOK
  <2>2. ASSUME NEW f \in Frames, io_put_block(f) PROVE OpOK'
    BY <2>2 DEF io_put_block, MayStart, Start, Return, Idle, OpOK
  <2>3. CASE \/ \E k \in Keys : \/ io_prefetch_block(k) \/ io_invalidate_block(k)
                               \/ io_invalidate_dev(k)
             \/ io_flush \/ io_invalidate_all \/ io_manager_destroy
    <3>1. ASSUME NEW op, NEW first PROVE Start(op, first).op = op
      BY DEF Start, Idle
    <3>2. CASE io_flush \/ io_manager_destroy
      BY <3>1, <3>2 DEF io_flush, io_manager_destroy, MayStart, OpOK
    <3>3. CASE io_invalidate_all
      BY <3>3 DEF io_invalidate_all, MayStart, Start, Idle, OpOK
    <3>4. ASSUME NEW k \in Keys, io_prefetch_block(k) PROVE OpOK'
      BY <3>4 DEF io_prefetch_block, MayStart, Start, Idle, OpOK
    <3>5. ASSUME NEW k \in Keys, io_invalidate_block(k) PROVE OpOK'
      BY <3>5 DEF io_invalidate_block, MayStart, Start, Idle, OpOK
    <3>6. ASSUME NEW k \in Keys, io_invalidate_dev(k) PROVE OpOK'
      BY <3>6 DEF io_invalidate_dev, MayStart, Start, Idle, OpOK
    <3> QED BY <2>3, <3>2, <3>3, <3>4, <3>5, <3>6
  <2> QED BY <1>2, <2>1, <2>2, <2>3 DEF Client
<1>3. CASE Step
  BY <1>3, StepGoesOn DEF OpOK, GoesOn
<1>4. CASE UNCHANGED vars
  BY <1>4 DEF vars, OpOK
<1> QED BY <1>2, <1>3, <1>4 DEF Next, Destroyed

LEMMA NextSafe ==
  ASSUME SafeInv, QuietClients, [Next]_vars
  PROVE  SafeInv'
<1>1. TypeInv'
  BY NextTypes DEF SafeInv
<1>0. OpOK'
  BY NextOp DEF SafeInv, TypeInv
<1> SUFFICES \E on, pos, out : Safe(on, pos, out)'
  BY <1>0, <1>1 DEF SafeInv
<1>2. ASSUME NEW k \in Keys, NEW readonly \in BOOLEAN, NEW m \in GetModes,
             io_get_block_mask(k, readonly, m)
      PROVE  \E on, pos, out : Safe(on, pos, out)'
  BY <1>2, GetSafe
<1>3. CASE Client
  BY <1>2, <1>3, StartSafe, FlushStartSafe DEF Client
<1>4. CASE Step
  BY <1>4, AllocSafe, ScanSafe, NewBlockSafe, FinishGetSafe, WritebackSafe, FlushSafe,
     InvalidateBlockSafe, WritebackVSafe, InvalidateDevSafe, CompletionSafe, WaitedSafe
     DEF Step
<1>5. CASE UNCHANGED vars
  <2>1. PICK on, pos, out : Safe(on, pos, out)
    BY DEF SafeInv
  <2>2. UNCHANGED <<lists, blocks, rtree, inflight, call>>
    BY <1>5 DEF vars
  <2>3. HandOK(out)' /\ FramesOK(on, out)' /\ IosOK' /\ PlaceOK(on)'
    BY <2>1, <2>2 DEF Safe, HandOK, FramesOK, IosOK, InFlight, PlaceOK
  <2>4. ASSUME TreeStays PROVE TreeOK(on, out)'
    BY <2>1, <2>2, <2>4 DEF Safe, TreeOK, InUse, Freed, Emptying, OfDevice
  <2>5. ReadsOK(on, out)'
    BY <2>1, <2>2 DEF Safe, ReadsOK, Reading
  <2> QED BY <2>1, <2>2, <2>3, <2>4, <2>5 DEF Safe
<1> QED BY <1>3, <1>4, <1>5 DEF Next, Destroyed

LEMMA SafeInductive ==
  ASSUME QuietClients
  PROVE  Spec => []SafeInv
<1>1. Init => SafeInv
  BY InitSafe
<1>2. SafeInv /\ [Next]_vars => SafeInv'
  BY NextSafe
<1> QED BY <1>1, <1>2, PTL DEF Spec

\* A frame with an io in flight is pending, and so nobody holds it.
LEMMA FlightFacts ==
  ASSUME SafeInv, NEW io \in inflight
  PROVE  /\ io.frame \in Frames /\ blocks[io.frame].pending
         /\ ~(blocks[io.frame].ref_count > 0)
<1>1. TypeOK /\ io.frame \in Frames
  BY DEF SafeInv, TypeInv, TypeOK, Ios
<1>2. PICK on, pos, out : Safe(on, pos, out)
  BY DEF SafeInv
<1>3. PICK f : f = io.frame
  OBVIOUS
<1>4. Cardinality(InFlight(f)) \in Nat /\ Cardinality(InFlight(f)) # 0
  <2>1. IsFiniteSet(InFlight(f)) /\ io \in InFlight(f)
    BY <1>1, <1>2, <1>3 DEF Safe, IosOK, InFlight
  <2> QED BY <2>1, FS_CardinalityType, FS_EmptySet
<1>5. blocks[f].pending
  BY <1>1, <1>2, <1>3, <1>4 DEF Safe, IosOK
<1>6. ~(blocks[f].ref_count > 0)
  BY <1>1, <1>2, <1>3, <1>5, HeadFacts DEF Safe, FramesOK
<1> QED BY <1>1, <1>3, <1>5, <1>6

-----------------------------------------------------------------------------
(* The theorems *)

\* A client never holds a block that the engine is reading or writing, as long
\* as no dirty block is held when the cache is flushed or invalidated and the
\* engine refuses no run before one that it accepts.
THEOREM HeldNeverInFlight ==
  ASSUME QuietClients
  PROVE  Spec => []HeldNotInFlight
<1>1. SafeInv => HeldNotInFlight
  BY FlightFacts DEF HeldNotInFlight, Held
<1> QED BY <1>1, SafeInductive, PTL

\* No assert of _issue and _complete_io fails, and no walk of a list takes the
\* head of another list for a block.
THEOREM NeverAborts ==
  ASSUME QuietClients
  PROVE  Spec => []NoAbort
<1>1. SafeInv => NoAbort
  BY DEF SafeInv, Safe, PlaceOK, NoAbort
<1> QED BY <1>1, SafeInductive, PTL

LEMMA SafeWrites ==
  ASSUME SafeInv, TreeStays
  PROVE  NoConcurrentWrites
<1> SUFFICES ASSUME NEW i \in inflight, NEW j \in inflight,
                    i.key = j.key, i # j
             PROVE  i.frame = j.frame /\ i.dir = j.dir /\ i.secs \cap j.secs = {}
  BY DEF NoConcurrentWrites
<1>1. PICK on, pos, out : Safe(on, pos, out)
  BY DEF SafeInv
<1>2. /\ i.frame \in Frames /\ blocks[i.frame].pending
      /\ j.frame \in Frames /\ blocks[j.frame].pending
  BY FlightFacts
<1>3. InUse(i.frame, on, out) /\ InUse(j.frame, on, out)
  BY <1>1, <1>2, HeadFacts DEF Safe, FramesOK, InUse
<1>4. call.pc # "destroyed"
  BY <1>1, <1>2 DEF Safe, PlaceOK
<1>5. rtree[blocks[i.frame].key] = i.frame /\ rtree[blocks[j.frame].key] = j.frame
  BY <1>1, <1>2, <1>3, <1>4 DEF Safe, TreeOK
<1>6. i.key = blocks[i.frame].key /\ j.key = blocks[j.frame].key
  BY <1>1 DEF Safe, IosOK
<1>7. i.frame = j.frame
  BY <1>5, <1>6
<1> QED BY <1>1, <1>7 DEF Safe, IosOK

\* The ios in flight for a block are those of one _issue on the one frame that
\* has the block, and share no sector, as long as no device is invalidated
\* while writes may fail.
THEOREM WritesNeverOverlap ==
  ASSUME QuietClients, TreeStays
  PROVE  Spec => []NoConcurrentWrites
<1>1. SafeInv => NoConcurrentWrites
  BY SafeWrites
<1> QED BY <1>1, SafeInductive, PTL
=============================================================================
