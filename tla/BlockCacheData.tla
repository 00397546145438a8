--------------------------- MODULE BlockCacheData ---------------------------
(***************************************************************************)
(* The data of the block cache, for any number of frames, blocks and       *)
(* sectors: no write is lost, a holder sees the last data of its block,    *)
(* and io_flush and io_invalidate_block tell the truth.  And its books:    *)
(* each frame is on the list its block belongs on, a block has one frame,  *)
(* the counters count what they are said to count, and                     *)
(* io_manager_destroy loses no data that could be written.                 *)
(***************************************************************************)

EXTENDS BlockCacheSafety

Zeroes == \E m \in GetModes : m.type = "zero"

\* The clients and the engine the theorems are about: GF_ZERO gets zero whole
\* blocks, and only where no writeback can have failed, since a get that is
\* refused for it has zeroed the block already (README, section 5).
DataClients ==
  /\ QuietClients /\ TreeStays
  /\ \A m \in GetModes : m.type = "zero" => m.mask = Sectors
  /\ Zeroes => {"write", "full"} \cap Faults = {}

-----------------------------------------------------------------------------
(* The inductive invariant: what is known of the data of a cached block, by *)
(* the state of its frame.                                                  *)

\* Between _alloc_block and the end of a GF_ZERO get the frame has no data.
Filling(f) == call.pc = "finish_get" /\ f = call.f /\ call.mode.type = "zero"

\* The ios in flight for a frame write all that is unsaved of the block.
Covered(k, f) == \A s \in unsaved[k] : \E io \in InFlight(f) : s \in io.secs

\* Frame f holds block k.
DataOf(k, f) ==
  /\ unsaved[k] \subseteq blocks[f].dirty_bits
  /\ blocks[f].dirty_bits # {} => good[f] = Sectors
  /\ ~blocks[f].pending /\ ~blocks[f].error => good[f] = Sectors \/ Filling(f)
  /\ blocks[f].io_dir = "read" /\ (blocks[f].pending \/ blocks[f].error) =>
       blocks[f].dirty_bits = {}
  /\ /\ blocks[f].io_dir = "write"
     /\ blocks[f].io_count > 0 \/ (blocks[f].error /\ ~blocks[f].pending)
     => good[f] = Sectors
  /\ blocks[f].io_dir = "write" /\ blocks[f].pending /\ ~blocks[f].error => Covered(k, f)
  /\ Zeroes /\ blocks[f].error => blocks[f].io_dir = "read"

TreeData ==
  call.pc # "destroyed" =>
    \A k \in Keys : IF rtree[k] = NoFrame THEN unsaved[k] = {} ELSE DataOf(k, rtree[k])

FrameData(f) ==
  /\ wmask[f] \subseteq blocks[f].dirty_bits
  /\ blocks[f].ref_count = 0 => wmask[f] = {}
  /\ blocks[f].ref_count > 0 => good[f] = Sectors

ModeOK == call.mode \in GetModes \cup {ReadMode}

WrittenOK ==
  call.pc = "wait_written" /\ ~blocks[call.f].pending /\ ~blocks[call.f].error =>
    blocks[call.f].dirty_bits = {}

DataOK == TreeData /\ (\A f \in Frames : FrameData(f)) /\ ModeOK /\ WrittenOK

DataInv == SafeInv /\ DataOK

-----------------------------------------------------------------------------
(* Lemmas about runs and the tree *)

\* Every sector of a mask is in one of its runs.
LEMMA RunsCover ==
  ASSUME NEW bits \in SUBSET Sectors
  PROVE  UNION Runs(bits) = bits
<1>1. UNION Runs(bits) \subseteq bits
  BY DEF Runs
<1> SUFFICES ASSUME NEW s \in bits PROVE \E r \in Runs(bits) : s \in r
  BY <1>1
<1>2. s \in Nat /\ s < BlockSectors /\ BlockSectors \in Nat
      /\ \A t \in bits : t \in Nat /\ t < BlockSectors
  BY SizeAssumption DEF Sectors
<1> DEFINE Los == {x \in 0 .. s : x .. s \subseteq bits}
           His == {x \in 0 .. BlockSectors : \E y \in bits : y >= s /\ x = BlockSectors - y /\ s .. y \subseteq bits}
<1>3. PICK lo \in Los : \A x \in Los : lo <= x
  <2>1. s \in Los
    BY <1>2
  <2>2. Los \in SUBSET Nat
    BY <1>2
  <2> HIDE DEF Los
  <2> QED BY <2>1, <2>2, LeastNatural
<1>4. PICK h \in His : \A x \in His : h <= x
  <2>1. BlockSectors - s \in His
    BY <1>2
  <2>2. His \in SUBSET Nat
    BY <1>2
  <2> HIDE DEF His
  <2> QED BY <2>1, <2>2, LeastNatural
<1>5. PICK hi \in bits : hi >= s /\ h = BlockSectors - hi /\ s .. hi \subseteq bits
  BY <1>4
<1>6. lo \in Nat /\ hi \in Nat /\ h \in Nat /\ lo <= s /\ lo .. s \subseteq bits /\ lo \in bits
  BY <1>2, <1>3, <1>5
<1>7. s \in lo .. hi /\ lo .. hi \subseteq bits
  BY <1>2, <1>5, <1>6
<1>8. ASSUME NEW t \in bits \ (lo .. hi), t - 1 \in lo .. hi PROVE FALSE
  <2>1. t = hi + 1
    BY <1>2, <1>6, <1>8
  <2>2. s .. t \subseteq bits
    BY <1>2, <1>5, <1>6, <2>1
  <2>3. BlockSectors - t \in His
    BY <1>2, <1>5, <1>6, <2>1, <2>2
  <2> QED BY <1>2, <1>4, <1>5, <1>6, <2>1, <2>3
<1>9. ASSUME NEW t \in bits \ (lo .. hi), t + 1 \in lo .. hi PROVE FALSE
  <2>1. t = lo - 1
    BY <1>2, <1>6, <1>9
  <2>2. t .. s \subseteq bits /\ t \in 0 .. s
    BY <1>2, <1>5, <1>6, <2>1
  <2> QED BY <1>2, <1>3, <1>6, <2>1, <2>2
<1>10. lo .. hi \in Runs(bits)
  BY <1>5, <1>6, <1>7, <1>8, <1>9 DEF Runs
<1> QED BY <1>7, <1>10

\* The tree maps a block to a frame that holds it.
LEMMA CachedFacts ==
  ASSUME SafeInv, TreeStays
  PROVE  /\ \A k \in Keys : rtree[k] # NoFrame =>
              rtree[k] \in Frames /\ blocks[rtree[k]].key = k
         /\ \A j, k \in Keys : rtree[j] # NoFrame /\ rtree[j] = rtree[k] => j = k
         /\ NoFrame \notin Frames
<1>1. PICK on, pos, out : Safe(on, pos, out)
  BY DEF SafeInv
<1>2. TreeOK(on, out)
  BY <1>1 DEF Safe
<1>3. \A k \in Keys : rtree[k] # NoFrame =>
        rtree[k] \in Frames /\ blocks[rtree[k]].key = k
  BY <1>2 DEF TreeOK, SafeInv, TypeInv, TypeOK
<1> QED BY <1>3, HeadFacts

\* A frame that is pending or held is in the tree.
LEMMA UsedFacts ==
  ASSUME SafeInv, TreeStays, call.pc # "destroyed",
         NEW f \in Frames, blocks[f].pending \/ blocks[f].ref_count > 0
  PROVE  blocks[f].key \in Keys /\ rtree[blocks[f].key] = f
<1>1. PICK on, pos, out : Safe(on, pos, out)
  BY DEF SafeInv
<1>2. f \notin out /\ on[f] # free
  BY <1>1, HeadFacts DEF Safe, FramesOK
<1> QED BY <1>1, <1>2 DEF Safe, TreeOK, InUse, Freed

\* A step that touches at most the frame f.
LEMMA OneFrame ==
  ASSUME SafeInv, DataOK, TreeStays, call.pc # "destroyed", NEW f,
         \A g \in Frames \ {f} :
           /\ blocks'[g] = blocks[g] /\ good'[g] = good[g] /\ wmask'[g] = wmask[g]
           /\ InFlight(g)' = InFlight(g),
         call.pc = "finish_get" => call.f = f,
         f \in Frames => FrameData(f)',
         \A k \in Keys :
           \/ rtree'[k] = NoFrame /\ unsaved'[k] = {}
           \/ f \in Frames /\ rtree'[k] = f /\ DataOf(k, f)'
           \/ /\ rtree'[k] = rtree[k] /\ unsaved'[k] = unsaved[k]
              /\ rtree[k] = NoFrame \/ rtree[k] # f,
         ModeOK', WrittenOK'
  PROVE  DataOK'
<1>1. \A g \in Frames : FrameData(g)'
  BY DEF DataOK, FrameData
<1>2. ASSUME NEW k \in Keys
      PROVE  IF rtree'[k] = NoFrame THEN unsaved'[k] = {} ELSE DataOf(k, rtree[k])'
  <2>1. PICK g : g = rtree[k]
    OBVIOUS
  <2>2. CASE /\ rtree'[k] = g /\ unsaved'[k] = unsaved[k]
             /\ g # NoFrame /\ g # f
    <3>1. g \in Frames \ {f} /\ DataOf(k, g)
      BY <2>1, <2>2, CachedFacts DEF DataOK, TreeData
    <3>2. ~Filling(g)
      BY <2>2 DEF Filling
    <3>3. Covered(k, g) => Covered(k, g)'
      BY <2>2, <3>1 DEF Covered
    <3>4. DataOf(k, g)'
      BY <2>2, <3>1, <3>2, <3>3 DEF DataOf
    <3> QED BY <2>2, <3>4
  <2>3. CASE rtree'[k] = g /\ unsaved'[k] = unsaved[k] /\ g = NoFrame
    BY <2>1, <2>3 DEF DataOK, TreeData
  <2>4. CASE f \in Frames /\ rtree'[k] = f /\ DataOf(k, f)'
    BY <2>4, CachedFacts
  <2> QED BY <2>1, <2>2, <2>3, <2>4
<1> QED BY <1>1, <1>2 DEF DataOK, TreeData

\* A step that touches no block and no data.
LEMMA OnlyLists ==
  ASSUME SafeInv, DataOK, TreeStays,
         UNCHANGED <<blocks, inflight, ghosts>>, \A k \in Keys : rtree'[k] = rtree[k],
         call.pc \notin {"finish_get", "destroyed"}, call'.pc # "wait_written", ModeOK'
  PROVE  DataOK'
<1>1. \A g \in Frames : /\ blocks'[g] = blocks[g] /\ good'[g] = good[g]
                        /\ wmask'[g] = wmask[g] /\ InFlight(g)' = InFlight(g)
  BY DEF ghosts, InFlight
<1>2. \A k \in Keys : rtree'[k] = rtree[k] /\ unsaved'[k] = unsaved[k]
  BY DEF ghosts
<1>3. WrittenOK' /\ NoFrame \notin Frames
  BY HeadFacts DEF WrittenOK
<1> QED BY <1>1, <1>2, <1>3, OneFrame

-----------------------------------------------------------------------------
(* Calls that start, and steps that only look for a block or end a call *)

\* What the edits of a call leave.
LEMMA CallFields ==
  ASSUME TypeOK
  PROVE  /\ \A r : Return(r).pc = "idle" /\ Return(r).mode = ReadMode
         /\ \A p : At(p).pc = p /\ At(p).mode = call.mode
         /\ \A p, x : /\ [At(p) EXCEPT !.f = x].pc = p
                      /\ [At(p) EXCEPT !.f = x].mode = call.mode
         /\ \A x : /\ [call EXCEPT !.node = x].pc = call.pc
                   /\ [call EXCEPT !.node = x].mode = call.mode
<1>1. \A r : Return(r).pc = "idle" /\ Return(r).mode = ReadMode
  BY DEF Return, Idle
<1>2. \A p : At(p).pc = p /\ At(p).mode = call.mode
  BY DEF At, TypeOK, Calls
<1>3. \A p, x : /\ [At(p) EXCEPT !.f = x].pc = p
               /\ [At(p) EXCEPT !.f = x].mode = call.mode
  BY DEF At, TypeOK, Calls
<1>4. \A x : /\ [call EXCEPT !.node = x].pc = call.pc
            /\ [call EXCEPT !.node = x].mode = call.mode
  BY DEF TypeOK, Calls
<1> QED BY <1>1, <1>2, <1>3, <1>4

LEMMA StartData ==
  ASSUME SafeInv, DataOK, DataClients,
         \/ \E k \in Keys :
              \/ \E readonly \in BOOLEAN, m \in GetModes : io_get_block_mask(k, readonly, m)
              \/ io_prefetch_block(k) \/ io_invalidate_block(k) \/ io_invalidate_dev(k)
         \/ io_flush \/ io_invalidate_all \/ io_manager_destroy
  PROVE  DataOK'
<1>1. call.pc = "idle" /\ UNCHANGED <<blocks, rtree, inflight, ghosts>>
  BY DEF io_get_block_mask, io_prefetch_block, io_invalidate_block, io_invalidate_dev,
         io_flush, io_invalidate_all, io_manager_destroy, MayStart
<1>2. call'.pc # "wait_written" /\ ModeOK'
  <2>1. ASSUME NEW k \in Keys, NEW readonly \in BOOLEAN, NEW m \in GetModes,
               io_get_block_mask(k, readonly, m)
        PROVE  call'.pc # "wait_written" /\ ModeOK'
    <3> DEFINE got == [Start("get", "alloc") EXCEPT !.key = k, !.mode = m]
    <3>1. /\ got.pc = "alloc" /\ got.mode = m
          /\ \A x, y : /\ [got EXCEPT !.pc = x, !.f = y].pc = x
                       /\ [got EXCEPT !.pc = x, !.f = y].mode = m
      BY DEF Start, Idle
    <3>2. \/ call' = Return(FALSE)
          \/ call' = got
          \/ \E x : call' = [got EXCEPT !.pc = "wait_block", !.f = x]
          \/ \E x : call' = [got EXCEPT !.pc = "finish_get", !.f = x]
      BY <2>1 DEF io_get_block_mask
    <3> HIDE DEF got
    <3>3. CASE call' = Return(FALSE)
      BY <3>3 DEF Return, Idle, ModeOK
    <3>4. CASE call' = got
      BY <3>1, <3>4 DEF ModeOK
    <3>5. CASE \E x : call' = [got EXCEPT !.pc = "wait_block", !.f = x]
      BY <3>1, <3>5 DEF ModeOK
    <3>6. CASE \E x : call' = [got EXCEPT !.pc = "finish_get", !.f = x]
      BY <3>1, <3>6 DEF ModeOK
    <3> QED BY <3>2, <3>3, <3>4, <3>5, <3>6
  <2>2. ASSUME NEW k \in Keys,
               io_prefetch_block(k) \/ io_invalidate_block(k) \/ io_invalidate_dev(k)
        PROVE  call'.pc # "wait_written" /\ ModeOK'
    BY <2>2 DEF io_prefetch_block, io_invalidate_block, io_invalidate_dev, Start, Idle, ModeOK
  <2>3. CASE io_flush \/ io_invalidate_all \/ io_manager_destroy
    BY <2>3 DEF io_flush, io_invalidate_all, io_manager_destroy, Start, Idle, ModeOK
  <2> QED BY <2>1, <2>2, <2>3
<1> QED BY <1>1, <1>2, OnlyLists DEF DataClients

LEMMA QuietData ==
  ASSUME SafeInv, DataOK, DataClients,
         \/ alloc_block \/ evict \/ writeback_v_done
         \/ waited_io \/ waited_block
         \/ waited_all /\ call.op # "destroy"
  PROVE  DataOK'
<1>1. TypeOK
  BY DEF SafeInv, TypeInv
<1>2. PICK on, pos, out : Safe(on, pos, out)
  BY DEF SafeInv
<1>3. UNCHANGED <<blocks, inflight, ghosts>>
  BY DEF alloc_block, evict, writeback_v_done, waited_io, waited_block, waited_all
<1>4. \A k \in Keys : rtree'[k] = rtree[k]
  <2>1. CASE writeback_v_done
    <3>1. \/ UNCHANGED rtree
          \/ call.op = "invalidate_all" /\ rtree' = [k \in Keys |-> NoFrame]
      BY <1>2, <2>1 DEF writeback_v_done, Safe, PlaceOK
    <3> QED BY <1>2, <3>1 DEF Safe, TreeOK, DataClients
  <2> QED BY <2>1 DEF alloc_block, evict, waited_io, waited_block, waited_all
<1>5. call.pc \in {"alloc", "evict", "writeback_v", "wait_io", "wait_block", "wait_all"}
  BY DEF alloc_block, evict, writeback_v_done, waited_io, waited_block, waited_all, Waited
<1>6. call'.pc # "wait_written" /\ call'.mode \in {call.mode, ReadMode}
  <2>1. CASE alloc_block
    BY <1>1, <2>1 DEF alloc_block, At, TypeOK, Calls
  <2>2. CASE evict
    BY <1>1, <2>2 DEF evict, At, Return, Idle, TypeOK, Calls
  <2>3. CASE writeback_v_done
    <3>1. call' = At("wait_all") \/ \E success \in BOOLEAN : call' = Return(success)
      BY <2>3 DEF writeback_v_done
    <3> QED BY <1>1, <3>1, CallFields
  <2>4. CASE waited_io
    BY <1>1, <2>4 DEF waited_io, At, TypeOK, Calls
  <2>5. CASE waited_block
    BY <1>1, <2>5 DEF waited_block, At, TypeOK, Calls
  <2>6. CASE waited_all
    BY <1>1, <2>6 DEF waited_all, At, Return, Idle, TypeOK, Calls
  <2> QED BY <2>1, <2>2, <2>3, <2>4, <2>5, <2>6
<1>7. ModeOK'
  BY <1>6 DEF DataOK, ModeOK
<1> QED BY <1>3, <1>4, <1>5, <1>6, <1>7, OnlyLists DEF DataClients

\* io_manager_destroy ends.
LEMMA DestroyData ==
  ASSUME SafeInv, DataOK, waited_all, call.op = "destroy"
  PROVE  DataOK'
<1>1. call'.pc = "destroyed" /\ call'.mode = call.mode
  BY DEF waited_all, At, SafeInv, TypeInv, TypeOK, Calls
<1>2. UNCHANGED <<blocks, ghosts>>
  BY DEF waited_all
<1> QED BY <1>1, <1>2 DEF DataOK, TreeData, FrameData, ModeOK, WrittenOK, ghosts

-----------------------------------------------------------------------------
(* io_put_block *)

LEMMA PutData ==
  ASSUME SafeInv, DataOK, DataClients, NEW f \in Frames, io_put_block(f)
  PROVE  DataOK'
<1>1. call.pc = "idle" /\ UNCHANGED <<rtree, inflight, good>>
  BY DEF io_put_block, MayStart
<1>2. TypeOK /\ blocks[f].ref_count \in Nat /\ blocks[f].ref_count > 0
  BY DEF SafeInv, TypeInv, TypeOK, Blocks, io_put_block, Held
<1>3. PICK k : k = blocks[f].key
  OBVIOUS
<1>4. k \in Keys /\ rtree[k] = f /\ \A j \in Keys : rtree[j] = f => j = k
  BY <1>1, <1>2, <1>3, UsedFacts, CachedFacts DEF DataClients
<1>5. ~blocks[f].pending /\ ~blocks[f].error
  <2>1. PICK on, pos, out : Safe(on, pos, out)
    BY DEF SafeInv
  <2> QED BY <1>2, <2>1, HeadFacts DEF Safe, FramesOK
<1>6. /\ \A g \in Frames \ {f} : blocks'[g] = blocks[g] /\ wmask'[g] = wmask[g]
      /\ blocks'[f] = [blocks[f] EXCEPT !.ref_count = @ - 1]
  BY <1>2 DEF io_put_block, TypeOK
<1>7. /\ blocks'[f].ref_count = blocks[f].ref_count - 1
      /\ blocks'[f].dirty_bits = blocks[f].dirty_bits
      /\ blocks'[f].pending = blocks[f].pending /\ blocks'[f].error = blocks[f].error
  BY <1>2, <1>6 DEF TypeOK, Blocks
<1>8. /\ wmask'[f] = IF blocks[f].ref_count = 1 THEN {} ELSE wmask[f]
      /\ \A j \in Keys \ {k} : unsaved'[j] = unsaved[j]
      /\ unsaved'[k] \subseteq unsaved[k] \cup wmask[f]
  BY <1>2, <1>3, <1>4 DEF io_put_block, TypeOK
<1>9. DataOf(k, f) /\ FrameData(f)
  BY <1>1, <1>4, CachedFacts DEF DataOK, TreeData, DataClients
<1>10. FrameData(f)'
  BY <1>1, <1>2, <1>7, <1>8, <1>9 DEF FrameData
<1>11. DataOf(k, f)'
  <2>1. good'[f] = Sectors
    BY <1>1, <1>2, <1>9 DEF FrameData
  <2>2. ~blocks'[f].pending /\ ~blocks'[f].error
    BY <1>5, <1>7
  <2>3. unsaved'[k] \subseteq blocks'[f].dirty_bits
    BY <1>7, <1>8, <1>9 DEF FrameData, DataOf
  <2> QED BY <2>1, <2>2, <2>3 DEF DataOf
<1>12. call'.mode = ReadMode /\ call'.pc # "wait_written"
  BY DEF io_put_block, Start, Return, Idle
<1>13. ModeOK' /\ WrittenOK'
  BY <1>12 DEF ModeOK, WrittenOK
<1>14. \A g \in Frames : InFlight(g)' = InFlight(g)
  BY <1>1 DEF InFlight
<1> QED BY <1>1, <1>4, <1>6, <1>8, <1>10, <1>11, <1>13, <1>14, OneFrame DEF DataClients

-----------------------------------------------------------------------------
(* _new_block *)

\* The block that is evicted is clean.
LEMMA ScanData ==
  ASSUME SafeInv, DataOK, DataClients, find_unused_clean_block
  PROVE  DataOK'
<1>0. PICK f, k : f = call.node /\ k = blocks[f].key
  OBVIOUS
<1>1. call.pc = "scan" /\ UNCHANGED <<blocks, inflight, ghosts>>
  BY DEF find_unused_clean_block
<1>2. TypeOK
  BY DEF SafeInv, TypeInv
<1>3. call'.pc # "wait_written" /\ call'.mode \in {call.mode, ReadMode}
  <2>1. \/ call' = Return(FALSE)
        \/ \E x : call' = [call EXCEPT !.node = x]
        \/ \E x : call' = [At("new_block") EXCEPT !.f = x]
        \/ \E x, y : call' = [At("writeback") EXCEPT !.node = x, !.left = y]
        \/ call' = At("undefined")
        \/ call' = At("wait_io")
    BY DEF find_unused_clean_block
  <2>2. CASE \E x : call' = [call EXCEPT !.node = x]
    BY <1>1, <1>2, <2>2, CallFields
  <2>3. CASE \E x : call' = [At("new_block") EXCEPT !.f = x]
    BY <1>2, <2>3, CallFields
  <2>4. CASE \E x, y : call' = [At("writeback") EXCEPT !.node = x, !.left = y]
    <3>1. PICK x, y : call' = [At("writeback") EXCEPT !.node = x, !.left = y]
      BY <2>4
    <3>2. call'.pc = "writeback" /\ call'.mode = call.mode
      BY <1>2, <3>1 DEF At, TypeOK, Calls
    <3> QED BY <3>2
  <2>5. CASE call' = Return(FALSE)
    BY <2>5 DEF Return, Idle
  <2>6. CASE call' = At("undefined") \/ call' = At("wait_io")
    BY <1>2, <2>6, CallFields
  <2> QED BY <2>1, <2>2, <2>3, <2>4, <2>5, <2>6
<1>4. ModeOK' /\ WrittenOK'
  BY <1>3 DEF ModeOK, WrittenOK, DataOK
<1>5. CASE f \in Frames /\ Unused(f)
  <2>1. rtree' = [rtree EXCEPT ![k] = NoFrame]
    BY <1>0, <1>5 DEF find_unused_clean_block
  <2>2. PICK on, pos : Safe(on, pos, {})
    BY <1>1, NothingInHand DEF SafeInv, Safe
  <2>3. on[f] = clean
    BY <1>0, <1>1, <2>2 DEF Safe, PlaceOK
  <2>4. k \in Keys /\ rtree[k] = f /\ blocks[f].dirty_bits = {}
    BY <1>0, <1>1, <1>5, <2>2, <2>3, HeadFacts
       DEF Safe, TreeOK, InUse, Freed, FramesOK, DataClients
  <2>5. \A j \in Keys \ {k} : rtree'[j] = rtree[j] /\ rtree[j] # f
    BY <1>2, <1>5, <2>1, <2>4, CachedFacts DEF TypeOK, DataClients
  <2>6. rtree'[k] = NoFrame
    BY <1>2, <2>1, <2>4 DEF TypeOK
  <2>7. unsaved[k] = {} /\ FrameData(f)
    BY <1>1, <1>5, <2>4, HeadFacts DEF DataOK, TreeData, DataOf
  <2>8. \A g \in Frames : /\ blocks'[g] = blocks[g] /\ good'[g] = good[g]
                          /\ wmask'[g] = wmask[g] /\ InFlight(g)' = InFlight(g)
    BY <1>1 DEF ghosts, InFlight
  <2>9. \A j \in Keys : unsaved'[j] = unsaved[j]
    BY <1>1 DEF ghosts
  <2>10. FrameData(f)'
    BY <1>5, <2>7, <2>8 DEF FrameData
  <2> QED BY <1>1, <1>4, <1>5, <2>4, <2>5, <2>6, <2>7, <2>8, <2>9, <2>10, OneFrame
          DEF DataClients
<1>6. CASE ~(f \in Frames /\ Unused(f))
  <2>1. UNCHANGED rtree
    BY <1>0, <1>6 DEF find_unused_clean_block
  <2> QED BY <1>1, <1>3, <1>4, <2>1, OnlyLists DEF DataClients
<1> QED BY <1>5, <1>6

-----------------------------------------------------------------------------
(* Writing back *)

\* What _issue leaves: an io that is over has failed, and without errors all
\* the runs of the block are in flight.
RunsIssued(b, d) == IF d = "write" THEN Runs(b.dirty_bits) ELSE {Sectors}

Underway(f, b, d, runs) ==
  /\ \A g \in Frames \ {f} : blocks'[g] = blocks[g] /\ InFlight(g)' = InFlight(g)
  /\ blocks'[f].dirty_bits = b.dirty_bits /\ blocks'[f].ref_count = b.ref_count
  /\ blocks'[f].io_dir = d
  /\ ~blocks'[f].pending => blocks'[f].error
  /\ blocks'[f].error => runs # {} /\ "full" \in Faults
  /\ blocks'[f].io_count > 0 => runs # {}
  /\ ~blocks'[f].error => \A r \in runs : \E io \in InFlight(f)' : io.secs = r

LEMMA IssueFacts ==
  ASSUME TypeOK, QuietClients, NEW f \in Frames, NEW l,
         NEW b \in Blocks, ~b.pending, b.io_count = 0, ~b.error,
         NEW d \in {"read", "write"}, NEW next, issue(l, f, b, d, next),
         NEW runs, runs = RunsIssued(b, d)
  PROVE  call' = next /\ Underway(f, b, d, runs)
<1> USE DEF RunsIssued
<1> DEFINE early(ok) == Early(runs, ok)
           ios(ok) == IosOf(f, b.key, d, ok)
<1>1. PICK ok \in Taken(runs) :
        /\ blocks' = [blocks EXCEPT ![f] =
                       [b EXCEPT !.io_dir = d,
                                 !.pending = (early(ok) = {}),
                                 !.io_count = Cardinality(ok),
                                 !.error = @ \/ ok # runs]]
        /\ inflight' = inflight \cup ios(ok)
        /\ call' = next
  BY DEF issue, Early, IosOf
<1>2. IsFiniteSet(runs) /\ runs \subseteq SUBSET Sectors /\ {} \notin runs
  BY IssuedRuns
<1>3. ok \subseteq runs /\ (early(ok) # {} => ok = {} /\ runs # {})
  <2>1. runs \subseteq SUBSET Int
    BY <1>2 DEF Sectors
  <2> QED BY <1>2, <2>1, TakenRuns
<1>4. ok # runs => "full" \in Faults
  BY DEF Taken, QuietClients
<1>5. Cardinality(ok) = 0 <=> ok = {}
  <2>1. IsFiniteSet(ok)
    BY <1>2, <1>3, FS_Subset
  <2> QED BY <2>1, FS_EmptySet
<1>6. Cardinality(ok) > 0 => ok # {}
  BY <1>5
<1> HIDE DEF early, ios
<1>7. blocks \in [Frames -> Blocks]
  BY DEF TypeOK
<1>8. /\ \A g \in Frames \ {f} : blocks'[g] = blocks[g]
      /\ blocks'[f].dirty_bits = b.dirty_bits /\ blocks'[f].ref_count = b.ref_count
      /\ blocks'[f].pending <=> early(ok) = {}
      /\ blocks'[f].error <=> ok # runs
      /\ blocks'[f].io_count = Cardinality(ok) /\ blocks'[f].io_dir = d
  BY <1>1, <1>7 DEF Blocks
<1>9. /\ \A g \in Frames \ {f} : InFlight(g)' = InFlight(g)
      /\ \A r \in ok : \E io \in InFlight(f)' : io.secs = r
  <2>1. ASSUME NEW g \in Frames \ {f} PROVE InFlight(g)' = InFlight(g)
    BY <1>1 DEF InFlight, ios, IosOf
  <2>2. ASSUME NEW r \in ok PROVE \E io \in InFlight(f)' : io.secs = r
    <3>1. PICK io : io = [frame |-> f, key |-> b.key, dir |-> d, secs |-> r]
      OBVIOUS
    <3>2. io \in inflight' /\ io.frame = f /\ io.secs = r
      BY <1>1, <3>1 DEF ios, IosOf
    <3> QED BY <3>2 DEF InFlight
  <2> QED BY <2>1, <2>2
<1>10. runs = {} => ok = runs
  BY <1>3
<1> QED BY <1>1, <1>3, <1>4, <1>6, <1>8, <1>9, <1>10 DEF Underway

\* A writeback starts.
LEMMA WriteData ==
  ASSUME SafeInv, DataOK, DataClients, NEW f \in Frames, NEW l, NEW next,
         ~blocks[f].pending, blocks[f].ref_count = 0,
         issue_write(l, f, next), UNCHANGED <<rtree, ghosts>>,
         call.pc \notin {"finish_get", "destroyed"},
         next.mode = call.mode, next.pc = "wait_written" => next.f = f
  PROVE  DataOK'
<1>0. PICK b, runs : b = [blocks[f] EXCEPT !.error = FALSE] /\ runs = Runs(b.dirty_bits)
  OBVIOUS
<1>1. TypeOK
  BY DEF SafeInv, TypeInv
<1>2. blocks[f].io_count = 0
  <2>1. PICK on, pos, out : Safe(on, pos, out)
    BY DEF SafeInv
  <2> QED BY <1>1, <2>1 DEF Safe, IosOK, TypeOK, Blocks
<1>3. /\ b \in Blocks /\ ~b.pending /\ b.io_count = 0 /\ ~b.error /\ b.ref_count = 0
      /\ b.dirty_bits = blocks[f].dirty_bits /\ b.dirty_bits \in SUBSET Sectors
  <2>1. blocks[f] \in Blocks
    BY <1>1 DEF TypeOK
  <2>2. b \in Blocks /\ b.io_count = 0 /\ b.ref_count = 0
    BY <1>0, <1>2, <2>1 DEF Blocks
  <2>3. b.dirty_bits = blocks[f].dirty_bits /\ b.dirty_bits \in SUBSET Sectors
    BY <1>0, <2>1 DEF Blocks
  <2>4. ~b.pending
    BY <1>0, <2>1 DEF Blocks
  <2>5. ~b.error
    BY <1>0, <2>1 DEF Blocks
  <2> QED BY <2>2, <2>3, <2>4, <2>5
<1>4. issue(l, f, b, "write", next)
  BY <1>0 DEF issue_write
<1>5. call' = next /\ Underway(f, b, "write", runs)
  <2>1. QuietClients /\ runs = RunsIssued(b, "write")
    BY <1>0 DEF DataClients, RunsIssued
  <2> QED BY <1>1, <1>3, <1>4, <2>1, IssueFacts
<1>6. /\ runs # {} => b.dirty_bits # {}
      /\ \A s \in b.dirty_bits : \E r \in runs : s \in r
  <2>1. runs # {} => b.dirty_bits # {}
    BY <1>0 DEF Runs
  <2>2. UNION runs = b.dirty_bits
    BY <1>0, <1>3, RunsCover
  <2> QED BY <2>1, <2>2
<1>7. good' = good /\ unsaved' = unsaved /\ wmask' = wmask /\ rtree' = rtree
  BY DEF ghosts
<1>8. FrameData(f)'
  BY <1>3, <1>5, <1>7 DEF Underway, DataOK, FrameData
<1>9. ASSUME NEW k \in Keys, rtree[k] = f
      PROVE  DataOf(k, f)'
  <2>1. DataOf(k, f)
    BY <1>9, HeadFacts DEF DataOK, TreeData
  <2>2. unsaved'[k] \subseteq blocks'[f].dirty_bits
    BY <1>3, <1>5, <1>7, <2>1 DEF Underway, DataOf
  <2>3. blocks'[f].dirty_bits # {} => good'[f] = Sectors
    BY <1>3, <1>5, <1>7, <2>1 DEF Underway, DataOf
  <2>4. ~blocks'[f].error => Covered(k, f)'
    <3> SUFFICES ASSUME ~blocks'[f].error, NEW s \in unsaved'[k]
                 PROVE  \E io \in InFlight(f)' : s \in io.secs
      BY DEF Covered
    <3>1. PICK r \in runs : s \in r
      BY <1>5, <1>6, <2>2 DEF Underway
    <3> QED BY <1>5, <3>1 DEF Underway
  <2>5. blocks'[f].error => ~Zeroes
    BY <1>5 DEF Underway, DataClients
  <2>6. blocks'[f].io_count > 0 \/ blocks'[f].error => good'[f] = Sectors
    BY <1>5, <1>6, <2>3 DEF Underway
  <2> QED BY <1>5, <2>2, <2>3, <2>4, <2>5, <2>6 DEF Underway, DataOf
<1>10. ModeOK' /\ WrittenOK'
  BY <1>5 DEF Underway, DataOK, ModeOK, WrittenOK
<1> QED BY <1>5, <1>7, <1>8, <1>9, <1>10, OneFrame DEF Underway, DataClients

LEMMA WritebackData ==
  ASSUME SafeInv, DataOK, DataClients, writeback
  PROVE  DataOK'
<1>0. PICK f, next : f = call.node /\ next = [call EXCEPT !.node = lists.n[f]]
  OBVIOUS
<1>1. call.pc = "writeback" /\ UNCHANGED <<rtree, ghosts>>
  BY DEF writeback
<1>2. TypeOK
  BY DEF SafeInv, TypeInv
<1>3. PICK on, pos : Safe(on, pos, {})
  BY <1>1, NothingInHand DEF SafeInv, Safe
<1>4. on[f] = dirty /\ \A h \in Heads : on[h] = h
  BY <1>0, <1>1, <1>3 DEF Safe, PlaceOK, Chained
<1>5. ~Lost(f, dirty)
  BY <1>4, HeadFacts DEF Lost
<1>6. CASE f \in Frames /\ ~(call.left = 0) /\ Unused(f)
  <2>1. PICK c : c = [next EXCEPT !.left = @ - 1]
    OBVIOUS
  <2>2. issue_write(lists, f, c)
    BY <1>0, <1>4, <1>6, <2>1, HeadFacts DEF writeback
  <2>3. c.pc = call.pc /\ c.mode = call.mode
    BY <1>0, <1>2, <2>1 DEF TypeOK, Calls
  <2>4. ~blocks[f].pending /\ blocks[f].ref_count = 0
    BY <1>2, <1>3, <1>4, <1>6, HeadFacts DEF Safe, FramesOK, Unused, Held, TypeOK, Blocks
  <2> QED BY <1>1, <1>6, <2>2, <2>3, <2>4, WriteData
<1>7. CASE ~(f \in Frames /\ ~(call.left = 0) /\ Unused(f))
  <2>1. UNCHANGED <<blocks, inflight>>
        /\ (call' = next \/ call' = Return(TRUE) \/ call' = At("wait_io"))
    BY <1>0, <1>5, <1>7, HeadFacts, NodeTypes DEF writeback
  <2>2. /\ Return(TRUE).pc = "idle" /\ Return(TRUE).mode = ReadMode
        /\ At("wait_io").pc = "wait_io" /\ At("wait_io").mode = call.mode
        /\ next.pc = call.pc /\ next.mode = call.mode
    BY <1>0, <1>2 DEF Return, Idle, At, TypeOK, Calls
  <2>3. call'.pc # "wait_written" /\ call'.mode \in {call.mode, ReadMode}
    BY <1>1, <2>1, <2>2
  <2>4. ModeOK'
    BY <2>3 DEF DataOK, ModeOK
  <2> QED BY <1>1, <2>1, <2>3, <2>4, OnlyLists DEF DataClients
<1> QED BY <1>6, <1>7

LEMMA FlushData ==
  ASSUME SafeInv, DataOK, DataClients, flush
  PROVE  DataOK'
<1>0. PICK f : f = lists.n[dirty]
  OBVIOUS
<1>1. call.pc = "flush" /\ UNCHANGED <<rtree, ghosts>>
  BY DEF flush
<1>2. TypeOK
  BY DEF SafeInv, TypeInv
<1>3. CASE ~list_empty(lists, dirty) /\ ~Lost(f, dirty) /\ Unused(f) /\ ~blocks[f].pending
  <2>1. PICK l : l = list_del(lists, f)
    OBVIOUS
  <2>2. issue_write(l, f, call)
    BY <1>0, <1>3, <2>1 DEF flush
  <2>3. f \in Frames
    BY <1>0, <1>2, <1>3, HeadFacts, NodeTypes DEF TypeOK, Lost, list_empty
  <2>4. blocks[f].ref_count = 0
    BY <1>2, <1>3, <2>3 DEF Unused, Held, TypeOK, Blocks
  <2> QED BY <1>1, <1>3, <2>2, <2>3, <2>4, WriteData
<1>4. CASE ~(~list_empty(lists, dirty) /\ ~Lost(f, dirty) /\ Unused(f) /\ ~blocks[f].pending)
  <2>1. UNCHANGED <<blocks, inflight>>
        /\ (call' = call \/ call' = At("wait_all") \/ call' = At("undefined"))
    BY <1>0, <1>4 DEF flush
  <2>2. call'.pc # "wait_written" /\ call'.mode = call.mode
    BY <1>1, <1>2, <2>1, CallFields
  <2>3. ModeOK'
    BY <2>2 DEF DataOK, ModeOK
  <2> QED BY <1>1, <2>1, <2>2, <2>3, OnlyLists DEF DataClients
<1> QED BY <1>3, <1>4

-----------------------------------------------------------------------------
(* A block is given a frame, and got *)

\* The block was in no frame, so nothing of it is unsaved.
LEMMA NewBlockData ==
  ASSUME SafeInv, DataOK, DataClients, new_block
  PROVE  DataOK'
<1>0. PICK f, k, b, next, alone :
        /\ f = call.f /\ k = call.key /\ b = NewBlockOf(k)
        /\ next = IF call.op = "prefetch" THEN Return(TRUE) ELSE At("wait_block")
        /\ alone = list_init(lists, f)
  OBVIOUS
<1>1. /\ call.pc = "new_block" /\ rtree' = [rtree EXCEPT ![k] = f]
      /\ good' = [good EXCEPT ![f] = {}] /\ unsaved' = unsaved /\ wmask' = wmask
  BY <1>0 DEF new_block
<1>2. TypeOK /\ f \in Frames
  BY <1>0, <1>1 DEF SafeInv, TypeInv, CallOK
<1>3. PICK on, pos : Safe(on, pos, {f})
  BY <1>0, <1>1 DEF SafeInv, Safe, HandOK
<1>4. blocks[f].ref_count = 0
  BY <1>2, <1>3 DEF Safe, FramesOK, TypeOK, Blocks
<1>5. /\ k \in Keys /\ rtree[k] = NoFrame
      /\ \A j \in Keys : rtree[j] # f
  BY <1>0, <1>1, <1>2, <1>3, HeadFacts DEF Safe, TreeOK, InUse, Freed, DataClients
<1>6. /\ rtree'[k] = f /\ \A j \in Keys \ {k} : rtree'[j] = rtree[j]
      /\ good'[f] = {} /\ \A g \in Frames \ {f} : good'[g] = good[g]
  BY <1>1, <1>2, <1>5 DEF TypeOK
<1>7. unsaved[k] = {} /\ wmask[f] = {}
  BY <1>1, <1>2, <1>4, <1>5 DEF DataOK, TreeData, FrameData
<1>8. /\ b \in Blocks /\ ~b.pending /\ b.io_count = 0 /\ b.ref_count = 0
      /\ ~b.error /\ b.dirty_bits = {} /\ b.io_dir = "read"
  BY <1>0, <1>2, NewBlockType DEF NewBlockOf, TypeOK, Calls
<1>9. CASE MustRead(call.mode)
  <2>1. issue(alone, f, b, "read", next)
    BY <1>0, <1>9 DEF new_block
  <2>2. PICK runs : runs = RunsIssued(b, "read")
    OBVIOUS
  <2>3. call' = next /\ Underway(f, b, "read", runs)
    <3>1. QuietClients
      BY DEF DataClients
    <3> QED BY <1>2, <1>8, <2>1, <2>2, <3>1, IssueFacts
  <2>4. call'.pc # "wait_written" /\ call'.mode \in {call.mode, ReadMode}
    <3>1. /\ Return(TRUE).pc = "idle" /\ Return(TRUE).mode = ReadMode
          /\ At("wait_block").pc = "wait_block" /\ At("wait_block").mode = call.mode
      BY <1>2 DEF Return, Idle, At, TypeOK, Calls
    <3> QED BY <1>0, <2>3, <3>1
  <2>5. ModeOK' /\ WrittenOK'
    BY <2>4 DEF DataOK, ModeOK, WrittenOK
  <2>6. FrameData(f)'
    BY <1>1, <1>4, <1>7, <1>8, <2>3 DEF FrameData, Underway
  <2>7. DataOf(k, f)'
    BY <1>1, <1>7, <1>8, <2>3 DEF DataOf, Underway
  <2> QED BY <1>1, <1>2, <1>5, <1>6, <2>3, <2>5, <2>6, <2>7, OneFrame
          DEF DataClients, Underway
<1>10. CASE ~MustRead(call.mode)
  <2>1. /\ blocks' = [blocks EXCEPT ![f] = b] /\ UNCHANGED inflight
        /\ call' = At("finish_get")
    BY <1>0, <1>10 DEF new_block
  <2>2. /\ call'.pc = "finish_get" /\ call'.f = f /\ call'.mode = call.mode
        /\ call.mode.type = "zero"
    BY <1>0, <1>2, <1>10, <2>1 DEF At, TypeOK, Calls, Modes, MustRead
  <2>3. blocks'[f] = b /\ \A g \in Frames \ {f} : blocks'[g] = blocks[g]
    BY <1>2, <2>1 DEF TypeOK
  <2>4. \A g \in Frames : InFlight(g)' = InFlight(g)
    BY <2>1 DEF InFlight
  <2>5. ModeOK' /\ WrittenOK'
    BY <2>2 DEF DataOK, ModeOK, WrittenOK
  <2>6. FrameData(f)'
    BY <1>1, <1>7, <1>8, <2>3 DEF FrameData
  <2>7. DataOf(k, f)'
    BY <1>1, <1>7, <1>8, <2>2, <2>3 DEF DataOf, Filling
  <2> QED BY <1>1, <1>2, <1>5, <1>6, <2>3, <2>4, <2>5, <2>6, <2>7, OneFrame DEF DataClients
<1> QED BY <1>9, <1>10

LEMMA FinishGetData ==
  ASSUME SafeInv, DataOK, DataClients, finish_get
  PROVE  DataOK'
<1>0. PICK f, k, mask : f = call.f /\ k = blocks[f].key /\ mask = call.mode.mask
  OBVIOUS
<1>1. call.pc = "finish_get" /\ UNCHANGED <<inflight, unsaved>>
  BY DEF finish_get
<1>2. TypeOK /\ f \in Frames /\ mask \in SUBSET Sectors
  BY <1>0, <1>1 DEF SafeInv, TypeInv, CallOK, TypeOK, Calls, Modes
<1>3. PICK on, pos, out : Safe(on, pos, out)
  BY DEF SafeInv
<1>4. k \in Keys /\ rtree[k] = f /\ ~blocks[f].pending
  BY <1>0, <1>1, <1>2, <1>3 DEF Safe, PlaceOK, TreeOK, DataClients
<1>5. \A j \in Keys \ {k} : rtree[j] # f
  BY <1>2, <1>4, CachedFacts DEF DataClients
<1>6. DataOf(k, f) /\ FrameData(f)
  BY <1>1, <1>2, <1>4, HeadFacts DEF DataOK, TreeData
<1>7. \A g \in Frames : InFlight(g)' = InFlight(g)
  BY <1>1 DEF InFlight
<1>8. call'.pc = "idle" /\ call'.mode = ReadMode
  BY DEF finish_get, Return, Idle
<1>9. ModeOK' /\ WrittenOK'
  BY <1>8 DEF ModeOK, WrittenOK
<1>10. call.mode.type = "zero" => mask = Sectors /\ Zeroes
  BY <1>0 DEF DataOK, ModeOK, ReadMode, DataClients, Zeroes
<1> DEFINE writes == call.mode.type # "read"
           zeroed == IF call.mode.type = "zero" THEN Zeroed(mask, blocks[f].dirty_bits) ELSE {}
<1>11. /\ \A g \in Frames \ {f} : blocks'[g] = blocks[g] /\ good'[g] = good[g]
       /\ blocks'[f].dirty_bits = blocks[f].dirty_bits \cup (IF writes THEN mask ELSE {})
       /\ blocks'[f].pending <=> blocks[f].pending
       /\ blocks'[f].error <=> blocks[f].error
       /\ blocks'[f].io_dir = blocks[f].io_dir
       /\ blocks'[f].ref_count = blocks[f].ref_count + (IF blocks[f].error THEN 0 ELSE 1)
       /\ good'[f] = (good[f] \ zeroed) \cup (IF writes /\ ~blocks[f].error THEN mask ELSE {})
  <2>1. blocks \in [Frames -> Blocks] /\ blocks[f] \in Blocks /\ good \in [Frames -> SUBSET Sectors]
    BY <1>2 DEF TypeOK
  <2>2. PICK touched :
          touched = IF writes THEN [blocks[f] EXCEPT !.dirty_bits = @ \cup mask] ELSE blocks[f]
    OBVIOUS
  <2>3. /\ touched.dirty_bits = blocks[f].dirty_bits \cup (IF writes THEN mask ELSE {})
        /\ touched.pending <=> blocks[f].pending
        /\ touched.error <=> blocks[f].error
        /\ touched.io_dir = blocks[f].io_dir /\ touched.ref_count = blocks[f].ref_count
        /\ touched \in Blocks
    BY <1>2, <2>1, <2>2 DEF Blocks
  <2>4. /\ blocks' = [blocks EXCEPT ![f] = IF blocks[f].error THEN touched
                                        ELSE [touched EXCEPT !.ref_count = @ + 1]]
        /\ good' = [good EXCEPT ![f] =
                      (@ \ zeroed) \cup (IF writes /\ ~blocks[f].error THEN mask ELSE {})]
    BY <1>0, <2>2 DEF finish_get
  <2> HIDE DEF writes, zeroed
  <2>5. /\ \A g \in Frames \ {f} : blocks'[g] = blocks[g] /\ good'[g] = good[g]
        /\ good'[f] = (good[f] \ zeroed) \cup (IF writes /\ ~blocks[f].error THEN mask ELSE {})
        /\ blocks'[f] = IF blocks[f].error THEN touched
                        ELSE [touched EXCEPT !.ref_count = @ + 1]
    BY <1>2, <2>1, <2>4
  <2> QED BY <2>1, <2>3, <2>5 DEF Blocks
<1>12. /\ wmask' = IF writes /\ ~blocks[f].error
                   THEN [wmask EXCEPT ![f] = @ \cup mask] ELSE wmask
       /\ rtree' = IF blocks[f].error /\ blocks[f].io_dir = "read"
                   THEN [rtree EXCEPT ![k] = NoFrame] ELSE rtree
  BY <1>0 DEF finish_get
<1> HIDE DEF writes, zeroed
<1>13. /\ \A g \in Frames \ {f} : wmask'[g] = wmask[g]
       /\ wmask'[f] = wmask[f] \cup (IF writes /\ ~blocks[f].error THEN mask ELSE {})
       /\ \A j \in Keys \ {k} : rtree'[j] = rtree[j]
       /\ rtree'[k] = IF blocks[f].error /\ blocks[f].io_dir = "read" THEN NoFrame ELSE f
  BY <1>2, <1>4, <1>12 DEF TypeOK
<1>14. ~(blocks[f].error /\ blocks[f].ref_count > 0) /\ blocks[f].ref_count \in Nat
  BY <1>2, <1>3 DEF Safe, FramesOK, TypeOK, Blocks
<1>15. /\ ~blocks[f].error => good'[f] = Sectors
       /\ blocks[f].error /\ blocks[f].io_dir = "write" => good'[f] = good[f]
  <2>1. good[f] \in SUBSET Sectors
    BY <1>2 DEF TypeOK
  <2>2. CASE call.mode.type = "zero"
    <3>1. writes /\ mask = Sectors /\ Zeroes
      BY <1>10, <2>2 DEF writes
    <3> QED BY <1>6, <1>11, <2>1, <3>1 DEF DataOf
  <2>3. CASE call.mode.type # "zero"
    <3>1. zeroed = {} /\ ~Filling(f)
      BY <2>3 DEF zeroed, Filling
    <3> QED BY <1>2, <1>4, <1>6, <1>11, <2>1, <3>1 DEF DataOf
  <2> QED BY <2>2, <2>3
<1>16. FrameData(f)'
  BY <1>6, <1>11, <1>13, <1>14, <1>15 DEF FrameData
<1>17. CASE blocks[f].error /\ blocks[f].io_dir = "read"
  <2>1. unsaved'[k] = {} /\ rtree'[k] = NoFrame
    BY <1>1, <1>6, <1>13, <1>17 DEF DataOf
  <2> QED BY <1>0, <1>1, <1>5, <1>7, <1>9, <1>11, <1>13, <1>16, <2>1, OneFrame DEF DataClients
<1>18. CASE ~(blocks[f].error /\ blocks[f].io_dir = "read")
  <2>1. DataOf(k, f)'
    <3>1. blocks[f].io_dir \in {"read", "write"}
      BY <1>2 DEF TypeOK, Blocks
    <3>2. blocks'[f].error => blocks'[f].io_dir = "write" /\ good'[f] = good[f]
      BY <1>11, <1>15, <1>18, <3>1
    <3>3. good'[f] = Sectors
      BY <1>4, <1>6, <1>11, <1>15, <3>2 DEF DataOf
    <3>4. ~blocks'[f].pending /\ unsaved'[k] \subseteq blocks'[f].dirty_bits
      BY <1>1, <1>4, <1>6, <1>11 DEF DataOf
    <3>5. Zeroes => ~blocks'[f].error
      BY <1>6, <1>11, <3>2 DEF DataOf
    <3> QED BY <3>2, <3>3, <3>4, <3>5 DEF DataOf
  <2> QED BY <1>0, <1>1, <1>2, <1>5, <1>7, <1>9, <1>11, <1>13, <1>16, <1>18, <2>1, OneFrame
          DEF DataClients
<1> QED BY <1>17, <1>18

-----------------------------------------------------------------------------
(* Invalidating *)

\* A frame whose block is clean leaves the tree.
LEMMA DropData ==
  ASSUME SafeInv, DataOK, DataClients, NEW f \in Frames, recycle_block(f),
         UNCHANGED <<blocks, inflight, ghosts>>, call' = Return(TRUE),
         call.pc \notin {"finish_get", "destroyed"},
         rtree[blocks[f].key] = f, blocks[f].key \in Keys, blocks[f].dirty_bits = {}
  PROVE  /\ DataOK'
         /\ unsaved'[blocks[f].key] = {} /\ rtree'[blocks[f].key] = NoFrame
<1>0. PICK k : k = blocks[f].key
  OBVIOUS
<1>1. rtree' = [rtree EXCEPT ![k] = NoFrame] /\ rtree \in [Keys -> Frames \cup {NoFrame}]
  BY <1>0 DEF recycle_block, SafeInv, TypeInv, TypeOK
<1>2. rtree'[k] = NoFrame /\ \A j \in Keys \ {k} : rtree'[j] = rtree[j] /\ rtree[j] # f
  BY <1>0, <1>1, CachedFacts DEF DataClients
<1>3. unsaved[k] = {} /\ FrameData(f)
  BY <1>0, HeadFacts DEF DataOK, TreeData, DataOf
<1>4. \A g \in Frames : /\ blocks'[g] = blocks[g] /\ good'[g] = good[g]
                        /\ wmask'[g] = wmask[g] /\ InFlight(g)' = InFlight(g)
  BY DEF ghosts, InFlight
<1>5. \A j \in Keys : unsaved'[j] = unsaved[j]
  BY DEF ghosts
<1>6. FrameData(f)'
  BY <1>3, <1>4 DEF FrameData
<1>7. call'.pc = "idle" /\ call'.mode = ReadMode
  BY DEF Return, Idle
<1>8. ModeOK' /\ WrittenOK'
  BY <1>7 DEF ModeOK, WrittenOK
<1>9. DataOK'
  BY <1>0, <1>2, <1>3, <1>4, <1>5, <1>6, <1>8, OneFrame DEF DataClients
<1> QED BY <1>0, <1>2, <1>3, <1>5, <1>9

\* The frame of a call that invalidates a block.
LEMMA InvalidateFacts ==
  ASSUME SafeInv, TreeStays, call.pc \in {"invalidate", "wait_written"}
  PROVE  /\ call.op = "invalidate_block" /\ call.f \in Frames
         /\ call.key \in Keys /\ rtree[call.key] = call.f
         /\ blocks[call.f].key = call.key
<1>1. PICK on, pos, out : Safe(on, pos, out)
  BY DEF SafeInv
<1>2. call.op = "invalidate_block" /\ call.f \in Frames
  BY <1>1 DEF Safe, PlaceOK, SafeInv, TypeInv, CallOK
<1>3. call.key \in Keys /\ rtree[call.key] = call.f
  BY <1>1, <1>2 DEF Safe, TreeOK
<1> QED BY <1>2, <1>3, CachedFacts

LEMMA InvalidateData ==
  ASSUME SafeInv, DataOK, DataClients, invalidate_block \/ waited_written
  PROVE  /\ DataOK'
         /\ call'.pc = "idle" /\ call'.ret = TRUE =>
              unsaved'[call.key] = {} /\ rtree'[call.key] = NoFrame
<1>0. PICK f, k : f = call.f /\ k = call.key
  OBVIOUS
<1>1. call.pc \in {"invalidate", "wait_written"} /\ UNCHANGED ghosts
  BY DEF invalidate_block, waited_written, Waited
<1>2. TypeOK /\ f \in Frames /\ k \in Keys /\ rtree[k] = f /\ blocks[f].key = k
  BY <1>0, <1>1, InvalidateFacts DEF SafeInv, TypeInv, DataClients
<1>3. PICK on, pos : Safe(on, pos, {})
  BY <1>1, NothingInHand DEF SafeInv, Safe
<1>4. CASE recycle_block(f) /\ blocks[f].dirty_bits = {}
           /\ UNCHANGED <<blocks, inflight>> /\ call' = Return(TRUE)
  BY <1>0, <1>1, <1>2, <1>4, DropData
<1>5. CASE UNCHANGED <<blocks, rtree, inflight>> /\ call' = Return(FALSE)
  <2>1. call'.pc = "idle" /\ call'.mode = ReadMode
    BY <1>5 DEF Return, Idle
  <2>2. ~(call'.ret = TRUE)
    BY <1>5 DEF Return, Idle
  <2>3. ModeOK'
    BY <2>1 DEF ModeOK
  <2>4. DataOK'
    BY <1>1, <1>5, <2>1, <2>3, OnlyLists DEF DataClients
  <2> QED BY <2>2, <2>4
<1>6. CASE invalidate_block
  <2>1. call.pc = "invalidate" /\ ~blocks[f].pending
    BY <1>0, <1>3, <1>6 DEF invalidate_block, Safe, PlaceOK
  <2>2. CASE f \in Held
    BY <1>0, <1>5, <1>6, <2>2 DEF invalidate_block
  <2>3. CASE f \notin Held /\ blocks[f].dirty_bits # {}
    <3>1. PICK next : next = At("wait_written")
      OBVIOUS
    <3>2. issue_write(lists, f, next) /\ UNCHANGED rtree
      BY <1>0, <1>6, <2>3, <3>1 DEF invalidate_block
    <3>3. blocks[f].ref_count = 0
      BY <1>2, <2>3 DEF Held, TypeOK, Blocks
    <3>4. next.mode = call.mode /\ next.pc = "wait_written" /\ next.f = f
      BY <1>0, <1>2, <3>1 DEF At, TypeOK, Calls
    <3>5. DataOK'
      BY <1>1, <1>2, <2>1, <3>2, <3>3, <3>4, WriteData
    <3>6. call' = next
      <4>1. Written(f, next, on)
        BY <1>2, <1>3, <2>1, <2>3, <3>2, <3>3, WriteSafe
           DEF DataClients, ReadGoesOn
      <4> QED BY <4>1 DEF Written
    <3> QED BY <3>4, <3>5, <3>6
  <2>4. CASE f \notin Held /\ blocks[f].dirty_bits = {}
    BY <1>0, <1>4, <1>6, <2>4 DEF invalidate_block
  <2> QED BY <2>2, <2>3, <2>4
<1>7. CASE waited_written
  <2>1. call.pc = "wait_written" /\ ~blocks[f].pending /\ UNCHANGED <<blocks, inflight>>
    BY <1>0, <1>7 DEF waited_written, Waited, Waiting
  <2>2. ~blocks[f].error => blocks[f].dirty_bits = {}
    BY <1>0, <2>1 DEF DataOK, WrittenOK
  <2>3. CASE blocks[f].error
    BY <1>0, <1>5, <1>7, <2>1, <2>3 DEF waited_written
  <2>4. CASE ~blocks[f].error
    BY <1>0, <1>4, <1>7, <2>1, <2>2, <2>4 DEF waited_written
  <2> QED BY <2>3, <2>4
<1> QED BY <1>6, <1>7

\* The device that is being invalidated.
LEMMA EmptyingFacts ==
  ASSUME SafeInv, TreeStays,
         \/ call.pc = "invalidate_v"
         \/ call.pc = "writeback_v" /\ call.todo # {}
  PROVE  /\ call.op = "invalidate_dev" /\ Faults = {}
         /\ \A k \in call.todo : k \in Keys /\ rtree[k] \in Frames
         /\ \A k \in Keys : rtree[k] # NoFrame /\ DevOf[k] = DevOf[call.key] =>
              /\ blocks[rtree[k]].ref_count = 0
              /\ call.pc = "invalidate_v" => blocks[rtree[k]].dirty_bits = {}
         /\ \A f \in Frames : ~blocks[f].error
<1>1. PICK on, pos, out : Safe(on, pos, out)
  BY DEF SafeInv
<1>2. \A k \in call.todo : k \in Keys /\ rtree[k] \in Frames
  BY DEF SafeInv, TypeInv, CallOK, TypeOK, Calls
<1>3. call.op = "invalidate_dev"
  BY <1>1, <1>2, HeadFacts DEF Safe, PlaceOK, TreeOK
<1>4. \E o : Emptying(o)
  BY <1>1, <1>3 DEF Safe, TreeOK
<1>5. Faults = {}
  BY <1>4 DEF Emptying
<1> QED BY <1>1, <1>2, <1>3, <1>4, <1>5 DEF Safe, FramesOK, Emptying, OfDevice

\* A block whose writeback is pending already is left alone.
LEMMA WritebackVData ==
  ASSUME SafeInv, DataOK, DataClients, writeback_v
  PROVE  DataOK'
<1>1. call.pc = "writeback_v" /\ UNCHANGED <<rtree, ghosts>> /\ TypeOK
  BY DEF writeback_v, SafeInv, TypeInv
<1>2a. PICK k \in call.todo :
         IF blocks[rtree[k]].dirty_bits # {}
         THEN issue_write(lists, rtree[k], [call EXCEPT !.todo = @ \ {k}])
         ELSE /\ call' = [call EXCEPT !.todo = @ \ {k}]
              /\ UNCHANGED <<lists, blocks, nr_io_pending, inflight>>
  BY DEF writeback_v
<1>2. PICK f, next :
        /\ k \in call.todo /\ f = rtree[k] /\ next = [call EXCEPT !.todo = @ \ {k}]
        /\ IF blocks[f].dirty_bits # {} THEN issue_write(lists, f, next)
           ELSE call' = next /\ UNCHANGED <<lists, blocks, nr_io_pending, inflight>>
  BY <1>2a
<1>3. f \in Frames /\ ~blocks[f].error /\ blocks[f].ref_count = 0
  <2>1. PICK on, pos, out : Safe(on, pos, out)
    BY DEF SafeInv
  <2> QED BY <1>1, <1>2, <2>1, EmptyingFacts DEF Safe, PlaceOK, DataClients
<1>4. next.pc = "writeback_v" /\ next.mode = call.mode
  BY <1>1, <1>2 DEF TypeOK, Calls
<1>5. CASE blocks[f].dirty_bits # {} /\ ~blocks[f].pending
  BY <1>1, <1>2, <1>3, <1>4, <1>5, WriteData
<1>6. CASE ~(blocks[f].dirty_bits # {} /\ ~blocks[f].pending)
  <2>1. UNCHANGED <<blocks, inflight>> /\ call' = next
    <3>1. CASE blocks[f].dirty_bits = {}
      BY <1>2, <3>1
    <3>2. CASE blocks[f].dirty_bits # {}
      <4>1. PICK b : b = [blocks[f] EXCEPT !.error = FALSE]
        OBVIOUS
      <4>2. blocks[f] \in Blocks /\ blocks \in [Frames -> Blocks]
        BY <1>1, <1>3 DEF TypeOK
      <4>3. b = blocks[f]
        BY <1>3, <4>1, <4>2 DEF Blocks
      <4>4. issue(lists, f, b, "write", next) /\ b.pending
        BY <1>2, <1>6, <3>2, <4>1, <4>3 DEF issue_write
      <4>5. blocks' = [blocks EXCEPT ![f] = b] /\ UNCHANGED inflight /\ call' = next
        BY <4>4 DEF issue
      <4> QED BY <4>2, <4>3, <4>5
    <3> QED BY <3>1, <3>2
  <2>2. ModeOK'
    BY <1>4, <2>1 DEF DataOK, ModeOK
  <2> QED BY <1>1, <1>4, <2>1, <2>2, OnlyLists DEF DataClients
<1> QED BY <1>5, <1>6

\* The blocks that leave the tree are clean.
LEMMA RemovePrefixData ==
  ASSUME SafeInv, DataOK, DataClients, remove_prefix
  PROVE  /\ DataOK'
         /\ \A k \in Keys : DevOf[k] = DevOf[call.key] =>
              unsaved'[k] = {} /\ rtree'[k] = NoFrame
<1>1. /\ call.pc = "invalidate_v" /\ UNCHANGED <<blocks, inflight, ghosts>>
      /\ rtree' = [k \in Keys |-> IF DevOf[k] = DevOf[call.key] THEN NoFrame ELSE rtree[k]]
  BY DEF remove_prefix
<1>2. \A k \in Keys : IF DevOf[k] = DevOf[call.key]
                      THEN unsaved'[k] = {} /\ rtree'[k] = NoFrame
                      ELSE unsaved'[k] = unsaved[k] /\ rtree'[k] = rtree[k]
  <2> SUFFICES ASSUME NEW k \in Keys, DevOf[k] = DevOf[call.key] PROVE unsaved[k] = {}
    BY <1>1 DEF ghosts
  <2>1. CASE rtree[k] = NoFrame
    BY <1>1, <2>1 DEF DataOK, TreeData
  <2>2. CASE rtree[k] # NoFrame
    BY <1>1, <2>2, EmptyingFacts DEF DataOK, TreeData, DataOf, DataClients
  <2> QED BY <2>1, <2>2
<1>3. \A g \in Frames : /\ blocks'[g] = blocks[g] /\ good'[g] = good[g]
                        /\ wmask'[g] = wmask[g] /\ InFlight(g)' = InFlight(g)
  BY <1>1 DEF ghosts, InFlight
<1>4. call'.pc = "idle" /\ call'.mode = ReadMode
  BY CallFields DEF remove_prefix, SafeInv, TypeInv
<1>5. ModeOK' /\ WrittenOK'
  BY <1>4 DEF ModeOK, WrittenOK
<1>6. \A k \in Keys :
        \/ rtree'[k] = NoFrame /\ unsaved'[k] = {}
        \/ /\ rtree'[k] = rtree[k] /\ unsaved'[k] = unsaved[k]
           /\ rtree[k] = NoFrame \/ rtree[k] # NoFrame
  BY <1>2
<1>7. DataOK'
  BY <1>1, <1>3, <1>5, <1>6, OneFrame, HeadFacts DEF DataClients
<1> QED BY <1>2, <1>7

\* _invalidate_v only moves frames to the free list.
LEMMA InvalidateVData ==
  ASSUME SafeInv, DataOK, DataClients, invalidate_v
  PROVE  DataOK'
<1>1. /\ call.pc = "invalidate_v" /\ UNCHANGED <<blocks, rtree, inflight, ghosts>>
      /\ \E k, r : call' = [call EXCEPT !.todo = @ \ {k}, !.ret = r]
  BY DEF invalidate_v
<1>2. call'.pc = "invalidate_v" /\ call'.mode = call.mode
  BY <1>1 DEF SafeInv, TypeInv, TypeOK, Calls
<1>3. ModeOK'
  BY <1>2 DEF DataOK, ModeOK
<1> QED BY <1>1, <1>2, <1>3, OnlyLists DEF DataClients

-----------------------------------------------------------------------------
(* _complete_io *)

LEMMA CompletionData ==
  ASSUME SafeInv, DataOK, DataClients, Completion
  PROVE  DataOK'
<1>1. PICK io \in inflight, success \in BOOLEAN :
        (success \/ io.dir \in Faults) /\ complete_io(io, success)
  BY DEF Completion
<1>2. PICK f, b, k : f = io.frame /\ b = blocks[f] /\ k = b.key
  OBVIOUS
<1>3. TypeOK /\ f \in Frames /\ b \in Blocks /\ io.secs \in SUBSET Sectors
      /\ blocks \in [Frames -> Blocks] /\ good \in [Frames -> SUBSET Sectors]
      /\ unsaved \in [Keys -> SUBSET Sectors]
  BY <1>2 DEF SafeInv, TypeInv, TypeOK, Ios
<1>4. PICK on, pos, out : Safe(on, pos, out)
  BY DEF SafeInv
<1>5. b.pending /\ b.ref_count = 0
  BY <1>2, <1>3, FlightFacts DEF Blocks
<1>6. call.pc \in {"wait_all", "wait_block", "wait_written", "wait_io"}
  BY <1>1 DEF complete_io, InWait
<1>7. /\ k \in Keys /\ rtree[k] = f /\ \A j \in Keys : rtree[j] = f => j = k
      /\ io.key = k /\ io.dir = b.io_dir
  <2>1. k \in Keys /\ rtree[k] = f
    BY <1>2, <1>3, <1>5, <1>6, UsedFacts DEF DataClients
  <2>2. io.key = k /\ io.dir = b.io_dir
    BY <1>2, <1>4 DEF Safe, IosOK
  <2> QED BY <1>3, <2>1, <2>2, CachedFacts DEF DataClients
<1>8. /\ b.io_count > 0 /\ b.io_count \in Nat
      /\ b.io_count = 1 => InFlight(f) = {io}
  <2>1. /\ IsFiniteSet(InFlight(f)) /\ b.io_count = Cardinality(InFlight(f))
        /\ io \in InFlight(f)
    BY <1>2, <1>3, <1>4 DEF Safe, IosOK, InFlight
  <2>2. /\ Cardinality(InFlight(f)) \in Nat /\ Cardinality(InFlight(f)) # 0
        /\ Cardinality(InFlight(f) \ {io}) = Cardinality(InFlight(f)) - 1
        /\ IsFiniteSet(InFlight(f) \ {io})
    BY <2>1, FS_CardinalityType, FS_EmptySet, FS_RemoveElement
  <2>3. b.io_count = 1 => InFlight(f) \ {io} = {}
    BY <2>1, <2>2, FS_EmptySet
  <2> QED BY <2>1, <2>2, <2>3
<1>9. PICK failed \in BOOLEAN : failed <=> b.error \/ ~success
  OBVIOUS
<1>10. /\ call' = [call EXCEPT !.batch = TRUE]
       /\ blocks' = IF b.io_count > 1
                    THEN [blocks EXCEPT ![f].io_count = @ - 1, ![f].error = b.error \/ ~success]
                    ELSE [blocks EXCEPT ![f].io_count = 0, ![f].error = b.error \/ ~success,
                                        ![f].pending = FALSE,
                                        ![f].dirty_bits = DirtyAfter(b, b.error \/ ~success)]
       /\ inflight' = inflight \ {io} /\ rtree' = rtree /\ wmask' = wmask
       /\ good' = IF success /\ io.dir = "read"
                  THEN [good EXCEPT ![f] = Sectors \ unsaved[k]] ELSE good
       /\ unsaved' = IF success /\ io.dir = "write"
                     THEN [unsaved EXCEPT ![k] = @ \ (io.secs \cap good[f])] ELSE unsaved
  BY <1>1, <1>2, <1>7, <1>8 DEF complete_io
<1>11. /\ \A g \in Frames \ {f} : blocks'[g] = blocks[g] /\ good'[g] = good[g]
       /\ blocks'[f].io_dir = b.io_dir /\ blocks'[f].ref_count = b.ref_count
       /\ blocks'[f].error <=> failed
       /\ b.io_count > 1 => blocks'[f].pending /\ blocks'[f].dirty_bits = b.dirty_bits
       /\ b.io_count = 1 => /\ ~blocks'[f].pending /\ blocks'[f].io_count = 0
                            /\ blocks'[f].dirty_bits = IF failed THEN b.dirty_bits ELSE {}
  <2>1. \A g \in Frames \ {f} : blocks'[g] = blocks[g] /\ good'[g] = good[g]
    BY <1>3, <1>10
  <2>2. CASE b.io_count > 1
    <3>1. blocks'[f] = [b EXCEPT !.io_count = @ - 1, !.error = b.error \/ ~success]
      BY <1>2, <1>3, <1>10, <2>2
    <3> QED BY <1>3, <1>5, <1>9, <2>1, <2>2, <3>1 DEF Blocks
  <2>3. CASE b.io_count = 1
    <3>1. blocks'[f] = [b EXCEPT !.io_count = 0, !.error = b.error \/ ~success,
                                 !.pending = FALSE,
                                 !.dirty_bits = DirtyAfter(b, b.error \/ ~success)]
      <4>1. PICK d, e : d = DirtyAfter(b, b.error \/ ~success) /\ e = (b.error \/ ~success)
        OBVIOUS
      <4>2. blocks' = [blocks EXCEPT ![f].io_count = 0, ![f].error = e, ![f].pending = FALSE,
                                     ![f].dirty_bits = d]
        BY <1>10, <2>3, <4>1
      <4>3. blocks'[f] = [b EXCEPT !.io_count = 0, !.error = e, !.pending = FALSE,
                                   !.dirty_bits = d]
        BY <1>2, <1>3, <4>2
      <4> QED BY <4>1, <4>3
    <3> QED BY <1>3, <1>9, <2>1, <2>3, <3>1 DEF Blocks, DirtyAfter
  <2> QED BY <1>8, <2>2, <2>3
<1>12. /\ \A j \in Keys \ {k} : unsaved'[j] = unsaved[j]
       /\ good'[f] = IF success /\ b.io_dir = "read" THEN Sectors \ unsaved[k] ELSE good[f]
       /\ unsaved'[k] = IF success /\ b.io_dir = "write"
                        THEN unsaved[k] \ (io.secs \cap good[f]) ELSE unsaved[k]
  BY <1>3, <1>7, <1>10
<1>13. /\ \A g \in Frames \ {f} : InFlight(g)' = InFlight(g)
       /\ InFlight(f)' = InFlight(f) \ {io}
  BY <1>2, <1>10 DEF InFlight
<1>14. /\ call'.pc = call.pc /\ call'.mode = call.mode /\ call'.f = call.f
  BY <1>3, <1>10 DEF TypeOK, Calls
<1>15. DataOf(k, f) /\ FrameData(f) /\ wmask[f] = {} /\ good[f] \in SUBSET Sectors
       /\ b.io_dir \in {"read", "write"}
  BY <1>2, <1>3, <1>5, <1>6, <1>7, HeadFacts DEF DataOK, TreeData, FrameData, Blocks
<1>16. b.io_dir = "read" => unsaved[k] = {} /\ b.dirty_bits = {}
  BY <1>2, <1>5, <1>15 DEF DataOf
<1>17. b.io_dir = "write" => good[f] = Sectors /\ (~b.error => Covered(k, f))
  BY <1>2, <1>5, <1>8, <1>15 DEF DataOf
<1>18. FrameData(f)'
  BY <1>5, <1>10, <1>11, <1>15 DEF FrameData
<1>19. DataOf(k, f)'
  <2>1. CASE b.io_dir = "read"
    <3>1. /\ unsaved'[k] = {} /\ blocks'[f].dirty_bits = {} /\ blocks'[f].io_dir = "read"
          /\ success => good'[f] = Sectors
      BY <1>8, <1>11, <1>12, <1>16, <2>1
    <3>2. ~blocks'[f].error => success
      BY <1>9, <1>11
    <3> QED BY <3>1, <3>2 DEF DataOf
  <2>2. CASE b.io_dir = "write"
    <3>1. /\ good'[f] = Sectors /\ blocks'[f].io_dir = "write"
          /\ unsaved'[k] = IF success THEN unsaved[k] \ io.secs ELSE unsaved[k]
      BY <1>3, <1>11, <1>12, <1>17, <2>2
    <3>2. ASSUME ~failed PROVE success /\ Covered(k, f)'
      <4>1. success /\ Covered(k, f)
        BY <1>9, <1>17, <2>2, <3>2
      <4> QED BY <1>13, <3>1, <4>1 DEF Covered
    <3>3. unsaved'[k] \subseteq blocks'[f].dirty_bits
      <4>1. unsaved'[k] \subseteq b.dirty_bits
        BY <1>2, <1>15, <3>1 DEF DataOf
      <4>2. CASE b.io_count = 1 /\ ~failed
        <5>1. InFlight(f)' = {} /\ Covered(k, f)'
          BY <1>8, <1>13, <3>2, <4>2
        <5> QED BY <5>1 DEF Covered
      <4> QED BY <1>8, <1>11, <4>1, <4>2
    <3>4. Zeroes => ~failed
      <4>1. Zeroes => ~b.error /\ success
        BY <1>1, <1>2, <1>7, <1>15, <2>2 DEF DataOf, DataClients
      <4> QED BY <1>9, <4>1
    <3> QED BY <1>11, <3>1, <3>2, <3>3, <3>4 DEF DataOf
  <2> QED BY <1>15, <2>1, <2>2
<1>20. ModeOK'
  BY <1>14 DEF DataOK, ModeOK
<1>21. WrittenOK'
  <2>1. CASE call.f = f
    <3>1. ~blocks'[f].pending /\ ~blocks'[f].error => blocks'[f].dirty_bits = {}
      BY <1>8, <1>11
    <3> QED BY <1>14, <2>1, <3>1 DEF WrittenOK
  <2>2. CASE call.f # f
    <3>1. call.pc = "wait_written" => call.f \in Frames
      BY DEF SafeInv, TypeInv, CallOK
    <3> QED BY <1>11, <1>14, <2>2, <3>1 DEF DataOK, WrittenOK
  <2> QED BY <2>1, <2>2
<1> QED BY <1>3, <1>6, <1>7, <1>10, <1>11, <1>12, <1>13, <1>18, <1>19, <1>20, <1>21, OneFrame
        DEF DataClients

-----------------------------------------------------------------------------
(* The invariant holds initially and is kept by every step *)

LEMMA InitData ==
  ASSUME Init
  PROVE  DataOK
<1>1. /\ \A k \in Keys : rtree[k] = NoFrame /\ unsaved[k] = {}
      /\ \A f \in Frames : wmask[f] = {} /\ blocks[f].ref_count = 0
      /\ call.mode = ReadMode /\ call.pc = "idle"
  BY DEF Init, Idle, NewBlockOf
<1> QED BY <1>1 DEF DataOK, TreeData, FrameData, ModeOK, WrittenOK

LEMMA NextData ==
  ASSUME DataInv, DataClients, [Next]_vars
  PROVE  DataInv'
<1> USE DEF DataInv
<1>1. SafeInv'
  BY NextSafe DEF DataClients
<1>2. CASE Client
  BY <1>1, <1>2, StartData, PutData DEF Client
<1>3. CASE Step
  <2>1. CASE waited_all
    BY <1>1, <2>1, QuietData, DestroyData
  <2>2. CASE writeback_v \/ invalidate_v \/ remove_prefix
    BY <1>1, <2>2, WritebackVData, InvalidateVData, RemovePrefixData
  <2> QED BY <1>1, <1>3, <2>1, <2>2, QuietData, ScanData, NewBlockData, FinishGetData,
          WritebackData, FlushData, InvalidateData, CompletionData DEF Step
<1>4. CASE UNCHANGED vars
  <2>1. UNCHANGED <<blocks, rtree, inflight, call, good, unsaved, wmask>>
    BY <1>4 DEF vars
  <2>2. DataOK'
    BY <2>1 DEF DataOK, TreeData, DataOf, Covered, Filling, InFlight, FrameData, ModeOK,
                WrittenOK
  <2> QED BY <1>1, <2>2
<1> QED BY <1>2, <1>3, <1>4 DEF Next, Destroyed

LEMMA DataInductive ==
  ASSUME DataClients
  PROVE  Spec => []DataInv
<1>1. Init => DataInv
  BY InitSafe, InitData DEF DataInv
<1>2. DataInv /\ [Next]_vars => DataInv'
  BY NextData
<1> QED BY <1>1, <1>2, PTL DEF Spec

\* What is unsaved of a block is in the frame the tree has for it, whatever
\* the state of the frame.
LEMMA UnsavedFacts ==
  ASSUME DataInv, DataClients, call.pc # "destroyed", NEW k \in Keys, unsaved[k] # {}
  PROVE  /\ Cached(k) /\ rtree[k] \in Frames
         /\ unsaved[k] \subseteq blocks[rtree[k]].dirty_bits
         /\ blocks[rtree[k]].dirty_bits # {} /\ good[rtree[k]] = Sectors
<1>1. PICK f : f = rtree[k]
  OBVIOUS
<1>2. f # NoFrame /\ DataOf(k, f)
  BY <1>1 DEF DataInv, DataOK, TreeData
<1>3. f \in Frames
  BY <1>1, <1>2, CachedFacts DEF DataInv, DataClients
<1> QED BY <1>1, <1>2, <1>3 DEF DataOf, Cached

-----------------------------------------------------------------------------
(* The theorems *)

\* What a client wrote to a block is in the cache and marked dirty until it is
\* on the disk: evictions, failed and partial writebacks and invalidated blocks
\* lose nothing.
THEOREM WritesAreKept ==
  ASSUME DataClients
  PROVE  Spec => []NoLostWrite
<1>1. DataInv => NoLostWrite
  <2> SUFFICES ASSUME DataInv, call.pc # "destroyed", NEW k \in Keys, unsaved[k] # {}
               PROVE  /\ Cached(k)
                      /\ unsaved[k] \subseteq good[rtree[k]] \cap blocks[rtree[k]].dirty_bits
    BY DEF NoLostWrite
  <2>1. unsaved[k] \subseteq Sectors
    BY DEF DataInv, SafeInv, TypeInv, TypeOK
  <2> QED BY <2>1, UnsavedFacts
<1> QED BY <1>1, DataInductive, PTL

\* All the data a client sees in a block that it holds is the last data of the
\* block.
THEOREM HeldDataIsGood ==
  ASSUME DataClients
  PROVE  Spec => []HoldersSeeData
<1>1. DataInv => HoldersSeeData
  BY DEF DataInv, DataOK, FrameData, HoldersSeeData, Held
<1> QED BY <1>1, DataInductive, PTL

\* What the end of each call that claims to have saved data knows of it.
LEMMA FlushSaves ==
  ASSUME DataClients, DataInv, Next, Returns("flush", TRUE), NEW k \in Keys, unsaved'[k] # {}
  PROVE  FALSE
<1>1. PICK on, pos, out : Safe(on, pos, out)
  BY DEF DataInv, SafeInv
<1>2. TypeOK /\ call.op = "flush" /\ call.pc # "idle" /\ call'.pc = "idle" /\ call'.ret = TRUE
  BY DEF Returns, DataInv, SafeInv, TypeInv
<1>3. call.pc \in {"flush", "wait_all", "destroyed"}
  BY <1>1, <1>2 DEF Safe, PlaceOK, TypeOK, Calls, Pcs
<1>4. waited_all /\ call.pc = "wait_all"
  <2>1. ~Client
    BY <1>2 DEF Client, io_get_block_mask, io_prefetch_block, io_invalidate_block,
                io_invalidate_dev, io_put_block, io_flush, io_invalidate_all,
                io_manager_destroy, MayStart
  <2>2. ~Destroyed
    BY <1>2 DEF Destroyed, vars
  <2>3. ~flush
    <3>1. flush => call' \in {call, At("wait_all"), At("undefined"), At("abort")}
      BY DEF flush, issue_write, issue
    <3> QED BY <1>2, <3>1, CallFields
  <2>4. ~Completion
    <3>1. Completion => call' \in {[call EXCEPT !.batch = TRUE], At("abort")}
      BY DEF Completion, complete_io
    <3>2. [call EXCEPT !.batch = TRUE].pc = call.pc /\ At("abort").pc = "abort"
      BY <1>2 DEF TypeOK, Calls, At
    <3> QED BY <1>2, <3>1, <3>2
  <2> QED BY <1>3, <2>1, <2>2, <2>3, <2>4
          DEF Next, Step, alloc_block, evict, find_unused_clean_block, new_block,
              finish_get, writeback, invalidate_block, writeback_v, writeback_v_done,
              invalidate_v, remove_prefix, waited_io, waited_block, waited_written,
              waited_all, Waited
<1>5. /\ list_empty(lists, errored) /\ list_empty(lists, io_pending)
      /\ unsaved'[k] = unsaved[k]
  <2>1. list_empty(lists, io_pending) /\ unsaved' = unsaved
        /\ call' = Return(list_empty(lists, errored))
    BY <1>2, <1>4 DEF waited_all, Waited, Waiting, ghosts
  <2>2. call'.ret = list_empty(lists, errored)
    BY <2>1 DEF Return, Idle
  <2> QED BY <1>2, <2>1, <2>2
<1>6. PICK f : f = rtree[k]
  OBVIOUS
<1>7. f \in Frames /\ blocks[f].dirty_bits # {} /\ f # NoFrame
  BY <1>4, <1>5, <1>6, UnsavedFacts, HeadFacts
<1>8. out = {}
  BY <1>1, <1>4, NothingInHand DEF Safe
<1>9. on[f] # free /\ on[f] # clean /\ on[f] # dirty
  BY <1>1, <1>2, <1>4, <1>6, <1>7, <1>8, HeadFacts
     DEF Safe, TreeOK, InUse, Freed, FramesOK, PlaceOK, DataClients
<1>10. on[f] # errored /\ on[f] # io_pending
  <2>1. f \in Nodes \ out /\ f # errored /\ f # io_pending
    BY <1>7, <1>8, HeadFacts
  <2> QED BY <1>1, <1>5, <2>1, HeadFacts, EmptyChained DEF Safe
<1> QED BY <1>1, <1>7, <1>9, <1>10, HeadFacts DEF Safe, Chained, Heads

\* When io_flush returns true all data is on the disk.
THEOREM FlushTells ==
  ASSUME DataClients
  PROVE  Spec => FlushTruth
<1>1. DataInv /\ [Next]_vars =>
        [Returns("flush", TRUE) =>
           \A k \in Keys : unsaved'[k] # {} => Cached(k) /\ rtree[k] \in Held]_vars
  BY FlushSaves
<1> QED BY <1>1, DataInductive, PTL DEF Spec, FlushTruth

LEMMA BlockSaved ==
  ASSUME DataClients, DataInv, Next, Returns("invalidate_block", TRUE)
  PROVE  unsaved'[call.key] = {} /\ rtree'[call.key] = NoFrame
<1>1. PICK on, pos, out : Safe(on, pos, out)
  BY DEF DataInv, SafeInv
<1>2. /\ TypeOK /\ call.op = "invalidate_block" /\ call.pc # "idle"
      /\ call'.pc = "idle" /\ call'.ret = TRUE
  BY DEF Returns, DataInv, SafeInv, TypeInv
<1>3. call.pc \in {"wait_block", "invalidate", "wait_written", "destroyed"}
  BY <1>1, <1>2 DEF Safe, PlaceOK, TypeOK, Calls, Pcs
<1>4. invalidate_block \/ waited_written
  <2>1. ~Client
    BY <1>2 DEF Client, io_get_block_mask, io_prefetch_block, io_invalidate_block,
                io_invalidate_dev, io_put_block, io_flush, io_invalidate_all,
                io_manager_destroy, MayStart
  <2>2. ~Destroyed
    BY <1>2 DEF Destroyed, vars
  <2>3. ~waited_block
    BY <1>2, CallFields DEF waited_block
  <2>4. ~Completion
    <3>1. Completion => call' \in {[call EXCEPT !.batch = TRUE], At("abort")}
      BY DEF Completion, complete_io
    <3>2. [call EXCEPT !.batch = TRUE].pc = call.pc /\ At("abort").pc = "abort"
      BY <1>2 DEF TypeOK, Calls, At
    <3> QED BY <1>2, <3>1, <3>2
  <2> QED BY <1>3, <2>1, <2>2, <2>3, <2>4
          DEF Next, Step, alloc_block, evict, find_unused_clean_block, new_block,
              finish_get, writeback, flush, writeback_v, writeback_v_done,
              invalidate_v, remove_prefix, waited_io, waited_all, Waited
<1> QED BY <1>2, <1>4, InvalidateData DEF DataInv

LEMMA DeviceSaved ==
  ASSUME DataClients, DataInv, Next, Returns("invalidate_dev", TRUE)
  PROVE  \A k \in Keys : DevOf[k] = DevOf[call.key] =>
           unsaved'[k] = {} /\ rtree'[k] = NoFrame
<1>1. PICK on, pos, out : Safe(on, pos, out)
  BY DEF DataInv, SafeInv
<1>2. /\ TypeOK /\ call.op = "invalidate_dev" /\ call.pc # "idle"
      /\ call'.pc = "idle" /\ call'.ret = TRUE
  BY DEF Returns, DataInv, SafeInv, TypeInv
<1>3. call.pc \in {"writeback_v", "wait_all", "invalidate_v"}
  BY <1>1, <1>2 DEF Safe, TreeOK, Emptying, DataClients
<1>4. remove_prefix
  <2>1. ~Client
    BY <1>2 DEF Client, io_get_block_mask, io_prefetch_block, io_invalidate_block,
                io_invalidate_dev, io_put_block, io_flush, io_invalidate_all,
                io_manager_destroy, MayStart
  <2>2. ~Destroyed
    BY <1>2 DEF Destroyed, vars
  <2>3. ~writeback_v
    <3>1. \A k : [call EXCEPT !.todo = @ \ {k}].pc = call.pc
      BY <1>2 DEF TypeOK, Calls
    <3>2. writeback_v => \/ call' = At("abort")
                         \/ \E k : call' = [call EXCEPT !.todo = @ \ {k}]
      BY DEF writeback_v, issue_write, issue
    <3>3. CASE call' = At("abort")
      <4>1. At("abort").pc = "abort"
        BY <1>2, CallFields
      <4> QED BY <1>2, <3>3, <4>1
    <3>4. ASSUME NEW k, call' = [call EXCEPT !.todo = @ \ {k}] PROVE FALSE
      <4>1. call'.pc = call.pc
        BY <3>1, <3>4
      <4> QED BY <1>2, <4>1
    <3> QED BY <3>2, <3>3, <3>4
  <2>4. ~writeback_v_done
    BY <1>2, CallFields DEF writeback_v_done
  <2>5. ~invalidate_v
    <3>1. invalidate_v => \E k, r : call' = [call EXCEPT !.todo = @ \ {k}, !.ret = r]
      BY DEF invalidate_v
    <3> QED BY <1>2, <3>1 DEF TypeOK, Calls
  <2>6. ~Completion
    <3>1. Completion => call' \in {[call EXCEPT !.batch = TRUE], At("abort")}
      BY DEF Completion, complete_io
    <3>2. [call EXCEPT !.batch = TRUE].pc = call.pc /\ At("abort").pc = "abort"
      BY <1>2 DEF TypeOK, Calls, At
    <3> QED BY <1>2, <3>1, <3>2
  <2>7. ~waited_all
    <3>1. waited_all => call' = [At("invalidate_v") EXCEPT !.todo = CachedOf(DevOf[call.key])]
      BY <1>2 DEF waited_all
    <3> QED BY <1>2, <3>1 DEF At, TypeOK, Calls
  <2> QED BY <1>3, <2>1, <2>2, <2>3, <2>4, <2>5, <2>6, <2>7
          DEF Next, Step, alloc_block, evict, find_unused_clean_block, new_block,
              finish_get, writeback, flush, invalidate_block, waited_io,
              waited_block, waited_written, Waited
<1> QED BY <1>4, RemovePrefixData DEF DataInv

\* When io_invalidate_block returns true the block has left the cache and all
\* its data is on the disk; when io_invalidate_dev does, so have all blocks of
\* the device.
THEOREM InvalidateTells ==
  ASSUME DataClients
  PROVE  Spec => InvalidateTruth
<1>1. DataInv /\ [Next]_vars =>
        [/\ Returns("invalidate_block", TRUE) =>
              unsaved'[call.key] = {} /\ rtree'[call.key] = NoFrame
         /\ Returns("invalidate_dev", TRUE) =>
              \A k \in Keys : DevOf[k] = DevOf[call.key] =>
                unsaved'[k] = {} /\ rtree'[k] = NoFrame]_vars
  BY BlockSaved, DeviceSaved
<1> QED BY <1>1, DataInductive, PTL DEF Spec, InvalidateTruth

-----------------------------------------------------------------------------
(* The books *)

LEMMA FramesFinite == IsFiniteSet(Frames) /\ Cardinality(Frames) = NrCacheBlocks
<1>1. IsFiniteSet(1 .. NrCacheBlocks) /\ Cardinality(1 .. NrCacheBlocks) = NrCacheBlocks
  BY FS_Interval, SizeAssumption
<1> QED BY <1>1 DEF Frames

-----------------------------------------------------------------------------
(* What the properties read from the lists is what the invariant says.     *)

LEMMA OnListIs ==
  ASSUME NEW on, NEW pos, NEW out, Chained(lists, Nodes, Heads, out, on, pos),
         NEW h \in Heads
  PROVE  OnList(h) = {f \in Frames \ out : on[f] = h}
<1>1. NrCacheBlocks \in Nat /\ IsFiniteSet(Nodes \ Heads)
      /\ Cardinality(Nodes \ Heads) <= NrCacheBlocks
  BY SizeAssumption, HeadFacts, FramesFinite
<1>2. OnList(h) = {x \in Nodes \ (Heads \cup out) : on[x] = h}
  BY <1>1, MembersChained DEF OnList
<1> QED BY <1>2, HeadFacts

LEMMA OffListsIs ==
  ASSUME TypeInv, NEW on, NEW pos, NEW out, Safe(on, pos, out)
  PROVE  OffLists = out
<1>1. \A f \in Frames \ out : lists.n[f] # f
  BY HeadFacts DEF Safe, Chained, ListMemory
<1>2. OffLists \subseteq out
  BY <1>1 DEF OffLists, Safe, HandOK
<1>3. out \subseteq OffLists
  BY DEF OffLists, Safe, HandOK, TypeInv, CallOK
<1> QED BY <1>2, <1>3

\* The labels of the invariant say what a walk along the pointers finds.
LEMMA SafeLists ==
  ASSUME SafeInv, FlushesWork
  PROVE  ListsOK
<1>1. PICK on, pos, out : Safe(on, pos, out)
  BY DEF SafeInv
<1>2. OffLists = out
  BY <1>1, OffListsIs DEF SafeInv
<1>3. \A h \in Heads : OnList(h) = {f \in Frames \ out : on[f] = h}
  BY <1>1, OnListIs DEF Safe
<1>4. \A x \in Nodes \ out : Linked(lists, x)
  BY <1>1 DEF Safe, Chained, Linked, ListMemory
<1>5. \A f \in Frames \ out : \E head \in Heads :
        \A h \in Heads : f \in OnList(h) <=> h = head
  BY <1>1, <1>3, HeadFacts DEF Safe, Chained
<1>6. OnList(io_pending) = {f \in Frames : blocks[f].pending}
  BY <1>1, <1>3, HeadFacts DEF Safe, FramesOK
<1>7. \A f \in OnList(clean) : blocks[f].dirty_bits = {}
  BY <1>1, <1>3, HeadFacts DEF Safe, FramesOK
<1>8. \A f \in OnList(dirty) : blocks[f].dirty_bits # {}
  BY <1>1, <1>3, HeadFacts DEF Safe, FramesOK, Filed
<1>9. \A f \in OnList(errored) : blocks[f].error
  BY <1>1, <1>3, HeadFacts DEF Safe, FramesOK, Filed
<1> QED BY <1>2, <1>4, <1>5, <1>6, <1>7, <1>8, <1>9 DEF ListsOK

\* The lists are well linked and share no frame; one frame at most, the one a
\* call has in hand, is on none; and each list holds the blocks it is for.
THEOREM ListsInOrder ==
  ASSUME QuietClients, FlushesWork
  PROVE  Spec => []ListsOK
<1>1. SafeInv => ListsOK
  BY SafeLists
<1> QED BY <1>1, SafeInductive, PTL

LEMMA SafeTree ==
  ASSUME SafeInv, TreeStays
  PROVE  OneFramePerBlock
<1>1. PICK on, pos, out : Safe(on, pos, out)
  BY DEF SafeInv
<1>2. OnList(free) = {f \in Frames \ out : on[f] = free}
  BY <1>1, HeadFacts, OnListIs DEF Safe
<1>3. TreeOK(on, out) /\ HandOK(out)
  BY <1>1 DEF Safe
<1>4. ASSUME NEW f \in Frames \ OnList(free), ~(call.pc = "new_block" /\ f = call.f)
      PROVE  InUse(f, on, out)
  BY <1>2, <1>3, <1>4 DEF InUse, HandOK
<1>5. ASSUME NEW k \in Keys, Cached(k)
      PROVE  /\ blocks[rtree[k]].key = k
             /\ call.pc # "invalidate_v" => rtree[k] \notin OnList(free)
  <2>1. blocks[rtree[k]].key = k /\ (InUse(rtree[k], on, out) \/ Freed(k))
    BY <1>3, <1>5 DEF TreeOK, Cached
  <2>2. call.pc # "invalidate_v" => rtree[k] \notin OnList(free)
    BY <1>2, <2>1 DEF InUse, Freed
  <2> QED BY <2>1, <2>2
<1> QED BY <1>3, <1>4, <1>5 DEF OneFramePerBlock, TreeOK

\* A block has one frame, which is not on the free list.
THEOREM OneFrameForABlock ==
  ASSUME QuietClients, TreeStays
  PROVE  Spec => []OneFramePerBlock
<1>1. SafeInv => OneFramePerBlock
  BY SafeTree
<1> QED BY <1>1, SafeInductive, PTL

\* Only the end of io_manager_destroy's wait destroys the manager.
LEMMA DestroyedBy ==
  ASSUME TypeOK, Next, call'.pc = "destroyed", call.pc # "destroyed"
  PROVE  waited_all /\ call.op = "destroy"
<1>1. /\ \A r : Return(r).pc # "destroyed"
      /\ \A p : At(p).pc = p
      /\ \A p, x : [At(p) EXCEPT !.f = x].pc = p
      /\ \A x : [call EXCEPT !.node = x].pc = call.pc
  BY CallFields
<1>2. ASSUME Client PROVE FALSE
  <2>1. ASSUME NEW k \in Keys, NEW readonly \in BOOLEAN, NEW m \in GetModes,
               io_get_block_mask(k, readonly, m)
        PROVE  FALSE
    <3>1. CASE GetRefused(k, readonly, m)
      BY <1>1, <2>1, <3>1 DEF io_get_block_mask
    <3>2. CASE ~GetRefused(k, readonly, m)
      BY <2>1, <3>2 DEF io_get_block_mask, Start, Idle
    <3> QED BY <3>1, <3>2
  <2>2. ASSUME NEW f \in Frames, io_put_block(f) PROVE FALSE
    BY <2>2 DEF io_put_block, Start, Return, Idle
  <2>3. CASE \/ \E k \in Keys : \/ io_prefetch_block(k) \/ io_invalidate_block(k)
                               \/ io_invalidate_dev(k)
             \/ io_flush \/ io_invalidate_all \/ io_manager_destroy
    BY <2>3 DEF io_prefetch_block, io_invalidate_block, io_invalidate_dev, io_flush,
          io_invalidate_all, io_manager_destroy, Start, Idle
  <2> QED BY <1>2, <2>1, <2>2, <2>3 DEF Client
<1>3. ASSUME NEW l, NEW f, NEW b, NEW d, NEW next, issue(l, f, b, d, next),
             next.pc # "destroyed"
      PROVE  FALSE
  BY <1>1, <1>3 DEF issue
<1>4. ASSUME NEW l, NEW f, NEW next, issue_write(l, f, next), next.pc # "destroyed"
      PROVE  FALSE
  BY <1>3, <1>4 DEF issue_write
<1>5. ASSUME alloc_block \/ evict PROVE FALSE
  <2>1. CASE alloc_block /\ list_empty(lists, free)
    BY <1>1, <2>1 DEF alloc_block
  <2>2. CASE alloc_block /\ ~list_empty(lists, free)
    BY <2>2 DEF alloc_block, At, TypeOK, Calls
  <2>3. CASE evict
    BY <2>3 DEF evict, At, Return, Idle, TypeOK, Calls
  <2> QED BY <1>5, <2>1, <2>2, <2>3
<1>6. ASSUME find_unused_clean_block PROVE FALSE
  <2>1. CASE call.node \in Frames
    BY <1>6, <2>1 DEF find_unused_clean_block, At, TypeOK, Calls
  <2>2. CASE call.node \notin Frames /\ Lost(call.node, clean)
    BY <1>6, <2>2 DEF find_unused_clean_block, At, TypeOK, Calls
  <2>3. CASE call.node \notin Frames /\ ~Lost(call.node, clean)
    <3>1. CASE call.op = "prefetch"
      BY <1>6, <2>3, <3>1 DEF find_unused_clean_block, Return, Idle
    <3>2. CASE call.op # "prefetch"
      BY <1>6, <2>3, <3>2 DEF find_unused_clean_block, At, TypeOK, Calls
    <3> QED BY <3>1, <3>2
  <2> QED BY <2>1, <2>2, <2>3
<1>7. ASSUME new_block PROVE FALSE
  <2>1. PICK next : next \in {Return(TRUE), At("wait_block")}
                    /\ (\/ \E l, b : issue(l, call.f, b, "read", next)
                        \/ call' = At("finish_get"))
    BY <1>7 DEF new_block
  <2> QED BY <1>1, <1>3, <2>1
<1>8. ASSUME finish_get PROVE FALSE
  <2>1. call' \in {Return(FALSE), Return(TRUE)}
    BY <1>8 DEF finish_get
  <2> QED BY <1>1, <2>1
<1>9. ASSUME writeback PROVE FALSE
  <2>1. \A x : [[call EXCEPT !.node = x] EXCEPT !.left = @ - 1].pc = call.pc
    BY DEF TypeOK, Calls
  <2>2. CASE call.node \in Frames /\ call.left # 0 /\ Unused(call.node) /\ call.node # dirty
    <3>1. PICK next, c : /\ next = [call EXCEPT !.node = lists.n[call.node]]
                         /\ c = [next EXCEPT !.left = @ - 1]
      OBVIOUS
    <3>2. issue_write(lists, call.node, c)
      BY <1>9, <2>2, <3>1 DEF writeback
    <3> QED BY <1>4, <2>1, <3>1, <3>2
  <2>3. CASE ~(call.node \in Frames /\ call.left # 0 /\ Unused(call.node) /\ call.node # dirty)
    BY <1>1, <1>9, <2>3 DEF writeback
  <2> QED BY <2>2, <2>3
<1>10. ASSUME flush \/ invalidate_block PROVE FALSE
  BY <1>1, <1>4, <1>10 DEF flush, invalidate_block
<1>11. ASSUME writeback_v \/ invalidate_v PROVE FALSE
  <2>1. /\ \A k : [call EXCEPT !.todo = @ \ {k}].pc = call.pc
        /\ \A k, r : [call EXCEPT !.todo = @ \ {k}, !.ret = r].pc = call.pc
    BY DEF TypeOK, Calls
  <2>2. CASE writeback_v
    BY <1>4, <2>1, <2>2 DEF writeback_v
  <2>3. CASE invalidate_v
    BY <2>1, <2>3 DEF invalidate_v
  <2> QED BY <1>11, <2>2, <2>3
<1>12. ASSUME writeback_v_done \/ remove_prefix PROVE FALSE
  BY <1>1, <1>12 DEF writeback_v_done, remove_prefix
<1>13. ASSUME Completion PROVE FALSE
  <2>1. call' \in {[call EXCEPT !.batch = TRUE], At("abort")}
    BY <1>13 DEF Completion, complete_io
  <2>2. [call EXCEPT !.batch = TRUE].pc = call.pc
    BY DEF TypeOK, Calls
  <2> QED BY <1>1, <2>1, <2>2
<1>14. ASSUME waited_io \/ waited_block \/ waited_written PROVE FALSE
  BY <1>1, <1>14 DEF waited_io, waited_block, waited_written
<1>15. ~Destroyed
  BY DEF Destroyed
<1>16. ASSUME waited_all, call.op # "destroy" PROVE FALSE
  <2>1. \A x : [At("invalidate_v") EXCEPT !.todo = x].pc = "invalidate_v"
    BY DEF At, TypeOK, Calls
  <2> QED BY <1>1, <1>16, <2>1 DEF waited_all
<1> QED BY <1>2, <1>5, <1>6, <1>7, <1>8, <1>9, <1>10, <1>11, <1>12, <1>13, <1>14, <1>15, <1>16
        DEF Next, Step

LEMMA AllSaved ==
  ASSUME DataClients, DataInv, Next, call'.pc = "destroyed", call.pc # "destroyed",
         NEW k \in Keys, unsaved[k] # {}
  PROVE  rtree[k] \in OnList(errored)
<1>1. PICK on, pos, out : Safe(on, pos, out)
  BY DEF DataInv, SafeInv
<1>2. TypeOK
  BY DEF DataInv, SafeInv, TypeInv
<1>3. waited_all /\ call.op = "destroy"
  BY <1>2, DestroyedBy
<1>4. call.pc = "wait_all" /\ list_empty(lists, io_pending) /\ out = {}
  BY <1>1, <1>3, NothingInHand DEF waited_all, Waited, Waiting, Safe
<1>5. PICK f : f = rtree[k]
  OBVIOUS
<1>6. f \in Frames /\ blocks[f].dirty_bits # {} /\ f # NoFrame
  BY <1>4, <1>5, UnsavedFacts, HeadFacts
<1>7. on[f] # free /\ on[f] # clean /\ on[f] # dirty
  BY <1>1, <1>2, <1>3, <1>4, <1>5, <1>6, HeadFacts
     DEF Safe, TreeOK, InUse, Freed, FramesOK, PlaceOK, DataClients
<1>8. on[f] # io_pending
  <2>1. f \in Nodes \ out /\ f # io_pending
    BY <1>4, <1>6, HeadFacts
  <2> QED BY <1>1, <1>4, <2>1, HeadFacts, EmptyChained DEF Safe
<1>9. on[f] = errored
  BY <1>1, <1>6, <1>7, <1>8, HeadFacts DEF Safe, Chained, Heads
<1> QED BY <1>1, <1>4, <1>5, <1>6, <1>9, HeadFacts, OnListIs DEF Safe

\* When io_manager_destroy drops the cache, data that is not on the disk is
\* only in blocks whose last writeback failed.
THEOREM DestroyLosesNothing ==
  ASSUME DataClients
  PROVE  Spec => DestroySaves
<1>1. DataInv /\ [Next]_vars =>
        [call'.pc = "destroyed" /\ call.pc # "destroyed" =>
           \A k \in Keys : unsaved[k] # {} =>
             rtree[k] \in Held \/ rtree[k] \in OnList(errored)]_vars
  BY AllSaved
<1> QED BY <1>1, DataInductive, PTL DEF Spec, DestroySaves

-----------------------------------------------------------------------------
(* The counters                                                            *)

Pending == {f \in Frames : blocks[f].pending}

\* A block is pending as long as ios are in flight for it, and no longer.
CountOK ==
  /\ nr_locked = Cardinality(Held)
  /\ nr_io_pending = Cardinality(Pending)
  /\ \A f \in Frames : blocks[f].pending => blocks[f].io_count > 0

\* _issue counts a block in once, and _complete_io counts it out once for each
\* of its ios that is refused before one is taken (README, section 5).
WholeMasks == \A m \in GetModes : m.type # "read" => m.mask = Sectors
RefusedOnce == "full" \notin Faults \/ WholeMasks

\* Where clients only write whole blocks, a block is written with one io.
WholeOK ==
  WholeMasks =>
    /\ call.pc # "idle" => call.mode \in GetModes \cup {ReadMode}
    /\ \A f \in Frames : blocks[f].dirty_bits \in {{}, Sectors}

CountInv == SafeInv /\ CountOK /\ WholeOK

\* The counters are far from wrapping.
LEMMA Unwrapped ==
  ASSUME NEW n \in Nat, n < Width
  PROVE  /\ n + 1 < Width => Plus1(n) = n + 1
         /\ n > 0 => Minus(n, 1) = n - 1
         /\ Minus(n, 0) = n
         /\ n + 1 < Width => Minus(Plus1(n), 1) = n
<1>1. Width \in Nat \ {0}
  BY SizeAssumption
<1>2. ASSUME NEW m \in Nat, m < Width PROVE m % Width = m
  BY <1>1, <1>2
<1>3. n + 1 < Width => Plus1(n) = n + 1
  BY <1>2 DEF Plus1
<1>4. ASSUME n > 0 PROVE Minus(n, 1) = n - 1
  <2>1. n - 1 \in Nat /\ n - 1 < Width
    BY <1>1, <1>4
  <2> QED BY <1>2, <2>1 DEF Minus
<1>5. Minus(n, 0) = n
  BY <1>2 DEF Minus
<1>6. n + 1 < Width => Minus(n + 1, 1) = n
  BY <1>2 DEF Minus
<1> QED BY <1>3, <1>4, <1>5, <1>6

\* One frame more or less in a set of frames.
LEMMA FrameCount ==
  ASSUME NEW S \in SUBSET Frames, NEW f \in Frames
  PROVE  /\ IsFiniteSet(S) /\ Cardinality(S) \in Nat /\ Cardinality(S) < Width
         /\ f \notin S => /\ Cardinality(S \cup {f}) = Cardinality(S) + 1
                         /\ Cardinality(S) + 1 < Width
         /\ f \in S => /\ Cardinality(S \ {f}) = Cardinality(S) - 1
                       /\ Cardinality(S) > 0
<1>1. ASSUME NEW T \in SUBSET Frames
      PROVE  IsFiniteSet(T) /\ Cardinality(T) \in Nat /\ Cardinality(T) < Width
  <2>1. IsFiniteSet(T) /\ Cardinality(T) <= Cardinality(Frames)
    BY FramesFinite, FS_Subset
  <2>2. Cardinality(T) \in Nat
    BY <2>1, FS_CardinalityType
  <2> QED BY <2>1, <2>2, FramesFinite, SizeAssumption
<1>2. IsFiniteSet(S) /\ Cardinality(S) \in Nat /\ Cardinality(S) < Width
  BY <1>1
<1>3. ASSUME f \notin S
      PROVE  Cardinality(S \cup {f}) = Cardinality(S) + 1 /\ Cardinality(S) + 1 < Width
  <2>1. Cardinality(S \cup {f}) = Cardinality(S) + 1
    BY <1>2, <1>3, FS_AddElement
  <2>2. Cardinality(S \cup {f}) < Width
    BY <1>1
  <2> QED BY <2>1, <2>2
<1>4. ASSUME f \in S
      PROVE  Cardinality(S \ {f}) = Cardinality(S) - 1 /\ Cardinality(S) > 0
  <2>1. Cardinality(S \ {f}) = Cardinality(S) - 1
    BY <1>2, <1>4, FS_RemoveElement
  <2>2. Cardinality(S \ {f}) \in Nat
    BY <1>1
  <2> QED BY <1>2, <2>1, <2>2
<1> QED BY <1>2, <1>3, <1>4

\* A step that neither issues, completes, gets nor puts.
LEMMA CountKept ==
  ASSUME CountOK, UNCHANGED <<nr_locked, nr_io_pending>>,
         \A g \in Frames :
           /\ blocks'[g].pending <=> blocks[g].pending
           /\ blocks'[g].io_count > 0 <=> blocks[g].io_count > 0
           /\ blocks'[g].ref_count > 0 <=> blocks[g].ref_count > 0
  PROVE  CountOK'
<1>1. Held' = Held /\ Pending' = Pending
  BY DEF Held, Pending
<1> QED BY <1>1 DEF CountOK

\* What a step makes of the dirty bits of a block.
Writes == IF call.mode.type = "read" THEN {} ELSE call.mode.mask
BitsFollow ==
  \A f \in Frames :
    blocks'[f].dirty_bits \in
      {blocks[f].dirty_bits, {}, blocks[f].dirty_bits \cup Writes}

LEMMA IssueBits ==
  ASSUME TypeOK, NEW f, NEW b, NEW d, NEW l, NEW next, issue(l, f, b, d, next),
         f \in Frames => b \in Blocks /\ b.dirty_bits \in {blocks[f].dirty_bits, {}}
  PROVE  BitsFollow
<1>1. blocks \in [Frames -> Blocks]
  BY DEF TypeOK
<1>2. CASE b.pending \/ b.io_count # 0
  <2>1. blocks' = blocks \/ blocks' = [blocks EXCEPT ![f] = b]
    BY <1>2 DEF issue
  <2> QED BY <1>1, <2>1 DEF BitsFollow
<1>3. CASE ~(b.pending \/ b.io_count # 0)
  <2>1. CASE blocks' = blocks
    BY <2>1 DEF BitsFollow
  <2>2. CASE blocks' # blocks
    <3> DEFINE runs == IF d = "write" THEN Runs(b.dirty_bits) ELSE {Sectors}
               early(ok) == {r \in runs \ ok : \A q \in ok : \A x \in r, y \in q : x < y}
    <3>1. PICK ok \in Taken(runs) :
            blocks' = [blocks EXCEPT ![f] =
                         [b EXCEPT !.io_dir = d,
                                   !.pending = (early(ok) = {}),
                                   !.io_count = Cardinality(ok),
                                   !.error = @ \/ ok # runs]]
      BY <1>3 DEF issue
    <3> HIDE DEF runs, early
    <3>2. f \in Frames => [b EXCEPT !.io_dir = d,
                                   !.pending = (early(ok) = {}),
                                   !.io_count = Cardinality(ok),
                                   !.error = @ \/ ok # runs].dirty_bits = b.dirty_bits
      BY DEF Blocks
    <3> QED BY <1>1, <3>1, <3>2 DEF BitsFollow
  <2> QED BY <2>1, <2>2
<1> QED BY <1>2, <1>3

LEMMA WriteBits ==
  ASSUME TypeOK, NEW f, NEW l, NEW next, issue_write(l, f, next)
  PROVE  BitsFollow
<1>1. f \in Frames => /\ [blocks[f] EXCEPT !.error = FALSE] \in Blocks
                      /\ [blocks[f] EXCEPT !.error = FALSE].dirty_bits = blocks[f].dirty_bits
  BY DEF TypeOK, Blocks
<1> QED BY <1>1, IssueBits DEF issue_write

LEMMA StepBits ==
  ASSUME TypeOK, CallOK, Step
  PROVE  BitsFollow
<1>1. blocks \in [Frames -> Blocks] /\ call \in Calls
  BY DEF TypeOK
<1>2. ASSUME UNCHANGED blocks PROVE BitsFollow
  BY <1>2 DEF BitsFollow
<1>3. CASE new_block
  <2>1. call.f \in Frames /\ call.key \in Keys \cup {NoKey}
    BY <1>1, <1>3 DEF new_block, CallOK, Calls
  <2>2. NewBlockOf(call.key) \in Blocks /\ NewBlockOf(call.key).dirty_bits = {}
    BY <2>1 DEF NewBlockOf, Blocks
  <2>3. CASE MustRead(call.mode)
    <3>1. \E l, next : issue(l, call.f, NewBlockOf(call.key), "read", next)
      BY <1>3, <2>3 DEF new_block
    <3> QED BY <2>2, <3>1, IssueBits
  <2>4. CASE ~MustRead(call.mode)
    <3>1. blocks' = [blocks EXCEPT ![call.f] = NewBlockOf(call.key)]
      BY <1>3, <2>4 DEF new_block
    <3> QED BY <1>1, <2>2, <3>1 DEF BitsFollow
  <2> QED BY <2>3, <2>4
<1>4. CASE finish_get
  <2>1. PICK f, b : f = call.f /\ b = blocks[f]
    OBVIOUS
  <2>2. f \in Frames /\ b \in Blocks
    BY <1>1, <1>4, <2>1 DEF finish_get, CallOK
  <2>3. PICK t : /\ t = IF call.mode.type # "read"
                        THEN [b EXCEPT !.dirty_bits = @ \cup call.mode.mask] ELSE b
                 /\ blocks' \in {[blocks EXCEPT ![f] = t],
                                  [blocks EXCEPT ![f] = [t EXCEPT !.ref_count = @ + 1]]}
    BY <1>4, <2>1 DEF finish_get
  <2>4. /\ t.dirty_bits \in {b.dirty_bits, b.dirty_bits \cup Writes}
        /\ [t EXCEPT !.ref_count = @ + 1].dirty_bits = t.dirty_bits
    BY <2>2, <2>3 DEF Blocks, Writes
  <2> QED BY <1>1, <2>1, <2>2, <2>3, <2>4 DEF BitsFollow
<1>5. CASE writeback \/ flush \/ invalidate_block \/ writeback_v
  <2>1. UNCHANGED blocks \/ \E l, f, next : issue_write(l, f, next)
    BY <1>5 DEF writeback, flush, invalidate_block, writeback_v
  <2> QED BY <1>2, <2>1, WriteBits
<1>6. CASE Completion
  <2>1. PICK io, success : complete_io(io, success)
    BY <1>6 DEF Completion
  <2>2. PICK f, failed : f = io.frame /\ failed = (blocks[f].error \/ ~success)
    OBVIOUS
  <2>3. \/ UNCHANGED blocks
        \/ blocks' = [blocks EXCEPT ![f].io_count = @ - 1, ![f].error = failed]
        \/ blocks' = [blocks EXCEPT ![f].io_count = 0, ![f].error = failed,
                          ![f].pending = FALSE, ![f].dirty_bits = DirtyAfter(blocks[f], failed)]
    BY <2>1, <2>2 DEF complete_io
  <2>4. DirtyAfter(blocks[f], failed) \in {blocks[f].dirty_bits, {}}
    BY DEF DirtyAfter
  <2> QED BY <1>1, <2>3, <2>4 DEF BitsFollow, Blocks
<1>7. CASE UNCHANGED blocks
  BY <1>2, <1>7
<1> QED BY <1>3, <1>4, <1>5, <1>6, <1>7
    DEF Step, alloc_block, evict, find_unused_clean_block, writeback_v_done, invalidate_v,
        remove_prefix, waited_io, waited_block, waited_written, waited_all

LEMMA NextWhole ==
  ASSUME TypeOK, CallOK, WholeOK, [Next]_vars
  PROVE  WholeOK'
<1> SUFFICES ASSUME WholeMasks PROVE WholeOK'
  BY DEF WholeOK
<1>1. /\ call.pc # "idle" => call.mode \in GetModes \cup {ReadMode}
      /\ \A f \in Frames : blocks[f].dirty_bits \in {{}, Sectors}
  BY DEF WholeOK
<1>2. CASE Client
  <2>1. \A f \in Frames : blocks'[f].dirty_bits = blocks[f].dirty_bits
    <3>1. UNCHANGED blocks \/ \E f : blocks' = [blocks EXCEPT ![f].ref_count = @ - 1]
      BY <1>2 DEF Client, io_get_block_mask, io_prefetch_block, io_invalidate_block,
                  io_invalidate_dev, io_put_block, io_flush, io_invalidate_all,
                  io_manager_destroy
    <3> QED BY <3>1 DEF TypeOK, Blocks
  <2>2. call'.pc = "idle" \/ call'.mode \in GetModes \cup {ReadMode}
    <3>1. \A r : Return(r).pc = "idle"
      BY DEF Return, Idle
    <3>2. ASSUME NEW k \in Keys, NEW readonly \in BOOLEAN, NEW m \in GetModes,
                 io_get_block_mask(k, readonly, m)
          PROVE  call'.pc = "idle" \/ call'.mode = m
      <4> DEFINE got == [Start("get", "alloc") EXCEPT !.key = k, !.mode = m]
      <4>1. got.mode = m /\ \A x, y : [got EXCEPT !.pc = x, !.f = y].mode = m
        BY DEF Start, Idle
      <4>2. \/ call' = Return(FALSE)
            \/ call' = got
            \/ \E x, y : call' = [got EXCEPT !.pc = x, !.f = y]
        BY <3>2 DEF io_get_block_mask
      <4> HIDE DEF got
      <4>3. CASE call' = Return(FALSE)
        BY <3>1, <4>3
      <4>4. CASE call' = got \/ \E x, y : call' = [got EXCEPT !.pc = x, !.f = y]
        BY <4>1, <4>4
      <4> QED BY <4>2, <4>3, <4>4
    <3>3. ASSUME NEW k \in Keys,
                 io_prefetch_block(k) \/ io_invalidate_block(k) \/ io_invalidate_dev(k)
          PROVE  call'.mode = ReadMode
      BY <3>3 DEF io_prefetch_block, io_invalidate_block, io_invalidate_dev, Start, Idle
    <3>4. ASSUME NEW f \in Frames, io_put_block(f)
          PROVE  call'.pc = "idle" \/ call'.mode = ReadMode
      BY <3>4 DEF io_put_block, Return, Start, Idle
    <3>5. ASSUME io_flush \/ io_invalidate_all \/ io_manager_destroy
          PROVE  call'.mode = ReadMode
      BY <3>5 DEF io_flush, io_invalidate_all, io_manager_destroy, Start, Idle
    <3> QED BY <1>2, <3>2, <3>3, <3>4, <3>5 DEF Client
  <2> QED BY <1>1, <2>1, <2>2 DEF WholeOK
<1>3. CASE Step
  <2>1. call'.pc = "idle" \/ (call'.mode = call.mode /\ call.pc # "idle")
    <3>1. call.pc # "idle"
      BY <1>3 DEF Step, alloc_block, evict, find_unused_clean_block, new_block, finish_get,
         writeback, flush, invalidate_block, writeback_v, writeback_v_done, invalidate_v,
         remove_prefix, Completion, complete_io, InWait, waited_io, waited_block,
         waited_written, waited_all, Waited
    <3> QED BY <1>3, <3>1, StepGoesOn DEF GoesOn
  <2>2. Writes \in {{}, Sectors}
    <3>1. call.pc # "idle"
      BY <1>3 DEF Step, alloc_block, evict, find_unused_clean_block, new_block, finish_get,
         writeback, flush, invalidate_block, writeback_v, writeback_v_done, invalidate_v,
         remove_prefix, Completion, complete_io, InWait, waited_io, waited_block,
         waited_written, waited_all, Waited
    <3> QED BY <1>1, <3>1 DEF Writes, WholeMasks, ReadMode
  <2>3. \A f \in Frames : blocks'[f].dirty_bits \in {{}, Sectors}
    BY <1>1, <1>3, <2>2, StepBits DEF BitsFollow
  <2> QED BY <1>1, <2>1, <2>3 DEF WholeOK
<1>4. CASE Destroyed \/ UNCHANGED vars
  BY <1>4 DEF Destroyed, vars, WholeOK
<1> QED BY <1>2, <1>3, <1>4 DEF Next

\* The whole block is one run.
LEMMA WholeRun == \A q, r \in Runs(Sectors) : q = r
<1>1. BlockSectors \in Nat \ {0}
  BY SizeAssumption
<1>2. ASSUME NEW r \in Runs(Sectors) PROVE r = Sectors
  <2>1. PICK lo \in Sectors, hi \in Sectors : r = lo .. hi
    BY DEF Runs
  <2>2. r # {} /\ \A s \in Sectors \ r : s - 1 \notin r /\ s + 1 \notin r
    BY DEF Runs
  <2>3. lo \in Nat /\ hi \in Nat /\ hi < BlockSectors /\ lo <= hi
    BY <1>1, <2>1, <2>2 DEF Sectors
  <2>4. lo = 0
    <3> SUFFICES ASSUME lo # 0 PROVE FALSE
      OBVIOUS
    <3>1. lo - 1 \in Sectors \ r /\ (lo - 1) + 1 \in r
      BY <1>1, <2>1, <2>3 DEF Sectors
    <3> QED BY <2>2, <3>1
  <2>5. hi = BlockSectors - 1
    <3> SUFFICES ASSUME hi # BlockSectors - 1 PROVE FALSE
      OBVIOUS
    <3>1. hi + 1 \in Sectors \ r /\ (hi + 1) - 1 \in r
      BY <1>1, <2>1, <2>3 DEF Sectors
    <3> QED BY <2>2, <3>1
  <2> QED BY <2>1, <2>4, <2>5 DEF Sectors
<1> QED BY <1>2

\* _issue counts the block once, however many ios it takes, and takes it back
\* when the engine refuses the only one.
LEMMA IssueCounts ==
  ASSUME CountInv, QuietClients, RefusedOnce,
         NEW f \in Frames, ~blocks[f].pending, blocks[f].ref_count = 0,
         NEW b \in Blocks, ~b.pending, b.io_count = 0, b.ref_count = 0,
         WholeMasks => b.dirty_bits \in {{}, Sectors},
         NEW d \in {"read", "write"}, d = "write" => b.dirty_bits # {},
         NEW l, NEW next, issue(l, f, b, d, next), UNCHANGED nr_locked
  PROVE  CountOK'
<1> DEFINE runs == IF d = "write" THEN Runs(b.dirty_bits) ELSE {Sectors}
           early(ok) == Early(runs, ok)
<1>1. PICK ok \in Taken(runs) :
        /\ blocks' = [blocks EXCEPT ![f] =
                       [b EXCEPT !.io_dir = d,
                                 !.pending = (early(ok) = {}),
                                 !.io_count = Cardinality(ok),
                                 !.error = @ \/ ok # runs]]
        /\ nr_io_pending' = Minus(Plus1(nr_io_pending), Cardinality(early(ok)))
  BY DEF issue, Early
<1>2. /\ IsFiniteSet(runs) /\ runs \subseteq SUBSET Sectors /\ {} \notin runs
  BY IssuedRuns
<1>3. runs # {}
  <2>1. ASSUME d = "write" PROVE runs # {}
    <3>1. b.dirty_bits \in SUBSET Sectors /\ b.dirty_bits # {}
      BY <2>1 DEF Blocks
    <3> QED BY <2>1, <3>1, RunsCover
  <2> QED BY <2>1
<1>4. ok \subseteq runs /\ (early(ok) # {} => ok = {})
  <2>1. runs \subseteq SUBSET Int
    BY <1>2 DEF Sectors
  <2> HIDE DEF runs
  <2> QED BY <1>2, <2>1, TakenRuns
<1>5. ok = {} => early(ok) = runs /\ Cardinality(runs) = 1
  <2>1. ASSUME ok = {} PROVE Cardinality(runs) = 1
    <3>1. "full" \in Faults
      <4> HIDE DEF runs
      <4> QED BY <1>1, <1>3, <2>1 DEF Taken, QuietClients
    <3>2. d = "write" => b.dirty_bits = Sectors
      BY <3>1 DEF RefusedOnce
    <3>3. \A q, r \in runs : q = r
      BY <3>2, WholeRun
    <3>4. PICK r : runs = {r}
      BY <1>3, <3>3
    <3> QED BY <3>4, FS_Singleton
  <2> HIDE DEF runs
  <2> QED BY <2>1 DEF Early
<1>6. ok # {} => Cardinality(ok) > 0 /\ early(ok) = {}
  <2>1. IsFiniteSet(ok)
    BY <1>2, <1>4, FS_Subset
  <2> HIDE DEF runs
  <2> QED BY <1>4, <2>1, FS_CardinalityType, FS_EmptySet
<1> HIDE DEF runs, early
<1>7. blocks \in [Frames -> Blocks]
  BY DEF CountInv, SafeInv, TypeInv, TypeOK
<1>8. /\ \A g \in Frames \ {f} : blocks'[g] = blocks[g]
      /\ blocks'[f].pending <=> early(ok) = {}
      /\ blocks'[f].io_count = Cardinality(ok) /\ blocks'[f].ref_count = 0
  BY <1>1, <1>7 DEF Blocks
<1>9. Held' = Held
  BY <1>8 DEF Held
<1>10. Cardinality(Pending) = nr_io_pending /\ Pending \in SUBSET Frames /\ f \notin Pending
  BY DEF CountInv, CountOK, Pending
<1>11. /\ nr_io_pending \in Nat /\ nr_io_pending < Width /\ nr_io_pending + 1 < Width
       /\ Cardinality(Pending \cup {f}) = nr_io_pending + 1
  BY <1>10, FrameCount
<1>12. CASE ok = {}
  <2>1. nr_io_pending' = nr_io_pending
    BY <1>1, <1>5, <1>11, <1>12, Unwrapped
  <2>2. Pending' = Pending
    BY <1>3, <1>5, <1>8, <1>12 DEF Pending
  <2>3. \A g \in Frames : blocks'[g].pending => blocks'[g].io_count > 0
    BY <1>3, <1>5, <1>8, <1>12 DEF CountInv, CountOK
  <2> QED BY <1>9, <2>1, <2>2, <2>3 DEF CountInv, CountOK
<1>13. CASE ok # {}
  <2>1. nr_io_pending' = nr_io_pending + 1
    <3>1. Cardinality(early(ok)) = 0
      BY <1>6, <1>13, FS_EmptySet
    <3> QED BY <1>1, <1>11, <3>1, Unwrapped
  <2>2. Pending' = Pending \cup {f}
    BY <1>6, <1>8, <1>13 DEF Pending
  <2>3. \A g \in Frames : blocks'[g].pending => blocks'[g].io_count > 0
    BY <1>6, <1>8, <1>13 DEF CountInv, CountOK
  <2> QED BY <1>9, <1>11, <2>1, <2>2, <2>3 DEF CountInv, CountOK
<1> QED BY <1>12, <1>13

LEMMA WriteCounts ==
  ASSUME CountInv, QuietClients, RefusedOnce, NEW f \in Frames, blocks[f].ref_count = 0,
         blocks[f].dirty_bits # {}, NEW l, NEW next, issue_write(l, f, next),
         UNCHANGED nr_locked
  PROVE  CountOK'
<1>1. blocks \in [Frames -> Blocks] /\ CountOK
  BY DEF CountInv, SafeInv, TypeInv, TypeOK
<1>2. PICK b : b = [blocks[f] EXCEPT !.error = FALSE]
  OBVIOUS
<1>3. issue(l, f, b, "write", next)
  BY <1>2 DEF issue_write
<1>4. /\ b \in Blocks /\ b.pending = blocks[f].pending /\ b.ref_count = 0
      /\ b.io_count = blocks[f].io_count /\ b.dirty_bits = blocks[f].dirty_bits
  BY <1>1, <1>2 DEF Blocks
<1>5. CASE blocks[f].pending
  <2>1. blocks' = [blocks EXCEPT ![f] = b] /\ UNCHANGED nr_io_pending
    BY <1>3, <1>4, <1>5 DEF issue
  <2>2. \A g \in Frames : /\ blocks'[g].pending = blocks[g].pending
                          /\ blocks'[g].io_count = blocks[g].io_count
                          /\ blocks'[g].ref_count = blocks[g].ref_count
    BY <1>1, <1>4, <2>1
  <2> QED BY <1>1, <2>1, <2>2, CountKept
<1>6. CASE ~blocks[f].pending
  <2>1. b.io_count = 0
    <3>1. PICK on, pos, out : Safe(on, pos, out)
      BY DEF CountInv, SafeInv
    <3> QED BY <1>1, <1>4, <1>6, <3>1 DEF Safe, IosOK, Blocks
  <2>2. WholeMasks => b.dirty_bits \in {{}, Sectors}
    BY <1>4 DEF CountInv, WholeOK
  <2> QED BY <1>3, <1>4, <1>6, <2>1, <2>2, IssueCounts
<1> QED BY <1>5, <1>6

LEMMA PutCounts ==
  ASSUME CountInv, NEW f \in Frames, io_put_block(f)
  PROVE  CountOK'
<1>1. blocks \in [Frames -> Blocks] /\ CountOK
  BY DEF CountInv, SafeInv, TypeInv, TypeOK
<1>2. /\ f \in Held /\ UNCHANGED nr_io_pending
      /\ blocks' = [blocks EXCEPT ![f].ref_count = @ - 1]
      /\ nr_locked' = IF blocks[f].ref_count = 1 THEN Minus(nr_locked, 1) ELSE nr_locked
  BY DEF io_put_block
<1>3. /\ \A g \in Frames \ {f} : blocks'[g] = blocks[g]
      /\ blocks'[f].pending = blocks[f].pending /\ blocks'[f].io_count = blocks[f].io_count
      /\ blocks'[f].ref_count = blocks[f].ref_count - 1
      /\ blocks[f].ref_count \in Nat \ {0}
  BY <1>1, <1>2 DEF Blocks, Held
<1>4. Pending' = Pending /\ \A g \in Frames : blocks'[g].pending => blocks'[g].io_count > 0
  BY <1>1, <1>3 DEF Pending, CountOK
<1>5. CASE blocks[f].ref_count = 1
  <2>1. Held' = Held \ {f}
    BY <1>2, <1>3, <1>5 DEF Held
  <2>2. /\ nr_locked \in Nat /\ nr_locked < Width /\ nr_locked > 0
        /\ Cardinality(Held \ {f}) = nr_locked - 1
    BY <1>1, <1>2, FrameCount DEF CountOK, Held
  <2>3. nr_locked' = nr_locked - 1
    BY <1>2, <1>5, <2>2, Unwrapped
  <2> QED BY <1>1, <1>2, <1>4, <2>1, <2>2, <2>3 DEF CountOK
<1>6. CASE blocks[f].ref_count # 1
  <2>1. Held' = Held
    BY <1>2, <1>3, <1>6 DEF Held
  <2> QED BY <1>1, <1>2, <1>4, <1>6, <2>1 DEF CountOK
<1> QED BY <1>5, <1>6

LEMMA NewBlockCounts ==
  ASSUME CountInv, QuietClients, RefusedOnce, new_block
  PROVE  CountOK'
<1>1. PICK f : f = call.f
  OBVIOUS
<1>2. PICK on, pos, out : Safe(on, pos, out)
  BY DEF CountInv, SafeInv
<1>3. call.pc = "new_block" /\ UNCHANGED nr_locked
  BY DEF new_block
<1>4. TypeOK /\ f \in Frames /\ f \in out /\ CountOK
  BY <1>1, <1>2, <1>3 DEF CountInv, SafeInv, TypeInv, CallOK, Safe, HandOK
<1>5. ~blocks[f].pending /\ blocks[f].ref_count = 0
  BY <1>2, <1>4 DEF Safe, FramesOK, TypeOK, Blocks
<1>6. blocks[f].io_count = 0
  BY <1>2, <1>4, <1>5 DEF Safe, IosOK, TypeOK, Blocks
<1>7. PICK b : b = NewBlockOf(call.key)
  OBVIOUS
<1>8. b \in Blocks /\ ~b.pending /\ b.io_count = 0 /\ b.ref_count = 0 /\ b.dirty_bits = {}
  <2>1. call.key \in Keys \cup {NoKey}
    BY <1>4 DEF TypeOK, Calls
  <2> QED BY <1>7, <2>1 DEF NewBlockOf, Blocks
<1>9. CASE MustRead(call.mode)
  <2>1. PICK l, next : issue(l, f, b, "read", next)
    BY <1>1, <1>7, <1>9 DEF new_block
  <2> QED BY <1>3, <1>4, <1>5, <1>8, <2>1, IssueCounts
<1>10. CASE ~MustRead(call.mode)
  <2>1. blocks' = [blocks EXCEPT ![f] = b] /\ UNCHANGED nr_io_pending
    BY <1>1, <1>7, <1>10 DEF new_block
  <2>2. \A g \in Frames : /\ blocks'[g].pending <=> blocks[g].pending
                          /\ blocks'[g].io_count = blocks[g].io_count
                          /\ blocks'[g].ref_count = blocks[g].ref_count
    BY <1>4, <1>5, <1>6, <1>8, <2>1 DEF TypeOK
  <2> QED BY <1>3, <1>4, <2>1, <2>2, CountKept
<1> QED BY <1>9, <1>10

LEMMA FinishGetCounts ==
  ASSUME CountInv, finish_get
  PROVE  CountOK'
<1>1. PICK f, b : f = call.f /\ b = blocks[f]
  OBVIOUS
<1>2. TypeOK /\ f \in Frames /\ CountOK /\ blocks \in [Frames -> Blocks]
  BY <1>1 DEF CountInv, SafeInv, TypeInv, CallOK, TypeOK, finish_get
<1>3. PICK touched :
        /\ touched \in {[b EXCEPT !.dirty_bits = @ \cup call.mode.mask], b}
        /\ UNCHANGED nr_io_pending
        /\ IF b.error
           THEN blocks' = [blocks EXCEPT ![f] = touched] /\ UNCHANGED nr_locked
           ELSE /\ blocks' = [blocks EXCEPT ![f] = [touched EXCEPT !.ref_count = @ + 1]]
                /\ nr_locked' = IF b.ref_count = 0 THEN Plus1(nr_locked) ELSE nr_locked
  BY <1>1 DEF finish_get
<1>4. /\ touched.pending = b.pending /\ touched.io_count = b.io_count
      /\ touched.ref_count = b.ref_count /\ b.ref_count \in Nat
  BY <1>1, <1>2, <1>3 DEF Blocks
<1>5. CASE b.error
  <2>1. \A g \in Frames : /\ blocks'[g].pending = blocks[g].pending
                          /\ blocks'[g].io_count = blocks[g].io_count
                          /\ blocks'[g].ref_count = blocks[g].ref_count
    BY <1>1, <1>2, <1>3, <1>4, <1>5
  <2> QED BY <1>2, <1>3, <1>5, <2>1, CountKept
<1>6. CASE ~b.error
  <2>1. /\ \A g \in Frames \ {f} : blocks'[g] = blocks[g]
        /\ blocks'[f].pending = b.pending /\ blocks'[f].io_count = b.io_count
        /\ blocks'[f].ref_count = b.ref_count + 1
    BY <1>1, <1>2, <1>3, <1>4, <1>6 DEF Blocks
  <2>2. Pending' = Pending /\ \A g \in Frames : blocks'[g].pending => blocks'[g].io_count > 0
    BY <1>1, <1>2, <2>1 DEF Pending, CountOK
  <2>3. CASE b.ref_count = 0
    <3>1. Held' = Held \cup {f} /\ f \notin Held
      BY <1>1, <1>2, <2>1, <2>3 DEF Held
    <3>2. /\ nr_locked \in Nat /\ nr_locked < Width /\ nr_locked + 1 < Width
          /\ Cardinality(Held \cup {f}) = nr_locked + 1
      BY <1>2, <3>1, FrameCount DEF CountOK, Held
    <3>3. nr_locked' = nr_locked + 1
      BY <1>3, <1>6, <2>3, <3>2, Unwrapped
    <3> QED BY <1>2, <1>3, <2>2, <3>1, <3>2, <3>3 DEF CountOK
  <2>4. CASE b.ref_count # 0
    <3>1. Held' = Held
      BY <1>1, <1>2, <1>4, <2>1, <2>4 DEF Held
    <3> QED BY <1>2, <1>3, <1>6, <2>2, <2>4, <3>1 DEF CountOK
  <2> QED BY <2>3, <2>4
<1> QED BY <1>5, <1>6

\* Whatever is written is dirty and held by nobody.
LEMMA WritingCounts ==
  ASSUME CountInv, QuietClients, FlushesWork, RefusedOnce,
         writeback \/ flush \/ invalidate_block \/ writeback_v
  PROVE  CountOK'
<1>1. PICK on, pos, out : Safe(on, pos, out)
  BY DEF CountInv, SafeInv
<1>2. out = {}
  BY <1>1, NothingInHand DEF Safe, writeback, flush, invalidate_block, writeback_v
<1>3. TypeOK /\ CallOK /\ CountOK /\ UNCHANGED nr_locked
  BY DEF CountInv, SafeInv, TypeInv, writeback, flush, invalidate_block, writeback_v
<1>4. ASSUME UNCHANGED <<blocks, nr_io_pending>> PROVE CountOK'
  BY <1>3, <1>4, CountKept
<1>5. \A f \in Frames : f \notin Held => blocks[f].ref_count = 0
  BY <1>3 DEF Held, TypeOK, Blocks
<1>6. \A f \in Frames : on[f] = dirty => blocks[f].dirty_bits # {}
  BY <1>1, <1>2 DEF Safe, FramesOK, Filed
<1>7. CASE writeback
  <2>1. on[call.node] = dirty
    BY <1>1, <1>7 DEF writeback, Safe, PlaceOK
  <2>2. CASE call.node \in Frames /\ call.left # 0 /\ Unused(call.node)
    <3>1. \E next : issue_write(lists, call.node, next)
      BY <1>7, <2>2, HeadFacts DEF writeback
    <3> QED BY <1>3, <1>5, <1>6, <2>1, <2>2, <3>1, WriteCounts DEF Unused
  <2>3. CASE ~(call.node \in Frames /\ call.left # 0 /\ Unused(call.node))
    BY <1>4, <1>7, <2>3 DEF writeback
  <2> QED BY <2>2, <2>3
<1>8. CASE flush
  <2>1. PICK f : f = lists.n[dirty]
    OBVIOUS
  <2>2. on[f] = dirty
    BY <1>1, <1>2, <2>1, HeadFacts DEF Safe, Chained
  <2>3. CASE \E l : issue_write(l, f, call) /\ Unused(f) /\ f \in Frames
    BY <1>3, <1>5, <1>6, <2>2, <2>3, WriteCounts DEF Unused
  <2>4. CASE ~\E l : issue_write(l, f, call) /\ Unused(f) /\ f \in Frames
    <3>1. f \in Frames \/ list_empty(lists, dirty) \/ Lost(f, dirty)
      BY <1>3, <2>1, HeadFacts, NodeTypes DEF list_empty, Lost, TypeOK
    <3> QED BY <1>4, <1>8, <2>1, <2>4, <3>1 DEF flush
  <2> QED BY <2>3, <2>4
<1>9. CASE invalidate_block
  <2>1. call.f \in Frames
    BY <1>3, <1>9 DEF CallOK, invalidate_block
  <2>2. CASE call.f \notin Held /\ blocks[call.f].dirty_bits # {}
    <3>1. issue_write(lists, call.f, At("wait_written"))
      BY <1>9, <2>2 DEF invalidate_block
    <3> QED BY <1>3, <1>5, <2>1, <2>2, <3>1, WriteCounts
  <2>3. CASE ~(call.f \notin Held /\ blocks[call.f].dirty_bits # {})
    BY <1>4, <1>9, <2>3 DEF invalidate_block
  <2> QED BY <2>2, <2>3
<1>10. CASE writeback_v
  <2>1. PICK k \in call.todo :
          \/ blocks[rtree[k]].dirty_bits # {} /\ \E next : issue_write(lists, rtree[k], next)
          \/ UNCHANGED <<blocks, nr_io_pending>>
    BY <1>10 DEF writeback_v
  <2>2. rtree[k] \in Frames /\ blocks[rtree[k]].ref_count = 0
    BY <1>1, <1>3, <1>10, <2>1 DEF CallOK, writeback_v, Safe, PlaceOK
  <2> QED BY <1>3, <1>4, <2>1, <2>2, WriteCounts
<1> QED BY <1>7, <1>8, <1>9, <1>10

\* The last completion of a block uncounts it.
LEMMA CompletionCounts ==
  ASSUME CountInv, Completion
  PROVE  CountOK'
<1>1. PICK io \in inflight, success \in BOOLEAN : complete_io(io, success)
  BY DEF Completion
<1>2. PICK f, failed, bits :
        /\ f = io.frame /\ failed = (blocks[f].error \/ ~success)
        /\ bits = DirtyAfter(blocks[f], failed)
  OBVIOUS
<1>3. /\ TypeOK /\ CountOK /\ blocks \in [Frames -> Blocks]
      /\ f \in Frames /\ blocks[f].pending
  BY <1>2, FlightFacts DEF CountInv, SafeInv, TypeInv, TypeOK
<1>4. blocks[f].io_count > 0 /\ blocks[f].io_count \in Nat /\ UNCHANGED nr_locked
  BY <1>1, <1>3 DEF CountOK, Blocks, complete_io
<1>5. CASE blocks[f].io_count > 1
  <2>1. UNCHANGED nr_io_pending
        /\ blocks' = [blocks EXCEPT ![f].io_count = @ - 1, ![f].error = failed]
    BY <1>1, <1>2, <1>5 DEF complete_io
  <2>2. \A g \in Frames : /\ blocks'[g].pending = blocks[g].pending
                          /\ blocks'[g].io_count > 0 <=> blocks[g].io_count > 0
                          /\ blocks'[g].ref_count = blocks[g].ref_count
    BY <1>3, <1>4, <1>5, <2>1 DEF Blocks
  <2> QED BY <1>3, <1>4, <2>1, <2>2, CountKept
<1>6. CASE blocks[f].io_count = 1
  <2>1. /\ nr_io_pending' = Minus(nr_io_pending, 1)
        /\ blocks' = [blocks EXCEPT ![f].io_count = 0, ![f].error = failed,
                                    ![f].pending = FALSE, ![f].dirty_bits = bits]
    BY <1>1, <1>2, <1>6 DEF complete_io
  <2>2. /\ \A g \in Frames \ {f} : blocks'[g] = blocks[g]
        /\ ~blocks'[f].pending /\ blocks'[f].ref_count = blocks[f].ref_count
    BY <1>3, <2>1 DEF Blocks
  <2>3. Held' = Held /\ Pending' = Pending \ {f} /\ f \in Pending
    BY <1>3, <2>2 DEF Held, Pending
  <2>4. /\ nr_io_pending \in Nat /\ nr_io_pending < Width /\ nr_io_pending > 0
        /\ Cardinality(Pending \ {f}) = nr_io_pending - 1
    BY <1>3, <2>3, FrameCount DEF CountOK, Pending
  <2>5. nr_io_pending' = nr_io_pending - 1
    BY <2>1, <2>4, Unwrapped
  <2>6. \A g \in Frames : blocks'[g].pending => blocks'[g].io_count > 0
    BY <1>3, <2>2 DEF CountOK
  <2> QED BY <1>3, <1>4, <2>3, <2>4, <2>5, <2>6 DEF CountOK
<1> QED BY <1>4, <1>5, <1>6

LEMMA NextCounts ==
  ASSUME CountInv, QuietClients, FlushesWork, RefusedOnce, [Next]_vars
  PROVE  CountInv'
<1>1. SafeInv' /\ WholeOK'
  BY NextSafe, NextWhole DEF CountInv, SafeInv, TypeInv
<1> SUFFICES CountOK'
  BY <1>1 DEF CountInv
<1>2. ASSUME UNCHANGED <<blocks, nr_locked, nr_io_pending>> PROVE CountOK'
  BY <1>2, CountKept DEF CountInv
<1>3. CASE Client
  <2>1. (\E f \in Frames : io_put_block(f)) \/ UNCHANGED <<blocks, nr_locked, nr_io_pending>>
    BY <1>3 DEF Client, io_get_block_mask, io_prefetch_block, io_invalidate_block,
                io_invalidate_dev, io_flush, io_invalidate_all, io_manager_destroy
  <2> QED BY <1>2, <2>1, PutCounts
<1>4. CASE Step
  <2>1. \/ new_block \/ finish_get \/ writeback \/ flush \/ invalidate_block \/ writeback_v
        \/ Completion \/ UNCHANGED <<blocks, nr_locked, nr_io_pending>>
    BY <1>4 DEF Step, alloc_block, evict, find_unused_clean_block, writeback_v_done,
                invalidate_v, remove_prefix, waited_io, waited_block, waited_written, waited_all
  <2> QED BY <1>2, <2>1, NewBlockCounts, FinishGetCounts, WritingCounts, CompletionCounts
<1>5. CASE Destroyed \/ UNCHANGED vars
  BY <1>2, <1>5 DEF Destroyed, vars
<1> QED BY <1>3, <1>4, <1>5 DEF Next

LEMMA InitCounts == Init => CountInv
<1> SUFFICES ASSUME Init PROVE CountInv
  OBVIOUS
<1>1. Held = {} /\ Pending = {}
  BY DEF Init, Held, Pending, NewBlockOf
<1>2. \A f \in Frames : ~blocks[f].pending
  BY DEF Init, NewBlockOf
<1>3. WholeOK
  BY DEF Init, Idle, NewBlockOf, WholeOK
<1> QED BY <1>1, <1>2, <1>3, InitSafe, FS_EmptySet DEF CountInv, CountOK, Init

LEMMA SafeCounters == CountInv => CountersOK
<1> SUFFICES ASSUME CountInv PROVE CountersOK
  OBVIOUS
<1>1. PICK on, pos, out : Safe(on, pos, out)
  BY DEF CountInv, SafeInv
<1>2. \A io \in inflight : io.frame \in Pending
  BY FlightFacts DEF CountInv, Pending
<1>3. ASSUME NEW f \in Pending PROVE \E io \in inflight : io.frame = f
  <2>1. f \in Frames /\ blocks[f].io_count > 0
    BY <1>3 DEF Pending, CountInv, CountOK
  <2>2. InFlight(f) # {}
    BY <1>1, <2>1, FS_EmptySet DEF Safe, IosOK
  <2> QED BY <2>2 DEF InFlight
<1>4. {io.frame : io \in inflight} = Pending
  BY <1>2, <1>3
<1> QED BY <1>4 DEF CountInv, CountOK, CountersOK

\* nr_locked counts the held blocks and nr_io_pending the blocks with ios in
\* flight, whatever fails and in whatever order ios complete, provided no
\* writeback of several ios is refused.
THEOREM CountersRight ==
  ASSUME QuietClients, FlushesWork, RefusedOnce
  PROVE  Spec => []CountersOK
<1>1. Init => CountInv
  BY InitCounts
<1>2. CountInv /\ [Next]_vars => CountInv'
  BY NextCounts
<1>3. CountInv => CountersOK
  BY SafeCounters
<1> QED BY <1>1, <1>2, <1>3, PTL DEF Spec
=============================================================================
