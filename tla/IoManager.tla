------------------------------ MODULE IoManager ------------------------------
(***************************************************************************)
(* The whole of io/io-manager.c: the block cache of module BlockCache and  *)
(* the device table of module DevTable, which keep each other alive.  A    *)
(* block is got through an io_dev a client holds; a device stays open as   *)
(* long as it is held or a block of it is in the block tree; and io_get_dev*)
(* may have to empty the cache of a device, and wait for the engine to     *)
(* write its blocks back, before it can open another.                      *)
(*                                                                         *)
(* BlockCache says when blocks enter and leave the tree.  Here every step  *)
(* of it is followed by what _inc_blocks and _block_dtr make of it.  To    *)
(* DevTable every call is one step, and a frame is free or has a device;   *)
(* Table maps the state of this module to one of that.                     *)
(***************************************************************************)

EXTENDS BlockCache, Sequences

CONSTANTS
  Paths, max_cache_devs, Idevs, NoDev, Handles, Closed, Free,   \* of DevTable
  NoHandle,               \* an io_dev not in use
  NoGet,                  \* no io_get_dev waits
  GetFlags,               \* the flags clients give io_get_dev
  DevFaults               \* the Faults of DevTable

VARIABLES
  table,                  \* iom of DevTable, but for the frames
  handles,
  getting                 \* an io_get_dev that waits for _invalidate_dev

mvars == <<vars, table, handles, getting>>

-----------------------------------------------------------------------------
(* What the device table sees *)

\* An io_get_dev that waits has not happened yet.
Before == IF getting = NoGet THEN table ELSE getting.before

FrameOf(f) ==
  LET b == blocks[f]
  IN IF b.key = NoKey \/ rtree[b.key] # f THEN Free
     ELSE [dev |-> Before.dev_tree[DevOf[b.key]], in_tree |-> TRUE,
           dirty |-> b.dirty_bits # {}, ref |-> f \in Held]

\* The devices are on the lru list in the order they were got in.
GotInOrder ==
  LET places == DOMAIN Before.dev_lru
      path(i) == Before.devs[Before.dev_lru[i]].path
  IN UNION {{<<path(i), path(j)>> : j \in {j \in places : i <= j}} : i \in places}

\* The state of the device table, with the frames it is to have.
WithFrames(t, frames) ==
  [devs |-> t.devs, dev_tree |-> t.dev_tree, dev_lru |-> t.dev_lru,
   nr_open |-> t.nr_open, nr_fds |-> t.nr_fds, frames |-> frames]

Iom == WithFrames(Before, [f \in Frames |-> FrameOf(f)])

Table == INSTANCE DevTable WITH
  Faults <- DevFaults, iom <- Iom, recent <- GotInOrder

Devices(m) ==
  [devs |-> m.devs, dev_tree |-> m.dev_tree, dev_lru |-> m.dev_lru,
   nr_open |-> m.nr_open, nr_fds |-> m.nr_fds]

\* What an io_get_dev that waits knows.
Tables ==
  [devs : [Idevs -> Table!DevRecords \cup {Closed}],
   dev_tree : [Paths -> Idevs \cup {NoDev}],
   dev_lru : Seq(Idevs), nr_open : Nat, nr_fds : Nat]
Gets == [h : Handles, path : Paths, flags : Table!Flags, dev : Idevs, before : Tables]

ASSUME PathAssumption ==
  Devs \subseteq Paths /\ GetFlags \subseteq Table!Flags /\ NoGet \notin Gets

\* DevAssumption of DevTable.
ASSUME TableAssumption ==
  /\ max_cache_devs \in Nat
  /\ NoDev \notin Idevs
  /\ Closed \notin Table!DevRecords /\ Free \notin Table!FrameRecords
  /\ NoHandle \notin [dev : Idevs, flags : Table!Flags]
  /\ IsFiniteSet(Idevs) /\ IsFiniteSet(Handles)
  /\ Cardinality(Idevs) > max_cache_devs
  /\ DevFaults \subseteq {"open", "write", "renamed"}

MInit ==
  /\ Init
  /\ table = Devices(Table!NothingOpen)
  /\ handles = [h \in Handles |-> NoHandle]
  /\ getting = NoGet

-----------------------------------------------------------------------------
(* Every step of the block cache counts the blocks of the devices.  Nothing  *)
(* uses the variants with a mistake in them.                                 *)

\* The keys a step adds to the tree belong to one device, and so do those it
\* removes, but for io_manager_destroy, which empties the device tree next.
Recounted ==
  LET entered == {k \in Keys : ~Cached(k) /\ rtree'[k] # NoFrame}
      left == {k \in Keys : Cached(k) /\ rtree'[k] = NoFrame}
      dev(keys) == table.dev_tree[DevOf[CHOOSE k \in keys : TRUE]]
  IN IF call'.pc = "destroyed" THEN Devices(Table!NothingOpen)
     ELSE IF left # {} THEN Table!_dec_blocks(table, dev(left), Cardinality(left))
     ELSE IF entered # {} THEN Table!_inc_blocks(table, dev(entered))
     ELSE table

Counted == table' = Recounted /\ UNCHANGED <<handles, getting>>

\* Clients use blocks through the io_devs they hold.
IsOpen(h, k) == handles[h] # NoHandle /\ handles[h].dev = table.dev_tree[DevOf[k]]

ClientBlocks ==
  \/ \E h \in Handles, k \in Keys :
       /\ IsOpen(h, k)
       /\ \/ \E m \in GetModes : io_get_block_mask(k, handles[h].flags.ro, m)
          \/ io_prefetch_block(k)
          \/ io_invalidate_block(k)
          \/ io_invalidate_dev(k)
  \/ \E f \in Frames : io_put_block(f)
  \/ io_flush
  \/ io_invalidate_all
  \/ (\A h \in Handles : handles[h] = NoHandle) /\ io_manager_destroy

\* The loops of the block cache run on until an io_get_dev that waits for
\* them may.
BlockSteps == Step /\ (getting = NoGet \/ call'.pc # "idle")

-----------------------------------------------------------------------------
(* io_get_dev *)

\* _upgrade_dev's slow path: the device is emptied, closed and opened again.
Reopens_held(d, flags) ==
  Table!_need_upgrade_dev(table, d, flags) /\ Table!SlowPath(table, d, flags)
Reopens(d, flags) ==
  /\ Table!_need_upgrade_dev(table, d, flags)
  /\ Table!SlowPath(table, d, flags)
  /\ Table!Unheld(table, d)

\* The device whose blocks must go before path can be opened: that of path
\* itself, or the one _evict_lru_dev finds.
Outgoing(path, flags) ==
  LET d == table.dev_tree[path]
  IN IF d # NoDev THEN (IF Reopens(d, flags) THEN d ELSE NoDev)
     ELSE IF table.nr_open < max_cache_devs \/ Table!Victims(table) = {} THEN NoDev
     ELSE Table!Victim(table)

Got(h, flags, outcome) ==
  /\ table' = Devices(outcome[1])
  /\ handles' = IF outcome[2] = NoDev THEN handles
                ELSE [handles EXCEPT ![h] = [dev |-> outcome[2], flags |-> flags]]

MayGet(h) == call.pc = "idle" /\ handles[h] = NoHandle

io_get_dev(h, path, flags) ==
  /\ MayGet(h) /\ Outgoing(path, flags) = NoDev
  /\ \E outcome \in Table!_get_dev(path, flags) : Got(h, flags, outcome)
  /\ UNCHANGED <<vars, getting>>

\* io_get_dev as far as the waits of _invalidate_dev.
io_get_dev_waits(h, path, flags) ==
  LET d == Outgoing(path, flags)
      dropped == {k \in Keys : DevOf[k] = table.devs[d].path}
  IN /\ MayGet(h) /\ d # NoDev
     /\ call' = [Start("invalidate_dev", "writeback_v") EXCEPT
                   !.key = CHOOSE k \in dropped : TRUE,
                   !.todo = {k \in dropped : Cached(k)}]
     /\ getting' = [h |-> h, path |-> path, flags |-> flags, dev |-> d,
                    before |-> table]
     /\ table' = IF table.dev_tree[path] = NoDev THEN table
                 ELSE [table EXCEPT !.devs[d].holders = @ + 1,
                                    !.dev_lru = Table!Used(@, d)]
     /\ UNCHANGED <<lists, blocks, rtree, nr_locked, nr_dirty, nr_io_pending,
                    inflight, ghosts, handles>>

\* The rest: on the slow path the only holder is given up, and the device
\* closes; then path is opened.
io_get_dev_opens ==
  /\ getting # NoGet
  /\ remove_prefix
  /\ LET emptied == Recounted
         closed == IF getting.before.dev_tree[getting.path] = NoDev THEN emptied
                   ELSE Table!_dec_holders(emptied, getting.dev)
     IN \E outcome \in Table!Opened(closed, getting.path, getting.flags) :
          Got(getting.h, getting.flags, outcome)
  /\ getting' = NoGet

\* A client puts its blocks before it puts their device.
io_put_dev(h) ==
  /\ call.pc = "idle" /\ handles[h] # NoHandle
  /\ \/ Table!HeldOf(handles[h].dev) = {}
     \/ \E g \in Handles \ {h} : handles[g] # NoHandle /\ handles[g].dev = handles[h].dev
  /\ table' = Table!_dec_holders(table, handles[h].dev)
  /\ handles' = [handles EXCEPT ![h] = NoHandle]
  /\ UNCHANGED <<vars, getting>>

-----------------------------------------------------------------------------
MNext ==
  \/ (ClientBlocks \/ BlockSteps) /\ Counted
  \/ \E h \in Handles :
       \/ \E path \in Paths, flags \in GetFlags :
            io_get_dev(h, path, flags) \/ io_get_dev_waits(h, path, flags)
       \/ io_put_dev(h)
  \/ io_get_dev_opens
  \/ Destroyed /\ UNCHANGED mvars

MSpec == MInit /\ [][MNext]_mvars

\* The code runs on once it is called, and the engine completes what it was
\* given: io_getevents returns when an io is done.
MFairSpec == MSpec /\ WF_mvars((BlockSteps /\ Counted) \/ io_get_dev_opens)

-----------------------------------------------------------------------------
(* Properties *)

\* Every io in flight is on an open device, and so is every block
\* that is not on the free list.
DevicesStayOpen ==
  call.pc # "destroyed" =>
    /\ \A io \in inflight : table.dev_tree[DevOf[io.key]] # NoDev
    /\ \A f \in Frames \ OnList(free) :
         blocks[f].key # NoKey /\ ~(call.pc = "new_block" /\ f = call.f) =>
           table.dev_tree[DevOf[blocks[f].key]] # NoDev

\* The block cache and the device table together do nothing the device table
\* alone does not promise: every call, with all its waits and with the
\* writebacks and evictions of other calls between them, has one of the
\* effects DevTable gives it.
ImplementsDevTable == Table!Spec
=============================================================================
