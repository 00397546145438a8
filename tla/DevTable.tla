------------------------------ MODULE DevTable ------------------------------
(***************************************************************************)
(* The device table of io/io-manager.c: which devices the io manager has   *)
(* open, who holds them, which are closed to make room for others, and     *)
(* what opening a device again with other flags does to its cached blocks. *)
(*                                                                         *)
(* An io_dev_internal lives as long as it has holders or cached blocks.    *)
(* How blocks are read and written is the business of module BlockCache;   *)
(* here a frame only has a device, may be dirty, held, and still be in     *)
(* the block tree or not, and every call is one step, its waits included.  *)
(*                                                                         *)
(* All that belongs to the io manager is one record, iom, so that the      *)
(* helpers of the code, which change several parts of it, are operators    *)
(* from one such record to the next.                                       *)
(***************************************************************************)

EXTENDS Integers, FiniteSets, SequencesExt

CONSTANTS
  Paths,
  max_cache_devs,
  Idevs, NoDev,           \* memory for io_dev_internals; NULL
  Handles,                \* memory for io_devs
  Frames,
  Closed, Free, NoHandle,   \* memory for an io_dev_internal, frame, io_dev not in use
  Faults                  \* \subseteq {"open", "write", "renamed"}

VARIABLES
  iom,
  handles,        \* the io_devs clients hold
  recent          \* <<p, q>>: both paths are open, and q was got last, or p = q

vars == <<iom, handles, recent>>

\* An io_dev_internal that is allocated, and the flags it was opened with.
Flags == [ro : BOOLEAN, excl : BOOLEAN]
DevRecords == [path : Paths, flags : Flags, holders : Nat, blocks : Nat]

\* A frame that is in use.  It loses its tree entry before it is free when
\* _invalidate_dev could not free it.
FrameRecords == [dev : Idevs, in_tree : BOOLEAN, dirty : BOOLEAN, ref : BOOLEAN]
ASSUME DevAssumption ==
  /\ max_cache_devs \in Nat
  /\ NoDev \notin Idevs
  /\ Closed \notin DevRecords /\ Free \notin FrameRecords
  /\ NoHandle \notin [dev : Idevs, flags : Flags]
  /\ IsFiniteSet(Idevs) /\ IsFiniteSet(Frames) /\ IsFiniteSet(Handles)
  /\ Cardinality(Idevs) > max_cache_devs
  /\ Faults \subseteq {"open", "write", "renamed"}

NothingOpen ==
  [devs |-> [d \in Idevs |-> Closed], dev_tree |-> [p \in Paths |-> NoDev],
   dev_lru |-> << >>, nr_open |-> 0, nr_fds |-> 0,
   frames |-> [f \in Frames |-> Free]]

Init ==
  /\ iom = NothingOpen
  /\ handles = [h \in Handles |-> NoHandle]
  /\ recent = {}

\* What is left of `recent' when iom' has closed devices.
StillOpen(order) == {pq \in order : \A i \in {1, 2} : iom'.dev_tree[pq[i]] # NoDev}

\* path was got just now.
NowLast(path) == {pq \in recent : pq[1] # path} \cup (Paths \X {path})

-----------------------------------------------------------------------------
(* Reference counts.  m is the io manager before, d a device of it. *)

\* _dev_maybe_close, and the destructor of dev_tree.
_dev_maybe_close(m, d) ==
  IF m.devs[d].holders > 0 \/ m.devs[d].blocks > 0 THEN m
  ELSE [m EXCEPT !.devs[d] = Closed,
                 !.dev_tree[m.devs[d].path] = NoDev,
                 !.dev_lru = RemoveFirst(@, d),
                 !.nr_open = @ - 1,
                 !.nr_fds = @ - 1]

\* A count that is zero already is only complained about.  So is, here, the
\* count of a device that was freed; the code reads freed memory then.
_dec_holders(m, d) ==
  IF m.devs[d] = Closed \/ m.devs[d].holders = 0 THEN m
  ELSE _dev_maybe_close([m EXCEPT !.devs[d].holders = @ - 1], d)

_inc_blocks(m, d) == [m EXCEPT !.devs[d].blocks = @ + 1]

\* _dec_blocks, for n blocks that leave the tree, by _block_dtr.
_dec_blocks_open(m, d, n) == [m EXCEPT !.devs[d].blocks = @ - n]
_dec_blocks(m, d, n) ==
  IF n = 0 THEN m
  ELSE _dev_maybe_close([m EXCEPT !.devs[d].blocks = @ - n], d)

InTree(m, d) ==
  {f \in Frames : m.frames[f] # Free /\ m.frames[f].dev = d /\ m.frames[f].in_tree}

\* _invalidate_dev, when the writebacks of the frames in `failed' fail.  A
\* frame that is dirty still, or held, is kept, but leaves the tree too.
_invalidate_dev(m, d, failed) ==
  LET visited == InTree(m, d)
      kept == {f \in visited : m.frames[f].ref \/ f \in failed}
      frame(f) == IF f \in visited \ kept THEN Free
                  ELSE IF f \in kept
                  THEN [m.frames[f] EXCEPT !.in_tree = FALSE, !.dirty = f \in failed]
                  ELSE m.frames[f]
  IN _dec_blocks([m EXCEPT !.frames = [f \in Frames |-> frame(f)]], d,
                 Cardinality(visited))

\* Which writebacks of device d may fail.
Failures(m, d) ==
  IF "write" \in Faults THEN SUBSET {f \in InTree(m, d) : m.frames[f].dirty} ELSE {{}}

-----------------------------------------------------------------------------
(* io_get_dev *)

\* _evict_lru_dev: the first device in dev_lru that nobody holds.
Unheld(m, d) == m.devs[d].holders = 0
Victims(m) == {d \in Range(m.dev_lru) : Unheld(m, d)}
Victim(m) == m.dev_lru[SelectInSeq(m.dev_lru, LAMBDA d : Unheld(m, d))]

\* _new_dev gives the outcomes <<io manager, device or NULL>>.
Opened(m, path, flags) ==
  IF m.nr_open >= max_cache_devs THEN {<<m, NoDev>>}
  ELSE {<<[m EXCEPT !.devs[d] = [path |-> path, flags |-> flags,
                                 holders |-> 1, blocks |-> 0],
                    !.dev_tree[path] = d,
                    !.dev_lru = Append(@, d),
                    !.nr_open = @ + 1,
                    !.nr_fds = @ + 1], d>> :
          d \in {CHOOSE d \in Idevs : m.devs[d] = Closed}}
       \cup (IF "open" \in Faults THEN {<<m, NoDev>>} ELSE {})

_new_dev(m, path, flags) ==
  IF m.nr_open < max_cache_devs \/ Victims(m) = {}
  THEN Opened(m, path, flags)
  ELSE UNION {Opened(_invalidate_dev(m, Victim(m), failed), path, flags) :
                failed \in Failures(m, Victim(m))}

_need_upgrade_dev_for_excl(m, d, flags) == flags.excl /\ ~m.devs[d].flags.excl
_need_upgrade_dev(m, d, flags) ==
  \/ flags.excl /\ ~m.devs[d].flags.excl
  \/ m.devs[d].flags.ro /\ ~flags.ro

\* _upgrade_dev starts again whenever exclusive access is involved.
SlowPath_was_excl(m, d, flags) == m.devs[d].flags.excl
SlowPath(m, d, flags) == flags.excl \/ m.devs[d].flags.excl

\* The slow path: invalidate, close and start again.
OtherHolders_none(m, d) == FALSE
OtherHolders(m, d) == m.devs[d].holders # 1
Reopened(m, path, d, flags) ==
  IF OtherHolders(m, d) THEN {<<_dec_holders(m, d), NoDev>>}
  ELSE UNION {_new_dev(_dec_holders(_invalidate_dev(m, d, failed), d), path, flags) :
                failed \in Failures(m, d)}

\* The fast path: a second open, and the old fd is closed.  When the path
\* leads to another device by now, _check_same_device gives up the holder, and
\* then _upgrade_dev does so too; the new fd stays open.
Upgraded(m, d, flags) ==
  {<<[m EXCEPT !.devs[d].flags = flags], d>>}
  \cup (IF "open" \in Faults THEN {<<_dec_holders(m, d), NoDev>>} ELSE {})
  \cup (IF "renamed" \in Faults
        THEN {<<_dec_holders(_dec_holders([m EXCEPT !.nr_fds = @ + 1], d), d), NoDev>>}
        ELSE {})

\* _get_dev: a device in the table is now the most recently used one.
Used_in_place(s, d) == s
Used(s, d) == Append(RemoveFirst(s, d), d)

_get_dev(path, flags) ==
  LET d == iom.dev_tree[path]
      held == [iom EXCEPT !.devs[d].holders = @ + 1, !.dev_lru = Used(@, d)]
  IN IF d = NoDev THEN _new_dev(iom, path, flags)
     ELSE IF ~_need_upgrade_dev(held, d, flags) THEN {<<held, d>>}
     ELSE IF SlowPath(iom, d, flags)
     THEN Reopened(held, path, d, flags)
     ELSE Upgraded(held, d, flags)

io_get_dev(h, path, flags) ==
  /\ handles[h] = NoHandle
  /\ \E outcome \in _get_dev(path, flags) :
       /\ iom' = outcome[1]
       /\ handles' = IF outcome[2] = NoDev THEN handles
                     ELSE [handles EXCEPT ![h] = [dev |-> outcome[2], flags |-> flags]]
  /\ recent' = StillOpen(NowLast(path))

\* A client puts its blocks before it puts their device.
BlocksOf(d) == {f \in Frames : iom.frames[f] # Free /\ iom.frames[f].dev = d}
HeldOf(d) == {f \in BlocksOf(d) : iom.frames[f].ref}

io_put_dev(h) ==
  /\ handles[h] # NoHandle
  /\ \/ HeldOf(handles[h].dev) = {}
     \/ \E g \in Handles \ {h} : handles[g] # NoHandle /\ handles[g].dev = handles[h].dev
  /\ iom' = _dec_holders(iom, handles[h].dev)
  /\ handles' = [handles EXCEPT ![h] = NoHandle]
  /\ recent' = StillOpen(recent)

\* Called once no device is held (assert(!dev->holders) in _free_dev).  The
\* block tree is emptied first.
io_manager_destroy ==
  /\ \A h \in Handles : handles[h] = NoHandle
  /\ iom' = NothingOpen
  /\ recent' = {}
  /\ UNCHANGED handles

-----------------------------------------------------------------------------
(* What the blocks do to the devices. *)

\* A block that is not cached gets a free frame (_new_block).
miss(h, f) ==
  /\ handles[h] # NoHandle
  /\ iom.frames[f] = Free
  /\ iom' = [_inc_blocks(iom, handles[h].dev) EXCEPT !.frames[f] =
               [dev |-> handles[h].dev, in_tree |-> TRUE, dirty |-> FALSE, ref |-> FALSE]]
  /\ UNCHANGED <<handles, recent>>

\* A clean block nobody holds gives up its frame: it is evicted or
\* invalidated, or could not be read.
evicted(f) ==
  /\ iom.frames[f] # Free /\ ~iom.frames[f].dirty /\ ~iom.frames[f].ref
  /\ LET emptied == [iom EXCEPT !.frames[f] = Free]
     IN iom' = IF iom.frames[f].in_tree THEN _dec_blocks(emptied, iom.frames[f].dev, 1)
               ELSE emptied
  /\ recent' = StillOpen(recent)
  /\ UNCHANGED handles

\* A client gets a block that is cached by now.
hit(h, f) ==
  /\ handles[h] # NoHandle
  /\ f \in InTree(iom, handles[h].dev) /\ ~iom.frames[f].ref
  /\ \E dirty \in BOOLEAN :
       /\ dirty => ~handles[h].flags.ro                       \* _access_allowed
       /\ iom' = [iom EXCEPT !.frames[f].dirty = @ \/ dirty, !.frames[f].ref = TRUE]
  /\ UNCHANGED <<handles, recent>>

io_put_block(f) ==
  /\ iom.frames[f] # Free /\ iom.frames[f].ref
  /\ iom' = [iom EXCEPT !.frames[f].ref = FALSE]
  /\ UNCHANGED <<handles, recent>>

\* A writeback of a block succeeds: io_flush, or preemptive writeback.
written(f) ==
  /\ iom.frames[f] # Free /\ iom.frames[f].dirty /\ ~iom.frames[f].ref
  /\ iom' = [iom EXCEPT !.frames[f].dirty = FALSE]
  /\ UNCHANGED <<handles, recent>>

\* Called while no block of the device is held.
io_invalidate_dev(h) ==
  /\ handles[h] # NoHandle
  /\ HeldOf(handles[h].dev) = {}
  /\ \E failed \in Failures(iom, handles[h].dev) :
       iom' = _invalidate_dev(iom, handles[h].dev, failed)
  /\ UNCHANGED <<handles, recent>>

-----------------------------------------------------------------------------
Next ==
  \/ \E h \in Handles :
       \/ \E path \in Paths, flags \in Flags : io_get_dev(h, path, flags)
       \/ io_put_dev(h)
       \/ io_invalidate_dev(h)
       \/ \E f \in Frames : miss(h, f) \/ hit(h, f)
  \/ \E f \in Frames : evicted(f) \/ io_put_block(f) \/ written(f)
  \/ io_manager_destroy

Spec == Init /\ [][Next]_vars

-----------------------------------------------------------------------------
(* Properties *)

Open == {d \in Idevs : iom.devs[d] # Closed}
HandlesOf(d) == {h \in Handles : handles[h] # NoHandle /\ handles[h].dev = d}

\* "The reference counts tracks users that are holding the dev, plus all the
\* blocks on that device that are currently in the iom" (struct
\* io_dev_internal): so nobody holds, and no frame belongs to, a device that
\* was freed.
RefCountsTrack ==
  /\ \A d \in Open : /\ iom.devs[d].holders = Cardinality(HandlesOf(d))
                     /\ iom.devs[d].blocks = Cardinality(BlocksOf(d))
  /\ \A d \in Idevs \ Open : HandlesOf(d) = {} /\ BlocksOf(d) = {}

\* The tree, the lru list and the count agree on what is open; a device that
\* is neither held nor cached does not stay open; no fd leaks; the limit
\* holds.
TableOK ==
  /\ \A p \in Paths, d \in Idevs :
       iom.dev_tree[p] = d <=> d \in Open /\ iom.devs[d].path = p
  /\ Range(iom.dev_lru) = Open /\ Len(iom.dev_lru) = Cardinality(Open)
  /\ iom.nr_open = Cardinality(Open) /\ iom.nr_fds = iom.nr_open
  /\ iom.nr_open <= max_cache_devs
  /\ \A d \in Open : iom.devs[d].holders + iom.devs[d].blocks > 0

\* A device is open with at least the rights of every holder, and writable
\* as long as blocks of it are dirty.
AccessGranted ==
  /\ \A h \in Handles : handles[h] # NoHandle =>
       LET opened == iom.devs[handles[h].dev].flags
       IN /\ opened.ro => handles[h].flags.ro
          /\ handles[h].flags.excl => opened.excl
  /\ \A f \in Frames : iom.frames[f] # Free /\ iom.frames[f].dirty =>
       ~iom.devs[iom.frames[f].dev].flags.ro

\* "If blocks are in the cache that were acquired by a non exclusive holder,
\* they will all be invalidated if a device is opened exclusively" (io_get_dev).
ExclusiveStartsEmpty ==
  [][\A d \in Idevs :
       /\ iom'.devs[d] # Closed /\ iom'.devs[d].flags.excl
       /\ iom.devs[d] = Closed \/ ~iom.devs[d].flags.excl
       => InTree(iom', d) = {}]_vars

\* "If to many devices are used the least recently used dev will be closed"
\* (io_manager_create): a device that closes to make room for another had no
\* holder, and was got before every other one that had none.
ClosesLeastRecentlyUsed ==
  [][\A h \in Handles : handles[h] = NoHandle /\ handles'[h] # NoHandle =>
       LET got == iom'.devs[handles'[h].dev].path
           others == {d \in Open : iom.devs[d].path # got}
           idle == {d \in others : HandlesOf(d) = {}}
       IN \A d \in others : iom'.dev_tree[iom.devs[d].path] = NoDev =>
            /\ d \in idle
            /\ \A e \in idle : <<iom.devs[d].path, iom.devs[e].path>> \in recent]_vars
=============================================================================
