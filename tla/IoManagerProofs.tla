--------------------------- MODULE IoManagerProofs ---------------------------
(***************************************************************************)
(* The block cache and the device table together do nothing the device     *)
(* table alone does not promise, for any number of frames, blocks, devices *)
(* and holders, as long as no io fails: each step of IoManager, seen       *)
(* through the mapping of Table, is a step of DevTable or none.  So what   *)
(* is proved of each part is true of both together, and no block outlives  *)
(* its device.                                                             *)
(***************************************************************************)

EXTENDS IoManager, BlockCacheData

\* What is proved of the device table, of the table as IoManager maps it.
Dev == INSTANCE DevTableProofs WITH
  Faults <- DevFaults, iom <- Iom, recent <- GotInOrder

-----------------------------------------------------------------------------
(* Table and Dev define the same                                           *)

LEMMA SameSets ==
  /\ Table!Flags = Dev!Flags /\ Table!DevRecords = Dev!DevRecords
  /\ Table!FrameRecords = Dev!FrameRecords /\ Table!NothingOpen = Dev!NothingOpen
  /\ \A S : Dev!Cardinality(S) = Cardinality(S) /\ Dev!IsFiniteSet(S) = IsFiniteSet(S)
  /\ \A S : Table!Cardinality(S) = Cardinality(S)
<1>1. \A S : Dev!Cardinality(S) = Cardinality(S) /\ Table!Cardinality(S) = Cardinality(S)
  BY Zenon DEF Dev!Cardinality, Table!Cardinality, Cardinality
<1>2. \A S : Dev!IsFiniteSet(S) = IsFiniteSet(S)
  BY Zenon DEF Dev!IsFiniteSet, IsFiniteSet
<1> QED
  BY <1>1, <1>2 DEF Table!Flags, Dev!Flags, Table!DevRecords, Dev!DevRecords,
       Table!FrameRecords, Dev!FrameRecords, Table!NothingOpen, Dev!NothingOpen

\* DevAssumption
LEMMA DevOK ==
  /\ max_cache_devs \in Nat
  /\ NoDev \notin Idevs
  /\ Closed \notin Dev!DevRecords /\ Free \notin Dev!FrameRecords
  /\ NoHandle \notin [dev : Idevs, flags : Dev!Flags]
  /\ Dev!IsFiniteSet(Idevs) /\ Dev!IsFiniteSet(Frames) /\ Dev!IsFiniteSet(Handles)
  /\ Dev!Cardinality(Idevs) > max_cache_devs
  /\ DevFaults \subseteq {"open", "write", "renamed"}
<1>1. IsFiniteSet(Frames)
  BY FramesFinite
<1> QED BY <1>1, SameSets, TableAssumption

LEMMA SameLists ==
  /\ \A s, e : Table!RemoveFirst(s, e) = Dev!RemoveFirst(s, e)
  /\ \A s : Table!Range(s) = Dev!Range(s)
  /\ \A m : Table!Victims(m) = Dev!Victims(m) /\ Table!Victim(m) = Dev!Victim(m)
<1>1. \A S : Table!Min(S) = Dev!Min(S)
  BY DEF Table!Min, Dev!Min
<1>2. \A s, i : Table!RemoveAt(s, i) = Dev!RemoveAt(s, i)
  BY DEF Table!RemoveAt, Dev!RemoveAt
<1>3. \A s, e : Table!RemoveFirst(s, e) = Dev!RemoveFirst(s, e)
  BY <1>1, <1>2 DEF Table!RemoveFirst, Dev!RemoveFirst, Table!SelectInSeq, Dev!SelectInSeq
<1>4. \A s : Table!Range(s) = Dev!Range(s)
  BY DEF Table!Range, Dev!Range
<1>5. \A m : Table!Victims(m) = Dev!Victims(m)
  BY <1>4 DEF Table!Victims, Dev!Victims, Table!Unheld, Dev!Unheld
<1>6. \A m : Table!Victim(m) = Dev!Victim(m)
  BY <1>1 DEF Table!Victim, Dev!Victim, Table!Unheld, Dev!Unheld,
       Table!SelectInSeq, Dev!SelectInSeq
<1> QED BY <1>3, <1>4, <1>5, <1>6

LEMMA SameCounts ==
  /\ \A m, d : Table!_dev_maybe_close(m, d) = Dev!_dev_maybe_close(m, d)
  /\ \A m, d : Table!_dec_holders(m, d) = Dev!_dec_holders(m, d)
  /\ \A m, d : Table!_inc_blocks(m, d) = Dev!_inc_blocks(m, d)
  /\ \A m, d, n : Table!_dec_blocks(m, d, n) = Dev!_dec_blocks(m, d, n)
  /\ \A m, d : Table!InTree(m, d) = Dev!InTree(m, d)
  /\ \A m, d, failed : Table!_invalidate_dev(m, d, failed) = Dev!_invalidate_dev(m, d, failed)
<1>1. ASSUME NEW m, NEW d PROVE Table!_dev_maybe_close(m, d) = Dev!_dev_maybe_close(m, d)
  <2> DEFINE closed(s) ==
        [m EXCEPT !.devs[d] = Closed, !.dev_tree[m.devs[d].path] = NoDev, !.dev_lru = s,
                  !.nr_open = @ - 1, !.nr_fds = @ - 1]
  <2>1. closed(Table!RemoveFirst(m.dev_lru, d)) = closed(Dev!RemoveFirst(m.dev_lru, d))
    <3> HIDE DEF closed
    <3> QED BY SameLists
  <2> QED BY Zenon, <2>1 DEF Table!_dev_maybe_close, Dev!_dev_maybe_close
<1>2. \A m, d : Table!_dec_holders(m, d) = Dev!_dec_holders(m, d)
  BY <1>1 DEF Table!_dec_holders, Dev!_dec_holders
<1>3. \A m, d : Table!_inc_blocks(m, d) = Dev!_inc_blocks(m, d)
  BY DEF Table!_inc_blocks, Dev!_inc_blocks
<1>4. \A m, d, n : Table!_dec_blocks(m, d, n) = Dev!_dec_blocks(m, d, n)
  BY <1>1 DEF Table!_dec_blocks, Dev!_dec_blocks
<1>5. \A m, d : Table!InTree(m, d) = Dev!InTree(m, d)
  BY DEF Table!InTree, Dev!InTree
<1>6. \A m, d, failed : Table!_invalidate_dev(m, d, failed) = Dev!_invalidate_dev(m, d, failed)
  <2> SUFFICES ASSUME NEW m, NEW d, NEW failed
               PROVE  Table!_invalidate_dev(m, d, failed) = Dev!_invalidate_dev(m, d, failed)
    BY Zenon
  <2> DEFINE visited == Dev!InTree(m, d)
             kept == {f \in visited : m.frames[f].ref \/ f \in failed}
             frame(f) == IF f \in visited \ kept THEN Free
                         ELSE IF f \in kept
                         THEN [m.frames[f] EXCEPT !.in_tree = FALSE, !.dirty = f \in failed]
                         ELSE m.frames[f]
             n == [m EXCEPT !.frames = [f \in Frames |-> frame(f)]]
  <2>1. Table!_invalidate_dev(m, d, failed) = Table!_dec_blocks(n, d, Table!Cardinality(visited))
    BY <1>5, Zenon DEF Table!_invalidate_dev
  <2>2. Dev!_invalidate_dev(m, d, failed) = Dev!_dec_blocks(n, d, Dev!Cardinality(visited))
    BY Zenon DEF Dev!_invalidate_dev
  <2> HIDE DEF n, visited
  <2>3. Table!Cardinality(visited) = Dev!Cardinality(visited)
    BY SameSets
  <2> QED BY <1>4, <2>1, <2>2, <2>3, Zenon
<1> QED BY <1>1, <1>2, <1>3, <1>4, <1>5, <1>6

LEMMA SameGets ==
  /\ \A m, d : Table!Unheld(m, d) = Dev!Unheld(m, d)
  /\ \A m, path, flags : Table!Opened(m, path, flags) = Dev!Opened(m, path, flags)
  /\ \A m, d, flags : Table!_need_upgrade_dev(m, d, flags) = Dev!_need_upgrade_dev(m, d, flags)
  /\ \A m, d, flags : Table!SlowPath(m, d, flags) = Dev!SlowPath(m, d, flags)
  /\ \A m, d : [m EXCEPT !.devs[d].holders = @ + 1, !.dev_lru = Table!Used(@, d)] = Dev!HeldIn(m, d)
  /\ \A path, flags : Table!_get_dev(path, flags) = Dev!_get_dev(path, flags)
<1>1. \A m, d : Table!Unheld(m, d) = Dev!Unheld(m, d)
  BY DEF Table!Unheld, Dev!Unheld
<1>2. \A m, path, flags : Table!Opened(m, path, flags) = Dev!Opened(m, path, flags)
  BY Zenon DEF Table!Opened, Dev!Opened
<1>3. /\ \A m, d, flags : Table!_need_upgrade_dev(m, d, flags) = Dev!_need_upgrade_dev(m, d, flags)
      /\ \A m, d, flags : Table!SlowPath(m, d, flags) = Dev!SlowPath(m, d, flags)
  BY DEF Table!_need_upgrade_dev, Dev!_need_upgrade_dev, Table!SlowPath, Dev!SlowPath
<1>4. ASSUME NEW m, NEW d
      PROVE  [m EXCEPT !.devs[d].holders = @ + 1, !.dev_lru = Table!Used(@, d)] = Dev!HeldIn(m, d)
  <2> DEFINE held(s) == [m EXCEPT !.devs[d].holders = @ + 1, !.dev_lru = s]
  <2>1. Table!Used(m.dev_lru, d) = Dev!Used(m.dev_lru, d)
    BY SameLists DEF Table!Used, Dev!Used
  <2>2. held(Table!Used(m.dev_lru, d)) = held(Dev!Used(m.dev_lru, d))
    <3> HIDE DEF held
    <3> QED BY <2>1
  <2> QED BY Zenon, <2>2 DEF Dev!HeldIn
<1>5. \A m, d : Table!Failures(m, d) = Dev!Failures(m, d)
  BY Zenon DEF Table!Failures, Dev!Failures, Table!InTree, Dev!InTree
<1>6. \A m, path, flags : Table!_new_dev(m, path, flags) = Dev!_new_dev(m, path, flags)
  BY <1>2, <1>5, SameLists, SameCounts DEF Table!_new_dev, Dev!_new_dev
<1>7. \A m, path, d, flags : Table!Reopened(m, path, d, flags) = Dev!Reopened(m, path, d, flags)
  BY <1>5, <1>6, SameCounts
     DEF Table!Reopened, Dev!Reopened, Table!OtherHolders, Dev!OtherHolders
<1>8. \A m, d, flags : Table!Upgraded(m, d, flags) = Dev!Upgraded(m, d, flags)
  BY SameCounts DEF Table!Upgraded, Dev!Upgraded
<1>9. ASSUME NEW path, NEW flags PROVE Table!_get_dev(path, flags) = Dev!_get_dev(path, flags)
  <2> DEFINE d == Iom.dev_tree[path]
             h == [Iom EXCEPT !.devs[d].holders = @ + 1, !.dev_lru = Table!Used(@, d)]
             get(held) ==
               IF d = NoDev THEN Dev!_new_dev(Iom, path, flags)
               ELSE IF ~Dev!_need_upgrade_dev(held, d, flags) THEN {<<held, d>>}
               ELSE IF Dev!SlowPath(Iom, d, flags) THEN Dev!Reopened(held, path, d, flags)
               ELSE Dev!Upgraded(held, d, flags)
  <2>1. Table!_get_dev(path, flags) =
          IF d = NoDev THEN Table!_new_dev(Iom, path, flags)
          ELSE IF ~Table!_need_upgrade_dev(h, d, flags) THEN {<<h, d>>}
          ELSE IF Table!SlowPath(Iom, d, flags) THEN Table!Reopened(h, path, d, flags)
          ELSE Table!Upgraded(h, d, flags)
    BY Zenon DEF Table!_get_dev
  <2>2. Dev!_get_dev(path, flags) = get(Dev!HeldIn(Iom, d))
    BY Zenon DEF Dev!_get_dev, Dev!HeldIn
  <2>3. h = Dev!HeldIn(Iom, d)
    BY <1>4
  <2> HIDE DEF h, d
  <2>4. Table!_get_dev(path, flags) = get(h)
    BY <1>3, <1>6, <1>7, <1>8, <2>1
  <2>5. get(h) = get(Dev!HeldIn(Iom, d))
    <3> HIDE DEF get
    <3> QED BY <2>3
  <2> QED BY <2>2, <2>4, <2>5
<1> QED BY <1>1, <1>2, <1>3, <1>4, <1>9

LEMMA SameSpec ==
  /\ Table!Init <=> Dev!Init
  /\ Table!Next <=> Dev!Next
  /\ Table!vars = Dev!vars
<1>1. Table!Init <=> Dev!Init
  BY Zenon DEF Table!Init, Dev!Init, Table!NothingOpen, Dev!NothingOpen
<1>2. \A h \in Handles, path \in Paths, flags \in Table!Flags :
        Table!io_get_dev(h, path, flags) <=> Dev!io_get_dev(h, path, flags)
  BY Zenon, SameGets DEF Table!io_get_dev, Dev!io_get_dev, Table!StillOpen, Dev!StillOpen,
       Table!NowLast, Dev!NowLast
<1>3. \A d : Table!HeldOf(d) = Dev!HeldOf(d)
  BY DEF Table!HeldOf, Dev!HeldOf, Table!BlocksOf, Dev!BlocksOf
<1>4. \A h \in Handles : Table!io_put_dev(h) <=> Dev!io_put_dev(h)
  BY Zenon, <1>3, SameCounts DEF Table!io_put_dev, Dev!io_put_dev, Table!StillOpen, Dev!StillOpen
<1>5. \A h \in Handles : Table!io_invalidate_dev(h) <=> Dev!io_invalidate_dev(h)
  BY Zenon, <1>3, SameCounts DEF Table!io_invalidate_dev, Dev!io_invalidate_dev,
       Table!Failures, Dev!Failures
<1>6. \A h \in Handles, f \in Frames : Table!miss(h, f) <=> Dev!miss(h, f)
  BY Zenon DEF Table!miss, Dev!miss, Table!_inc_blocks, Dev!_inc_blocks
<1>7. \A h \in Handles, f \in Frames : Table!hit(h, f) <=> Dev!hit(h, f)
  BY Zenon DEF Table!hit, Dev!hit, Table!InTree, Dev!InTree
<1>8. \A f \in Frames : Table!evicted(f) <=> Dev!evicted(f)
  BY Zenon, SameCounts DEF Table!evicted, Dev!evicted, Table!StillOpen, Dev!StillOpen
<1>9. \A f \in Frames : Table!io_put_block(f) \/ Table!written(f) <=> Dev!io_put_block(f) \/ Dev!written(f)
  BY Zenon DEF Table!io_put_block, Dev!io_put_block, Table!written, Dev!written
<1>10. Table!io_manager_destroy <=> Dev!io_manager_destroy
  BY Zenon DEF Table!io_manager_destroy, Dev!io_manager_destroy, Table!NothingOpen, Dev!NothingOpen
<1>11. Table!Next <=> Dev!Next
  BY <1>2, <1>4, <1>5, <1>6, <1>7, <1>8, <1>9, <1>10, SameSets DEF Table!Next, Dev!Next
<1>12. Table!vars = Dev!vars
  BY DEF Table!vars, Dev!vars
<1> QED BY <1>1, <1>11, <1>12

-----------------------------------------------------------------------------
(* The invariant                                                           *)

\* The clients and the faults the theorems are about.
OnlyOpensFail == QuietClients /\ Faults = {} /\ DevFaults \subseteq {"open"}

\* An io_get_dev that waits found no room, or has to open its device again.
FoundNoRoom(g) ==
  /\ g.before.dev_tree[g.path] = NoDev /\ g.before.nr_open >= max_cache_devs
  /\ Dev!Victims(g.before) # {} /\ g.dev = Dev!Victim(g.before) /\ table = g.before
MustReopen(g) ==
  /\ g.before.dev_tree[g.path] = g.dev
  /\ Dev!_need_upgrade_dev(g.before, g.dev, g.flags) /\ Dev!SlowPath(g.before, g.dev, g.flags)
  /\ Dev!Unheld(g.before, g.dev) /\ table = Dev!HeldIn(g.before, g.dev)

TableOK == table = Devices(table) /\ (getting # NoGet => getting \in Gets)
GetWaits ==
  getting # NoGet =>
    /\ call.op = "invalidate_dev" /\ DevOf[call.key] = getting.before.devs[getting.dev].path
    /\ handles[getting.h] = NoHandle
    /\ FoundNoRoom(getting) \/ MustReopen(getting)

\* The block of a call is on a device that a client has, with the rights it
\* takes.
GetHolds ==
  call.op \in {"get", "prefetch"} =>
    /\ call.key \in Keys
    /\ \E h \in Handles : IsOpen(h, call.key) /\ (call.mode.type # "read" => ~handles[h].flags.ro)

CallsOpen ==
  /\ call.pc = "idle" => call.op = "none"
  /\ call.op = "prefetch" => call.mode = ReadMode
  /\ call.op = "invalidate_dev" /\ getting = NoGet => \E h \in Handles : IsOpen(h, call.key)
  /\ call.op = "destroy" => \A h \in Handles : handles[h] = NoHandle

PlacesOpen ==
  /\ call.pc = "finish_get" => call.op = "get"
  /\ call.op = "get" /\ call.pc \in {"wait_block", "finish_get"} =>
       /\ blocks[call.f].key = call.key
       /\ call.mode.type # "read" => blocks[call.f].ref_count = 0
  /\ call.pc = "wait_written" /\ ~blocks[call.f].pending => blocks[call.f].dirty_bits = {}

CachedOpen == \A k \in Keys : Cached(k) => Before.dev_tree[DevOf[k]] # NoDev

MInv ==
  /\ SafeInv /\ Dev!FullInv
  /\ TableOK /\ GetWaits /\ GetHolds /\ CallsOpen /\ PlacesOpen /\ CachedOpen

-----------------------------------------------------------------------------
(* The mapping                                                             *)

Image(tree, b) ==
  [dev |-> tree[DevOf[b.key]], in_tree |-> TRUE, dirty |-> b.dirty_bits # {},
   ref |-> b.ref_count > 0]

Mapped(f) == blocks[f].key # NoKey /\ rtree[blocks[f].key] = f

FrameIs(f) == FrameOf(f) = IF Mapped(f) THEN Image(Before.dev_tree, blocks[f]) ELSE Free
FramesAre == \A f \in Frames : FrameIs(f)

LEMMA FramesAreSo == FramesAre
<1> SUFFICES ASSUME NEW f \in Frames PROVE FrameIs(f)
  BY DEF FramesAre
<1>1. (f \in Held) = (blocks[f].ref_count > 0)
  BY DEF Held
<1> QED BY Zenon, <1>1 DEF FrameIs, FrameOf, Mapped, Image

LEMMA FramesNext == FramesAre'
BY FramesAreSo, PTL

\* The frames of the cached blocks.
TreeFacts ==
  /\ \A k \in Keys : Cached(k) => rtree[k] \in Frames /\ blocks[rtree[k]].key = k /\ Mapped(rtree[k])
  /\ \A f \in Frames : Mapped(f) => blocks[f].key \in Keys /\ Cached(blocks[f].key)

LEMMA TreeIs == SafeInv /\ TreeStays => TreeFacts
<1> SUFFICES ASSUME SafeInv, TreeStays PROVE TreeFacts
  OBVIOUS
<1>1. \A k \in Keys : rtree[k] # NoFrame => rtree[k] \in Frames /\ blocks[rtree[k]].key = k
  BY CachedFacts
<1>2. ASSUME NEW f \in Frames, Mapped(f) PROVE blocks[f].key \in Keys /\ Cached(blocks[f].key)
  <2>1. TypeOK /\ NoFrame \notin Frames
    BY CachedFacts DEF SafeInv, TypeInv
  <2> QED BY <1>2, <2>1 DEF TypeOK, Blocks, Mapped, Cached
<1> QED BY <1>1, <1>2, KeyAssumption DEF TreeFacts, Mapped, Cached

LEMMA TreeNext ==
  ASSUME SafeInv', TreeStays
  PROVE  TreeFacts'
<1>1. TreeStays'
  BY DEF TreeStays
<1> QED BY <1>1, TreeIs, PTL

LEMMA IomFields ==
  /\ Iom.devs = Before.devs /\ Iom.dev_tree = Before.dev_tree /\ Iom.dev_lru = Before.dev_lru
  /\ Iom.nr_open = Before.nr_open /\ Iom.nr_fds = Before.nr_fds
  /\ Iom.frames = [f \in Frames |-> FrameOf(f)]
  /\ Devices(Iom) = Devices(Before)
BY DEF Iom, WithFrames, Devices

LEMMA BeforeIs ==
  ASSUME TableOK
  PROVE  Before = Devices(Before) /\ Devices(Iom) = Before
<1>1. CASE getting = NoGet
  BY <1>1, IomFields DEF TableOK, Before
<1>2. CASE getting # NoGet
  <2>1. getting.before \in Tables
    BY <1>2 DEF TableOK, Gets
  <2>2. getting.before = Devices(getting.before)
    BY <2>1 DEF Tables, Devices
  <2> QED BY <1>2, <2>2, IomFields DEF Before
<1> QED BY <1>1, <1>2

LEMMA PathTypes == \A k \in Keys : DevOf[k] \in Paths
BY PathAssumption DEF Devs

\* The state that IoManager maps to is sound.
LEMMA IomSound ==
  ASSUME MInv
  PROVE  /\ Dev!IInv /\ Dev!Sound(Iom) /\ Dev!TableIn(Iom) /\ Dev!InUse(Iom)
         /\ Iom \in Dev!Managers
BY DEF MInv, Dev!FullInv, Dev!IInv, Dev!Sound, Dev!TableIn

LEMMA OrderIs ==
  ASSUME Dev!TableIn(Iom)
  PROVE  GotInOrder = Dev!Order(Iom)
<1> DEFINE s == Iom.dev_lru
           path(i) == Iom.devs[s[i]].path
<1>1. GotInOrder =
        UNION {{<<path(i), path(j)>> : j \in {j \in DOMAIN s : i <= j}} : i \in DOMAIN s}
  BY IomFields DEF GotInOrder
<1>2. \A i \in DOMAIN s : path(i) \in Paths
  <2> TAKE i \in DOMAIN s
  <2>1. Dev!Range(s) = Dev!OpenIn(Iom) /\ s[i] \in Dev!Range(s)
    BY DEF Dev!TableIn, Dev!Range
  <2> QED BY <2>1, DevOK, Dev!OpenPath
<1>3. \A pq : pq \in GotInOrder <=>
              \E i, j \in DOMAIN s : i <= j /\ pq = <<path(i), path(j)>>
  BY <1>1
<1>4. \A pq : pq \in Dev!Order(Iom) <=>
              \E i, j \in DOMAIN s : i <= j /\ pq = <<path(i), path(j)>>
  <2> TAKE pq
  <2>1. ASSUME pq \in Dev!Order(Iom)
        PROVE  \E i, j \in DOMAIN s : i <= j /\ pq = <<path(i), path(j)>>
    <3>1. PICK x, y : /\ Dev!Precedes(s, x, y) /\ pq \in Paths \X Paths
                      /\ Iom.devs[x].path = pq[1] /\ Iom.devs[y].path = pq[2]
      BY <2>1 DEF Dev!Order
    <3>2. PICK i, j \in DOMAIN s : i <= j /\ s[i] = x /\ s[j] = y
      BY <3>1 DEF Dev!Precedes
    <3> QED BY <3>1, <3>2
  <2>2. ASSUME NEW i \in DOMAIN s, NEW j \in DOMAIN s, i <= j, pq = <<path(i), path(j)>>
        PROVE  pq \in Dev!Order(Iom)
    <3>1. pq \in Paths \X Paths
      BY <1>2, <2>2
    <3>2. Dev!Precedes(s, s[i], s[j])
      BY <2>2 DEF Dev!Precedes
    <3> QED BY <2>2, <3>1, <3>2 DEF Dev!Order
  <2> QED BY <2>1, <2>2
<1> HIDE DEF s, path
<1> QED BY <1>3, <1>4

\* A state with the devices and the frames of r is mapped to r.
LEMMA Becomes ==
  ASSUME NEW r \in Dev!Managers, Before' = Devices(r), \A f \in Frames : FrameOf(f)' = r.frames[f]
  PROVE  Iom' = r
<1>1. /\ Iom' = WithFrames(Before', [f \in Frames |-> FrameOf(f)'])
      /\ r.frames \in [Frames -> Dev!FrameRecords \cup {Free}]
  BY DEF Iom, Dev!Managers
<1>2. [f \in Frames |-> FrameOf(f)'] = r.frames
  BY <1>1
<1>3. WithFrames(Devices(r), r.frames) = r
  BY DEF WithFrames, Devices, Dev!Managers
<1> QED BY <1>1, <1>2, <1>3

\* The blocks that are cached in r were so before, on the same devices.
PathsStay(r) ==
  \A f \in Frames, p \in Paths :
    r.frames[f] # Free /\ r.frames[f].in_tree /\ r.frames[f].dev = Iom.dev_tree[p]
    => r.dev_tree[p] = Iom.dev_tree[p]

LEMMA Maps ==
  ASSUME OnlyOpensFail, SafeInv', NEW r, Dev!Sound(r), Before' = Devices(r), PathsStay(r),
         \A f \in Frames :
           IF Mapped(f)' THEN /\ r.frames[f] = Image(Iom.dev_tree, blocks'[f])
                              /\ Iom.dev_tree[DevOf[blocks'[f].key]] \in Idevs
           ELSE r.frames[f] = Free
  PROVE  Iom' = r /\ CachedOpen'
<1>1. r \in Dev!Managers /\ TreeFacts'
  BY TreeNext DEF OnlyOpensFail, TreeStays, Dev!Sound, Dev!TableIn
<1>2. Before'.dev_tree = r.dev_tree
  BY DEF Devices
<1>3. ASSUME NEW f \in Frames, Mapped(f)'
      PROVE  /\ blocks'[f].key \in Keys
             /\ r.dev_tree[DevOf[blocks'[f].key]] = Iom.dev_tree[DevOf[blocks'[f].key]]
             /\ FrameOf(f)' = r.frames[f]
  <2> DEFINE p == DevOf[blocks'[f].key]
  <2>1. blocks'[f].key \in Keys /\ p \in Paths
    <3>1. blocks'[f].key \in Keys
      BY <1>1, <1>3 DEF TreeFacts
    <3> QED BY <3>1, PathTypes
  <2>2. /\ r.frames[f] = Image(Iom.dev_tree, blocks'[f])
        /\ Iom.dev_tree[p] \in Idevs
    BY <1>3
  <2>3. r.frames[f].in_tree /\ r.frames[f].dev = Iom.dev_tree[p]
    BY <2>2 DEF Image
  <2>4. r.frames[f] # Free
    <3>1. r.frames[f] \in Dev!FrameRecords
      BY <2>2 DEF Image, Dev!FrameRecords
    <3> QED BY <3>1, DevOK
  <2>5. r.dev_tree[p] = Iom.dev_tree[p]
    BY <2>1, <2>3, <2>4 DEF PathsStay
  <2>6. FrameOf(f)' = Image(r.dev_tree, blocks'[f])
    BY <1>2, <1>3, FramesNext DEF FramesAre, FrameIs
  <2>7. Image(r.dev_tree, blocks'[f]) = Image(Iom.dev_tree, blocks'[f])
    BY <2>5 DEF Image
  <2> QED BY <2>1, <2>2, <2>5, <2>6, <2>7
<1>4. ASSUME NEW f \in Frames, ~Mapped(f)' PROVE FrameOf(f)' = r.frames[f]
  BY <1>4, FramesNext DEF FramesAre, FrameIs
<1>5. Iom' = r
  BY <1>1, <1>3, <1>4, Becomes
<1>6. ASSUME NEW k \in Keys, Cached(k)' PROVE Before'.dev_tree[DevOf[k]] # NoDev
  <2>1. PICK f \in Frames : blocks'[f].key = k /\ Mapped(f)'
    BY <1>1, <1>6 DEF TreeFacts
  <2>2. Iom.dev_tree[DevOf[k]] \in Idevs
    BY <2>1
  <2>3. r.dev_tree[DevOf[k]] = Iom.dev_tree[DevOf[k]]
    BY <1>3, <2>1
  <2> QED BY <1>2, <2>2, <2>3, DevOK
<1> QED BY <1>5, <1>6 DEF CachedOpen

-----------------------------------------------------------------------------
(* The counts do not look at the frames                                    *)

Record(m) ==
  m = [devs |-> m.devs, dev_tree |-> m.dev_tree, dev_lru |-> m.dev_lru,
       nr_open |-> m.nr_open, nr_fds |-> m.nr_fds, frames |-> m.frames]

LEMMA ManagersAreRecords ==
  ASSUME NEW m \in Dev!Managers
  PROVE  Record(m)
BY DEF Record, Dev!Managers

WithDevs(m, devs) == [m EXCEPT !.devs = devs]

LEMMA DevsOf ==
  ASSUME NEW m, Record(m), NEW devs
  PROVE  /\ Record(WithDevs(m, devs)) /\ WithDevs(m, devs).frames = m.frames
         /\ Devices(WithDevs(m, devs)) = WithDevs(Devices(m), devs)
BY DEF Record, Devices, WithDevs

Edited(m, devs, tree, lru, open, fds) ==
  [m EXCEPT !.devs = devs, !.dev_tree = tree, !.dev_lru = lru, !.nr_open = open, !.nr_fds = fds]

LEMMA EditedIs ==
  ASSUME NEW m, NEW devs, NEW tree, NEW lru, NEW open, NEW fds
  PROVE  Edited(Devices(m), devs, tree, lru, open, fds) =
           [devs |-> devs, dev_tree |-> tree, dev_lru |-> lru, nr_open |-> open, nr_fds |-> fds]
<1> DEFINE e == Edited(Devices(m), devs, tree, lru, open, fds)
<1>1. DOMAIN e = {"devs", "dev_tree", "dev_lru", "nr_open", "nr_fds"}
  BY DEF Devices, Edited
<1>2. e = [x \in DOMAIN e |-> e[x]]
  BY DEF Edited
<1>3. e.devs = devs /\ e.dev_tree = tree /\ e.dev_lru = lru /\ e.nr_open = open /\ e.nr_fds = fds
  BY DEF Devices, Edited
<1>4. e = [devs |-> devs, dev_tree |-> tree, dev_lru |-> lru, nr_open |-> open, nr_fds |-> fds]
  <2> HIDE DEF e
  <2> QED BY <1>1, <1>2, <1>3
<1> QED BY <1>4

LEMMA EditedOf ==
  ASSUME NEW m, Record(m), NEW devs, NEW tree, NEW lru, NEW open, NEW fds
  PROVE  /\ Record(Edited(m, devs, tree, lru, open, fds))
         /\ Edited(m, devs, tree, lru, open, fds).frames = m.frames
         /\ Devices(Edited(m, devs, tree, lru, open, fds)) =
              Edited(Devices(m), devs, tree, lru, open, fds)
<1> DEFINE e == Edited(m, devs, tree, lru, open, fds)
<1>1. e = [devs |-> devs, dev_tree |-> tree, dev_lru |-> lru, nr_open |-> open,
           nr_fds |-> fds, frames |-> m.frames]
  <2>1. DOMAIN e = {"devs", "dev_tree", "dev_lru", "nr_open", "nr_fds", "frames"}
    BY DEF Record, Edited
  <2>2. e = [x \in DOMAIN e |-> e[x]]
    BY DEF Edited
  <2>3. /\ e.devs = devs /\ e.dev_tree = tree
        /\ e.dev_lru = lru /\ e.nr_open = open /\ e.nr_fds = fds /\ e.frames = m.frames
    BY DEF Record, Edited
  <2> HIDE DEF e
  <2> QED BY <2>1, <2>2, <2>3
<1>2. Record(e) /\ e.frames = m.frames /\ Devices(e) = Edited(Devices(m), devs, tree, lru, open, fds)
  <2> HIDE DEF e
  <2> QED BY <1>1, EditedIs DEF Record, Devices
<1> QED BY <1>2

LEMMA CloseOf ==
  ASSUME NEW m, Record(m), NEW d
  PROVE  /\ Record(Dev!_dev_maybe_close(m, d)) /\ Dev!_dev_maybe_close(m, d).frames = m.frames
         /\ Devices(Dev!_dev_maybe_close(m, d)) = Dev!_dev_maybe_close(Devices(m), d)
<1>1. Devices(m).devs = m.devs
  BY DEF Devices
<1>2. CASE m.devs[d].holders > 0 \/ m.devs[d].blocks > 0
  BY <1>1, <1>2 DEF Dev!_dev_maybe_close
<1>3. CASE ~(m.devs[d].holders > 0 \/ m.devs[d].blocks > 0)
  <2> DEFINE closed(x) ==
        [x EXCEPT !.devs[d] = Closed, !.dev_tree[x.devs[d].path] = NoDev,
                  !.dev_lru = Dev!RemoveFirst(@, d), !.nr_open = @ - 1, !.nr_fds = @ - 1]
  <2>1. Dev!_dev_maybe_close(m, d) = closed(m)
    BY <1>3, Zenon DEF Dev!_dev_maybe_close
  <2>2. Dev!_dev_maybe_close(Devices(m), d) = closed(Devices(m))
    BY <1>1, <1>3, Zenon DEF Dev!_dev_maybe_close
  <2>3. PICK devs, tree, lru : devs = [m.devs EXCEPT ![d] = Closed]
                               /\ tree = [m.dev_tree EXCEPT ![m.devs[d].path] = NoDev]
                               /\ lru = Dev!RemoveFirst(m.dev_lru, d)
    OBVIOUS
  <2>4. closed(m) = Edited(m, devs, tree, lru, m.nr_open - 1, m.nr_fds - 1)
    BY <2>3 DEF Edited, Record
  <2>5. closed(Devices(m)) = Edited(Devices(m), devs, tree, lru, m.nr_open - 1, m.nr_fds - 1)
    BY <2>3 DEF Edited, Devices
  <2>6. Record(closed(m)) /\ closed(m).frames = m.frames /\ Devices(closed(m)) = closed(Devices(m))
    <3> HIDE DEF closed
    <3> QED BY <2>4, <2>5, EditedOf
  <2> HIDE DEF closed
  <2> QED BY <2>1, <2>2, <2>6
<1> QED BY <1>2, <1>3

LEMMA DecBlocksOf ==
  ASSUME NEW m, Record(m), NEW d, NEW n
  PROVE  /\ Record(Dev!_dec_blocks(m, d, n)) /\ Dev!_dec_blocks(m, d, n).frames = m.frames
         /\ Devices(Dev!_dec_blocks(m, d, n)) = Dev!_dec_blocks(Devices(m), d, n)
<1> DEFINE devs == [m.devs EXCEPT ![d].blocks = @ - n]
<1>1. Devices(m).devs = m.devs
  BY DEF Devices
<1>2. [m EXCEPT !.devs[d].blocks = @ - n] = WithDevs(m, devs)
  BY DEF WithDevs, Record
<1>3. [Devices(m) EXCEPT !.devs[d].blocks = @ - n] = WithDevs(Devices(m), devs)
  BY DEF WithDevs, Devices
<1>4. Dev!_dec_blocks(m, d, n) = IF n = 0 THEN m ELSE Dev!_dev_maybe_close(WithDevs(m, devs), d)
  <2> HIDE DEF devs
  <2> QED BY <1>2, Zenon DEF Dev!_dec_blocks
<1>5. Dev!_dec_blocks(Devices(m), d, n) =
        IF n = 0 THEN Devices(m) ELSE Dev!_dev_maybe_close(WithDevs(Devices(m), devs), d)
  <2> HIDE DEF devs
  <2> QED BY <1>3, Zenon DEF Dev!_dec_blocks
<1> HIDE DEF devs
<1> QED BY <1>4, <1>5, DevsOf, CloseOf

LEMMA DecHoldersOf ==
  ASSUME NEW m, Record(m), NEW d
  PROVE  /\ Record(Dev!_dec_holders(m, d)) /\ Dev!_dec_holders(m, d).frames = m.frames
         /\ Devices(Dev!_dec_holders(m, d)) = Dev!_dec_holders(Devices(m), d)
<1> DEFINE devs == [m.devs EXCEPT ![d].holders = @ - 1]
           none == m.devs[d] = Closed \/ m.devs[d].holders = 0
<1>1. Devices(m).devs = m.devs
  BY DEF Devices
<1>2. [m EXCEPT !.devs[d].holders = @ - 1] = WithDevs(m, devs)
  BY DEF WithDevs, Record
<1>3. [Devices(m) EXCEPT !.devs[d].holders = @ - 1] = WithDevs(Devices(m), devs)
  BY DEF WithDevs, Devices
<1>4. Dev!_dec_holders(m, d) = IF none THEN m ELSE Dev!_dev_maybe_close(WithDevs(m, devs), d)
  <2> HIDE DEF devs
  <2> QED BY <1>2, Zenon DEF Dev!_dec_holders
<1>5. Dev!_dec_holders(Devices(m), d) =
        IF none THEN Devices(m) ELSE Dev!_dev_maybe_close(WithDevs(Devices(m), devs), d)
  <2> HIDE DEF devs
  <2> QED BY <1>1, <1>3, Zenon DEF Dev!_dec_holders
<1> HIDE DEF devs, none
<1> QED BY <1>4, <1>5, DevsOf, CloseOf

LEMMA IncBlocksOf ==
  ASSUME NEW m, Record(m), NEW d
  PROVE  /\ Record(Dev!_inc_blocks(m, d)) /\ Dev!_inc_blocks(m, d).frames = m.frames
         /\ Devices(Dev!_inc_blocks(m, d)) = Dev!_inc_blocks(Devices(m), d)
BY DEF Dev!_inc_blocks, Record, Devices

LEMMA HeldInOf ==
  ASSUME NEW m, Record(m), NEW d
  PROVE  /\ Record(Dev!HeldIn(m, d)) /\ Dev!HeldIn(m, d).frames = m.frames
         /\ Devices(Dev!HeldIn(m, d)) = Dev!HeldIn(Devices(m), d)
<1> DEFINE held(x) == [x EXCEPT !.devs[d].holders = @ + 1, !.dev_lru = Dev!Used(@, d)]
<1>1. PICK devs, lru : devs = [m.devs EXCEPT ![d].holders = @ + 1] /\ lru = Dev!Used(m.dev_lru, d)
  OBVIOUS
<1>2. held(m) = Edited(m, devs, m.dev_tree, lru, m.nr_open, m.nr_fds)
  BY <1>1 DEF Edited, Record
<1>3. held(Devices(m)) = Edited(Devices(m), devs, m.dev_tree, lru, m.nr_open, m.nr_fds)
  <2> DEFINE e == held(Devices(m))
  <2>1. DOMAIN e = {"devs", "dev_tree", "dev_lru", "nr_open", "nr_fds"}
    BY DEF Devices
  <2>2. e = [x \in DOMAIN e |-> e[x]]
    OBVIOUS
  <2>3. /\ e.devs = devs /\ e.dev_tree = m.dev_tree
        /\ e.dev_lru = lru /\ e.nr_open = m.nr_open /\ e.nr_fds = m.nr_fds
    BY <1>1 DEF Devices
  <2>4. e = Edited(Devices(m), devs, m.dev_tree, lru, m.nr_open, m.nr_fds)
    <3> HIDE DEF e
    <3> QED BY <2>1, <2>2, <2>3, EditedIs
  <2> QED BY <2>4
<1>4. Dev!HeldIn(m, d) = held(m) /\ Dev!HeldIn(Devices(m), d) = held(Devices(m))
  BY Zenon DEF Dev!HeldIn
<1> HIDE DEF held
<1> QED BY <1>2, <1>3, <1>4, EditedOf

\* The frames of a device may be replaced by others.
LEMMA FramesOf ==
  ASSUME NEW m, Record(m), NEW frames, NEW r, r = [m EXCEPT !.frames = frames]
  PROVE  Record(r) /\ r.frames = frames /\ Devices(r) = Devices(m)
BY DEF Record, Devices

\* Opening a device leaves the frames alone.
LEMMA OpenedOf ==
  ASSUME NEW m, Record(m), NEW path, NEW flags,
         NEW outcome \in Dev!Opened(Devices(m), path, flags)
  PROVE  \E r : /\ <<r, outcome[2]>> \in Dev!Opened(m, path, flags)
                /\ Record(r) /\ r.frames = m.frames /\ outcome[1] = Devices(r)
<1> DEFINE d == CHOOSE d \in Idevs : m.devs[d] = Closed
           opens(x) == [x EXCEPT !.devs[d] = [path |-> path, flags |-> flags,
                                              holders |-> 1, blocks |-> 0],
                                 !.dev_tree[path] = d, !.dev_lru = Append(@, d),
                                 !.nr_open = @ + 1, !.nr_fds = @ + 1]
           outcomes(x) ==
             IF m.nr_open >= max_cache_devs THEN {<<x, NoDev>>}
             ELSE {<<opens(x), d>>} \cup (IF "open" \in DevFaults THEN {<<x, NoDev>>} ELSE {})
<1>1. Devices(m).devs = m.devs /\ Devices(m).nr_open = m.nr_open
  BY DEF Devices
<1>2. Dev!Opened(m, path, flags) = outcomes(m)
  BY Zenon DEF Dev!Opened
<1>3. Dev!Opened(Devices(m), path, flags) = outcomes(Devices(m))
  BY <1>1, ZenonT(40) DEF Dev!Opened
<1>4. Record(opens(m)) /\ opens(m).frames = m.frames /\ Devices(opens(m)) = opens(Devices(m))
  <2> HIDE DEF d
  <2>1. PICK devs, tree, lru :
          /\ devs = [m.devs EXCEPT ![d] = [path |-> path, flags |-> flags,
                                           holders |-> 1, blocks |-> 0]]
          /\ tree = [m.dev_tree EXCEPT ![path] = d] /\ lru = Append(m.dev_lru, d)
    OBVIOUS
  <2>2. opens(m) = Edited(m, devs, tree, lru, m.nr_open + 1, m.nr_fds + 1)
    BY <2>1 DEF Edited, Record
  <2>3. opens(Devices(m)) = Edited(Devices(m), devs, tree, lru, m.nr_open + 1, m.nr_fds + 1)
    BY <2>1 DEF Edited, Devices
  <2> HIDE DEF opens
  <2> QED BY <2>2, <2>3, EditedOf
<1> HIDE DEF d, opens
<1>5. CASE outcome = <<Devices(m), NoDev>> /\ <<m, NoDev>> \in outcomes(m)
  BY <1>2, <1>5
<1>6. CASE outcome = <<opens(Devices(m)), d>> /\ <<opens(m), d>> \in outcomes(m)
  BY <1>2, <1>4, <1>6
<1> QED BY <1>3, <1>5, <1>6

-----------------------------------------------------------------------------
(* Steps that leave the tree as it is                                      *)

LEMMA OrderIsSo == Dev!TableIn(Iom) => GotInOrder = Dev!Order(Iom)
BY OrderIs

LEMMA OrderNext ==
  ASSUME Dev!TableIn(Iom')
  PROVE  GotInOrder' = Dev!Order(Iom')
<1>1. (Dev!TableIn(Iom))'
  OBVIOUS
<1>2. (GotInOrder = Dev!Order(Iom))'
  BY <1>1, OrderIsSo, PTL
<1> QED BY <1>2

LEMMA MappedFacts ==
  ASSUME MInv, OnlyOpensFail, NEW f \in Frames
  PROVE  IF Mapped(f) THEN /\ blocks[f].key \in Keys /\ DevOf[blocks[f].key] \in Paths
                           /\ Iom.dev_tree[DevOf[blocks[f].key]] \in Idevs
                           /\ Iom.dev_tree[DevOf[blocks[f].key]] \in Dev!OpenIn(Iom)
                           /\ Iom.frames[f] = Image(Iom.dev_tree, blocks[f])
                           /\ Iom.frames[f] # Free
         ELSE Iom.frames[f] = Free
<1>1. Iom.frames[f] = IF Mapped(f) THEN Image(Iom.dev_tree, blocks[f]) ELSE Free
  BY IomFields, FramesAreSo DEF FramesAre, FrameIs
<1>2. ASSUME Mapped(f)
      PROVE  /\ blocks[f].key \in Keys /\ DevOf[blocks[f].key] \in Paths
             /\ Iom.dev_tree[DevOf[blocks[f].key]] \in Idevs
             /\ Iom.dev_tree[DevOf[blocks[f].key]] \in Dev!OpenIn(Iom)
             /\ Image(Iom.dev_tree, blocks[f]) # Free
  <2>1. blocks[f].key \in Keys /\ Cached(blocks[f].key)
    BY <1>2, TreeIs DEF TreeFacts, MInv, OnlyOpensFail, TreeStays
  <2> DEFINE d == Iom.dev_tree[DevOf[blocks[f].key]]
  <2>2. DevOf[blocks[f].key] \in Paths /\ d # NoDev
    BY <2>1, PathTypes, IomFields DEF MInv, CachedOpen
  <2>3. d \in Dev!OpenIn(Iom)
    BY <2>2, DevOK, IomSound, Dev!PathOpen
  <2>4. d \in Idevs
    BY <2>3 DEF Dev!OpenIn
  <2>5. Image(Iom.dev_tree, blocks[f]) \in Dev!FrameRecords
    BY <2>4 DEF Image, Dev!FrameRecords
  <2> QED BY <2>1, <2>2, <2>3, <2>4, <2>5, DevOK
<1> QED BY <1>1, <1>2

LEMMA ImageSame ==
  ASSUME NEW tree, NEW b, NEW c, b.key = c.key, b.dirty_bits # {} <=> c.dirty_bits # {},
         b.ref_count > 0 <=> c.ref_count > 0
  PROVE  Image(tree, b) = Image(tree, c)
<1>1. (b.dirty_bits # {}) = (c.dirty_bits # {}) /\ (b.ref_count > 0) = (c.ref_count > 0)
  OBVIOUS
<1> QED BY <1>1, Zenon DEF Image

\* What the table sees of a block.
SameBlock(f) ==
  /\ blocks'[f].key = blocks[f].key
  /\ blocks'[f].dirty_bits # {} <=> blocks[f].dirty_bits # {}
  /\ blocks'[f].ref_count > 0 <=> blocks[f].ref_count > 0

KeepsTree == \A k \in Keys : rtree'[k] = rtree[k]

LEMMA MappedStays ==
  ASSUME SafeInv, KeepsTree, NEW f \in Frames, blocks'[f].key = blocks[f].key
  PROVE  Mapped(f)' <=> Mapped(f)
<1>1. blocks[f].key \in Keys \cup {NoKey}
  BY DEF SafeInv, TypeInv, TypeOK, Blocks
<1> QED BY <1>1 DEF Mapped, KeepsTree

\* Nothing that concerns the table happens.
LEMMA NothingHappens ==
  ASSUME MInv, OnlyOpensFail, SafeInv', KeepsTree, Before' = Before, handles' = handles,
         \A f \in Frames : SameBlock(f)
  PROVE  Iom' = Iom /\ UNCHANGED Dev!vars /\ CachedOpen'
<1>1. Dev!Sound(Iom) /\ Before' = Devices(Iom) /\ PathsStay(Iom)
  BY IomSound, BeforeIs DEF PathsStay, MInv
<1>2. ASSUME NEW f \in Frames
      PROVE  IF Mapped(f)' THEN /\ Iom.frames[f] = Image(Iom.dev_tree, blocks'[f])
                                /\ Iom.dev_tree[DevOf[blocks'[f].key]] \in Idevs
             ELSE Iom.frames[f] = Free
  <2>1. Mapped(f)' <=> Mapped(f)
    BY MappedStays DEF SameBlock, MInv
  <2>2. Image(Iom.dev_tree, blocks'[f]) = Image(Iom.dev_tree, blocks[f])
    BY ImageSame DEF SameBlock
  <2> QED BY <2>1, <2>2, MappedFacts DEF SameBlock
<1>3. Iom' = Iom /\ CachedOpen'
  BY <1>1, <1>2, Maps
<1>4. GotInOrder' = GotInOrder
  BY DEF GotInOrder
<1> QED BY <1>3, <1>4 DEF Dev!vars

\* One cached block changes.
LEMMA FrameChanges ==
  ASSUME MInv, OnlyOpensFail, SafeInv', KeepsTree, Before' = Before, handles' = handles,
         NEW f \in Frames, Mapped(f), blocks'[f].key = blocks[f].key,
         \A g \in Frames \ {f} : SameBlock(g)
  PROVE  /\ Iom' = Dev!WithFrame(Iom, f, Image(Iom.dev_tree, blocks'[f]))
         /\ Dev!Kept(Iom, Iom') /\ GotInOrder' = GotInOrder /\ CachedOpen'
<1> DEFINE rec == Image(Iom.dev_tree, blocks'[f])
           r == Dev!WithFrame(Iom, f, rec)
<1>1. /\ Iom.frames[f] # Free /\ rec.dev = Iom.frames[f].dev /\ rec.in_tree = Iom.frames[f].in_tree
      /\ rec \in Dev!FrameRecords /\ Iom.dev_tree[DevOf[blocks[f].key]] \in Idevs
  <2>1. /\ Iom.dev_tree[DevOf[blocks[f].key]] \in Idevs /\ Iom.frames[f] # Free
        /\ Iom.frames[f] = Image(Iom.dev_tree, blocks[f])
    BY MappedFacts
  <2>2. /\ Iom.frames[f].dev = Iom.dev_tree[DevOf[blocks[f].key]]
        /\ Iom.frames[f].in_tree
    BY <2>1 DEF Image
  <2>3. rec.dev = Iom.dev_tree[DevOf[blocks[f].key]] /\ rec.in_tree
    BY DEF Image
  <2>4. rec \in Dev!FrameRecords
    BY <2>1 DEF Image, Dev!FrameRecords
  <2>5. rec.in_tree = TRUE /\ Iom.frames[f].in_tree = TRUE
    BY <2>1 DEF Image
  <2> QED BY <2>1, <2>2, <2>3, <2>4, <2>5
<1>2. /\ Dev!Kept(Iom, r) /\ r.frames[f] = rec
      /\ \A g \in Frames : g # f => r.frames[g] = Iom.frames[g]
  <2> HIDE DEF rec, r
  <2>1. r = Dev!WithFrame(Iom, f, rec)
    BY DEF r
  <2> QED BY <1>1, <2>1, IomSound, DevOK, Dev!FrameRewritten
<1>3. Dev!Sound(r) /\ Before' = Devices(r) /\ r.dev_tree = Iom.dev_tree
  <2>1. Devices(r) = Devices(Iom) /\ r.dev_tree = Iom.dev_tree
    BY IomSound DEF Dev!WithFrame, Devices, Dev!Managers
  <2> QED BY <1>2, <2>1, BeforeIs DEF Dev!Kept, MInv
<1>4. PathsStay(r)
  BY <1>3 DEF PathsStay
<1>5. ASSUME NEW g \in Frames
      PROVE  IF Mapped(g)' THEN /\ r.frames[g] = Image(Iom.dev_tree, blocks'[g])
                                /\ Iom.dev_tree[DevOf[blocks'[g].key]] \in Idevs
             ELSE r.frames[g] = Free
  <2>1. Mapped(g)' <=> Mapped(g)
    BY MappedStays DEF SameBlock, MInv
  <2>2. CASE g = f
    BY <1>1, <1>2, <2>1, <2>2
  <2>3. CASE g # f
    <3>1. Image(Iom.dev_tree, blocks'[g]) = Image(Iom.dev_tree, blocks[g])
      BY <2>3, ImageSame DEF SameBlock
    <3>2. r.frames[g] = Iom.frames[g]
      BY <1>2, <2>3
    <3> HIDE DEF r
    <3> QED BY <2>1, <2>3, <3>1, <3>2, MappedFacts DEF SameBlock
  <2> QED BY <2>2, <2>3
<1>6. Iom' = r /\ CachedOpen'
  <2> HIDE DEF r
  <2> QED BY <1>3, <1>4, <1>5, Maps
<1>7. GotInOrder' = GotInOrder
  BY DEF GotInOrder
<1> QED BY <1>2, <1>6, <1>7

\* The table counts no block that enters or leaves.
LEMMA CountsKept ==
  ASSUME KeepsTree, call'.pc # "destroyed", Counted
  PROVE  /\ table' = table /\ handles' = handles /\ getting' = getting /\ Before' = Before
<1> DEFINE entered == {k \in Keys : ~Cached(k) /\ rtree'[k] # NoFrame}
           left == {k \in Keys : Cached(k) /\ rtree'[k] = NoFrame}
<1>1. entered = {} /\ left = {}
  BY DEF KeepsTree, Cached
<1>2. Recounted = table
  BY <1>1 DEF Recounted
<1> QED BY <1>2 DEF Counted, Before

-----------------------------------------------------------------------------
(* Steps on one block                                                      *)

LEMMA DevSteps ==
  /\ \A h \in Handles, f \in Frames : Dev!miss(h, f) \/ Dev!hit(h, f) => Dev!Next
  /\ \A f \in Frames : Dev!evicted(f) \/ Dev!io_put_block(f) \/ Dev!written(f) => Dev!Next
  /\ \A h \in Handles : Dev!io_put_dev(h) \/ Dev!io_invalidate_dev(h) => Dev!Next
  /\ \A h \in Handles, path \in Paths, flags \in Dev!Flags :
       Dev!io_get_dev(h, path, flags) => Dev!Next
  /\ Dev!io_manager_destroy => Dev!Next
BY DEF Dev!Next

\* A step refines the device table, and opens no device.
Refines == [Dev!Next]_Dev!vars /\ Dev!OpenKept(Iom, Iom') /\ CachedOpen'

LEMMA NothingRefined ==
  ASSUME MInv, Iom' = Iom, UNCHANGED Dev!vars, CachedOpen'
  PROVE  Refines
<1>1. Dev!OpenKept(Iom, Iom)
  BY DEF Dev!OpenKept
<1> QED BY <1>1 DEF Refines

\* What the table sees of a block.
LEMMA ImageOf ==
  ASSUME NEW tree, NEW b, NEW r, r = Image(tree, b)
  PROVE  /\ r.dev = tree[DevOf[b.key]] /\ r.in_tree
         /\ r.dirty <=> b.dirty_bits # {}
         /\ r.ref <=> b.ref_count > 0
         /\ tree[DevOf[b.key]] \in Idevs => r \in Dev!FrameRecords
<1>1. r.dev = tree[DevOf[b.key]]
  BY DEF Image
<1>2. r.in_tree
  BY DEF Image
<1>3. r.dirty <=> b.dirty_bits # {}
  BY DEF Image
<1>4. r.ref <=> b.ref_count > 0
  BY DEF Image
<1>5. ASSUME tree[DevOf[b.key]] \in Idevs PROVE r \in Dev!FrameRecords
  <2>1. (b.dirty_bits # {}) \in BOOLEAN /\ (b.ref_count > 0) \in BOOLEAN
    OBVIOUS
  <2> QED BY <1>5, <2>1 DEF Image, Dev!FrameRecords
<1> QED BY <1>1, <1>2, <1>3, <1>4, <1>5

LEMMA SameRecord ==
  ASSUME NEW r \in Dev!FrameRecords, NEW s \in Dev!FrameRecords, r.dev = s.dev,
         r.in_tree <=> s.in_tree, r.dirty <=> s.dirty, r.ref <=> s.ref
  PROVE  r = s
BY DEF Dev!FrameRecords

\* The three ways in which a frame changes.
LEMMA RecordEdits ==
  ASSUME NEW r \in Dev!FrameRecords, NEW s \in Dev!FrameRecords, r.dev = s.dev,
         r.in_tree, s.in_tree
  PROVE  /\ (r.dirty <=> s.dirty) /\ ~s.ref => [r EXCEPT !.ref = FALSE] = s
         /\ (r.ref <=> s.ref) /\ ~s.dirty => [r EXCEPT !.dirty = FALSE] = s
         /\ \A also \in BOOLEAN :
              s.ref /\ (s.dirty <=> r.dirty \/ also) =>
                [r EXCEPT !.dirty = @ \/ also, !.ref = TRUE] = s
<1>1. ASSUME r.dirty <=> s.dirty, ~s.ref PROVE [r EXCEPT !.ref = FALSE] = s
  BY <1>1, SameRecord DEF Dev!FrameRecords
<1>2. ASSUME r.ref <=> s.ref, ~s.dirty PROVE [r EXCEPT !.dirty = FALSE] = s
  BY <1>2, SameRecord DEF Dev!FrameRecords
<1>3. ASSUME NEW also \in BOOLEAN, s.ref, s.dirty <=> r.dirty \/ also
      PROVE  [r EXCEPT !.dirty = @ \/ also, !.ref = TRUE] = s
  BY <1>3, SameRecord DEF Dev!FrameRecords
<1> QED BY <1>1, <1>2, <1>3

\* The last holder puts the block, or its writeback succeeds.
LEMMA PutOrWritten ==
  ASSUME MInv, OnlyOpensFail, SafeInv', KeepsTree, Before' = Before, handles' = handles,
         NEW f \in Frames, Mapped(f), blocks'[f].key = blocks[f].key,
         \A g \in Frames \ {f} : SameBlock(g),
         \/ /\ blocks'[f].dirty_bits # {} <=> blocks[f].dirty_bits # {}
            /\ blocks[f].ref_count > 0 /\ ~(blocks'[f].ref_count > 0)
         \/ /\ blocks'[f].ref_count > 0 <=> blocks[f].ref_count > 0
            /\ ~(blocks[f].ref_count > 0)
            /\ blocks[f].dirty_bits # {} /\ blocks'[f].dirty_bits = {}
  PROVE  Refines
<1> DEFINE r == Iom.frames[f]
           s == Image(Iom.dev_tree, blocks'[f])
<1>1. /\ Iom' = Dev!WithFrame(Iom, f, s)
      /\ Dev!Kept(Iom, Iom') /\ GotInOrder' = GotInOrder /\ CachedOpen'
  BY FrameChanges
<1>2. /\ r = Image(Iom.dev_tree, blocks[f]) /\ r # Free
      /\ Iom.dev_tree[DevOf[blocks[f].key]] \in Idevs
  BY MappedFacts
<1>3. /\ r \in Dev!FrameRecords /\ s \in Dev!FrameRecords
      /\ r.dev = s.dev /\ r.in_tree /\ s.in_tree
      /\ r.dirty <=> blocks[f].dirty_bits # {}
      /\ r.ref <=> blocks[f].ref_count > 0
      /\ s.dirty <=> blocks'[f].dirty_bits # {}
      /\ s.ref <=> blocks'[f].ref_count > 0
  BY <1>2, ImageOf
<1>4. /\ [Iom EXCEPT !.frames[f].ref = FALSE] =
           Dev!WithFrame(Iom, f, [r EXCEPT !.ref = FALSE])
      /\ [Iom EXCEPT !.frames[f].dirty = FALSE] =
           Dev!WithFrame(Iom, f, [r EXCEPT !.dirty = FALSE])
  BY IomSound DEF Dev!WithFrame, Dev!Managers
<1> HIDE DEF s
<1>5. Dev!io_put_block(f) \/ Dev!written(f)
  <2>1. CASE r.ref /\ ~s.ref /\ (r.dirty <=> s.dirty)
    <3>1. [r EXCEPT !.ref = FALSE] = s
      BY <1>3, <2>1, RecordEdits
    <3> QED BY <1>1, <1>2, <1>4, <2>1, <3>1 DEF Dev!io_put_block
  <2>2. CASE ~r.ref /\ ~s.ref /\ r.dirty /\ ~s.dirty
    <3>1. [r EXCEPT !.dirty = FALSE] = s
      BY <1>3, <2>2, RecordEdits
    <3> QED BY <1>1, <1>2, <1>4, <2>2, <3>1 DEF Dev!written
  <2> QED BY <1>3, <2>1, <2>2
<1> QED BY <1>1, <1>5, DevSteps DEF Refines, Dev!Kept

\* A client gets the block, and may have made it dirty.
LEMMA HitRefined ==
  ASSUME MInv, OnlyOpensFail, SafeInv', KeepsTree, Before' = Before, handles' = handles,
         getting = NoGet, NEW f \in Frames, Mapped(f), blocks'[f].key = blocks[f].key,
         \A g \in Frames \ {f} : SameBlock(g),
         ~(blocks[f].ref_count > 0), blocks'[f].ref_count > 0,
         blocks[f].dirty_bits # {} => blocks'[f].dirty_bits # {},
         NEW h \in Handles, IsOpen(h, blocks[f].key),
         \/ blocks'[f].dirty_bits # {} <=> blocks[f].dirty_bits # {}
         \/ ~handles[h].flags.ro
  PROVE  Refines
<1> DEFINE r == Iom.frames[f]
           s == Image(Iom.dev_tree, blocks'[f])
<1>1. /\ Iom' = Dev!WithFrame(Iom, f, s)
      /\ Dev!Kept(Iom, Iom') /\ GotInOrder' = GotInOrder /\ CachedOpen'
  BY FrameChanges
<1>2. /\ r = Image(Iom.dev_tree, blocks[f]) /\ r # Free
      /\ Iom.dev_tree[DevOf[blocks[f].key]] \in Idevs
  BY MappedFacts
<1>3. /\ r \in Dev!FrameRecords /\ s \in Dev!FrameRecords
      /\ r.dev = s.dev /\ r.in_tree /\ s.in_tree
      /\ r.dev = Iom.dev_tree[DevOf[blocks[f].key]]
      /\ r.dirty <=> blocks[f].dirty_bits # {}
      /\ r.ref <=> blocks[f].ref_count > 0
      /\ s.dirty <=> blocks'[f].dirty_bits # {}
      /\ s.ref <=> blocks'[f].ref_count > 0
  BY <1>2, ImageOf
<1>4. handles[h] # NoHandle /\ handles[h].dev = r.dev
  BY <1>3, IomFields DEF IsOpen, Before
<1>5. ASSUME NEW also \in BOOLEAN
      PROVE  [Iom EXCEPT !.frames[f].dirty = @ \/ also, !.frames[f].ref = TRUE] =
               Dev!WithFrame(Iom, f, [r EXCEPT !.dirty = @ \/ also, !.ref = TRUE])
  BY IomSound DEF Dev!WithFrame, Dev!Managers
<1> HIDE DEF s
<1>6. PICK also \in BOOLEAN : (s.dirty <=> r.dirty \/ also) /\ (also => ~handles[h].flags.ro)
  <2>1. CASE s.dirty <=> r.dirty
    <3>1. (s.dirty <=> r.dirty \/ FALSE) /\ (FALSE => ~handles[h].flags.ro)
      BY <2>1
    <3> QED BY <3>1
  <2>2. CASE ~(s.dirty <=> r.dirty)
    <3>1. (s.dirty <=> r.dirty \/ TRUE) /\ (TRUE => ~handles[h].flags.ro)
      BY <1>3, <2>2
    <3> QED BY <3>1
  <2> QED BY <2>1, <2>2
<1>7. [r EXCEPT !.dirty = @ \/ also, !.ref = TRUE] = s
  BY <1>3, <1>6, RecordEdits
<1>8. Iom' = [Iom EXCEPT !.frames[f].dirty = @ \/ also, !.frames[f].ref = TRUE]
  BY <1>1, <1>5, <1>7
<1>9. f \in Dev!InTree(Iom, handles[h].dev) /\ ~r.ref
  BY <1>2, <1>3, <1>4 DEF Dev!InTree
<1>10. Dev!hit(h, f)
  BY <1>1, <1>4, <1>6, <1>8, <1>9, Zenon DEF Dev!hit
<1> QED BY <1>1, <1>10, DevSteps DEF Refines, Dev!Kept

-----------------------------------------------------------------------------
(* A block enters the tree, or leaves it                                   *)

\* What is left of the order the devices were got in.
LEMMA OrderAfter ==
  ASSUME MInv, Dev!TableIn(Iom'), Dev!OpenKept(Iom, Iom'), Dev!LruKept(Iom, Iom')
  PROVE  /\ GotInOrder' = Dev!StillOpen(GotInOrder)
         /\ Iom'.dev_tree = Iom.dev_tree => GotInOrder' = GotInOrder
<1>1. /\ Dev!TableIn(Iom) /\ Dev!TableIn(Iom')
      /\ Dev!OpenKept(Iom, Iom') /\ Dev!LruKept(Iom, Iom')
  BY IomSound
<1>2. GotInOrder = Dev!Order(Iom) /\ GotInOrder' = Dev!Order(Iom')
  BY <1>1, OrderIsSo, OrderNext
<1>3. Dev!Order(Iom') = Dev!StillIn(Dev!Order(Iom), Iom')
  BY <1>1, DevOK, Dev!OrderKept
<1>4. GotInOrder' = Dev!StillOpen(GotInOrder)
  BY <1>2, <1>3 DEF Dev!StillIn, Dev!StillOpen
<1>5. ASSUME Iom'.dev_tree = Iom.dev_tree, NEW pq \in GotInOrder
      PROVE  pq \in GotInOrder'
  <2>1. PICK p \in Paths, q \in Paths : pq = <<p, q>>
    BY <1>2 DEF Dev!Order
  <2>2. Iom.dev_tree[p] # NoDev /\ Iom.dev_tree[q] # NoDev
    BY <1>1, <1>2, <2>1, DevOK, Dev!OrderOf
  <2> QED BY <1>4, <1>5, <2>1, <2>2 DEF Dev!StillOpen
<1> QED BY <1>4, <1>5 DEF Dev!StillOpen

\* A block that is not cached gets a frame.
LEMMA MissRefined ==
  ASSUME MInv, OnlyOpensFail, SafeInv', getting = NoGet, getting' = NoGet, handles' = handles,
         NEW h \in Handles, NEW k \in Keys, IsOpen(h, k), ~Cached(k),
         NEW f \in Frames, ~Mapped(f), rtree' = [rtree EXCEPT ![k] = f],
         blocks'[f].key = k, blocks'[f].dirty_bits = {}, ~(blocks'[f].ref_count > 0),
         \A g \in Frames \ {f} : blocks'[g] = blocks[g],
         table' = Dev!_inc_blocks(table, handles[h].dev)
  PROVE  Refines
<1> DEFINE d == handles[h].dev
           rec == [dev |-> d, in_tree |-> TRUE, dirty |-> FALSE, ref |-> FALSE]
           n == Dev!_inc_blocks(Iom, d)
           r == Dev!WithFrame(n, f, rec)
<1>1. /\ handles[h] # NoHandle /\ d = Iom.dev_tree[DevOf[k]] /\ d \in Idevs
      /\ d \in Dev!OpenIn(Iom) /\ Iom.frames[f] = Free
  <2>1. handles[h] # NoHandle /\ d = Iom.dev_tree[DevOf[k]]
    BY IomFields DEF IsOpen, Before
  <2>2. d \in Dev!OpenIn(Iom)
    BY <2>1, IomSound, DevOK, Dev!HeldIsOpen
  <2> QED BY <2>1, <2>2, MappedFacts DEF Dev!OpenIn
<1>2. /\ rec \in Dev!FrameRecords /\ rec.dev = d /\ rec.in_tree
      /\ ~rec.dirty /\ ~rec.ref
  BY <1>1 DEF Dev!FrameRecords
<1>3. /\ Dev!Kept(Iom, r) /\ r.frames[f] = rec
      /\ \A g \in Frames : g # f => r.frames[g] = Iom.frames[g]
  <2>1. r = Dev!WithFrame(Dev!_inc_blocks(Iom, d), f, rec)
    OBVIOUS
  <2> HIDE DEF d, rec, r
  <2> QED BY <1>1, <1>2, <2>1, IomSound, DevOK, Dev!Caching
<1>4. Dev!Sound(r) /\ Before' = Devices(r) /\ r.dev_tree = Iom.dev_tree
  <2>1. Record(Iom) /\ Before = Devices(Iom) /\ Before = table /\ Before' = table'
    BY IomSound, ManagersAreRecords, BeforeIs DEF Before, MInv
  <2>2. /\ Record(n) /\ Devices(n) = Dev!_inc_blocks(Devices(Iom), d)
        /\ n.dev_tree = Iom.dev_tree
    BY <2>1, IncBlocksOf, IomSound DEF Dev!_inc_blocks, Dev!Managers
  <2>3. Devices(r) = Devices(n) /\ r.dev_tree = n.dev_tree
    <3> HIDE DEF n, rec
    <3>1. r = [n EXCEPT !.frames = [n.frames EXCEPT ![f] = rec]]
      BY <2>2 DEF Dev!WithFrame, Record
    <3> QED BY <2>2, <3>1, FramesOf DEF Record
  <2> HIDE DEF n, r
  <2> QED BY <1>3, <2>1, <2>2, <2>3 DEF Dev!Kept
<1> HIDE DEF n, r
<1>5. PathsStay(r)
  BY <1>4 DEF PathsStay
<1>6. ASSUME NEW g \in Frames
      PROVE  IF Mapped(g)' THEN /\ r.frames[g] = Image(Iom.dev_tree, blocks'[g])
                                /\ Iom.dev_tree[DevOf[blocks'[g].key]] \in Idevs
             ELSE r.frames[g] = Free
  <2>1. rtree \in [Keys -> Frames \cup {NoFrame}] /\ NoFrame \notin Frames /\ NoKey \notin Keys
        /\ \A e \in Frames : blocks[e].key \in Keys \cup {NoKey}
    BY NodeTypes, KeyAssumption DEF MInv, SafeInv, TypeInv, TypeOK, Blocks
  <2>2. CASE g = f
    <3>1. Mapped(g)'
      BY <2>1, <2>2 DEF Mapped
    <3> DEFINE s == Image(Iom.dev_tree, blocks'[f])
    <3>2. /\ s.dev = d /\ s.in_tree /\ ~s.dirty /\ ~s.ref /\ s \in Dev!FrameRecords
      BY <1>1, ImageOf
    <3> HIDE DEF s, rec
    <3>3. s = rec
      BY <1>2, <3>2, SameRecord
    <3> QED BY <1>1, <1>3, <2>2, <3>1, <3>3 DEF s
  <2>3. CASE g # f
    <3>1. Mapped(g)' <=> Mapped(g)
      BY <2>1, <2>3 DEF Mapped, Cached
    <3> QED BY <1>3, <2>3, <3>1, MappedFacts
  <2> QED BY <2>2, <2>3
<1>7. Iom' = r /\ CachedOpen'
  BY <1>4, <1>5, <1>6, Maps
<1>8. GotInOrder' = GotInOrder
  BY <1>3, <1>4, <1>7, OrderAfter DEF Dev!Kept, Dev!Sound
<1>9. Dev!miss(h, f)
  <2>1. r = [Dev!_inc_blocks(Iom, d) EXCEPT !.frames[f] = rec]
    BY DEF r, n, Dev!WithFrame
  <2> QED BY <1>1, <1>7, <1>8, <2>1 DEF Dev!miss
<1> QED BY <1>3, <1>7, <1>9, DevSteps DEF Refines, Dev!Kept

\* The table's record with a frame emptied.
LEMMA FrameEmptied ==
  ASSUME NEW m, Dev!Sound(m), Dev!InUse(m), NEW f \in Frames,
         m.frames[f] # Free, m.frames[f].in_tree,
         NEW r, r = Dev!_dec_blocks(Dev!WithFrame(m, f, Free), m.frames[f].dev, 1)
  PROVE  /\ Dev!Kept(m, r) /\ r.frames[f] = Free
         /\ \A g \in Frames : g # f => r.frames[g] = m.frames[g]
<1> DEFINE n == Dev!WithFrame(m, f, Free)
<1>1. n = Dev!WithFrame(m, f, Free)
  OBVIOUS
<1>2. r = IF m.frames[f].in_tree THEN Dev!_dec_blocks(n, m.frames[f].dev, 1) ELSE n
  OBVIOUS
<1> HIDE DEF n
<1> QED BY <1>1, <1>2, DevOK, Dev!Evicting

\* A clean block nobody holds loses its frame.
LEMMA LeaveRefined ==
  ASSUME MInv, OnlyOpensFail, SafeInv', getting = NoGet, getting' = NoGet, handles' = handles,
         NEW f \in Frames, Mapped(f), blocks[f].dirty_bits = {}, ~(blocks[f].ref_count > 0),
         rtree' = [rtree EXCEPT ![blocks[f].key] = NoFrame], blocks' = blocks,
         table' = Dev!_dec_blocks(table, table.dev_tree[DevOf[blocks[f].key]], 1)
  PROVE  Refines
<1> DEFINE d == Iom.frames[f].dev
           n == Dev!WithFrame(Iom, f, Free)
           r == Dev!_dec_blocks(n, d, 1)
<1>1. /\ Iom.frames[f] # Free /\ ~Iom.frames[f].dirty /\ ~Iom.frames[f].ref
      /\ Iom.frames[f].in_tree /\ d = Iom.dev_tree[DevOf[blocks[f].key]]
      /\ blocks[f].key \in Keys
  <2>1. /\ blocks[f].key \in Keys /\ Iom.frames[f] # Free
        /\ Iom.frames[f] = Image(Iom.dev_tree, blocks[f])
    BY MappedFacts
  <2> DEFINE s == Iom.frames[f]
  <2>2. s = Image(Iom.dev_tree, blocks[f])
    BY <2>1
  <2> HIDE DEF s
  <2>3. /\ s.dev = Iom.dev_tree[DevOf[blocks[f].key]] /\ s.in_tree
        /\ s.dirty <=> blocks[f].dirty_bits # {}
        /\ s.ref <=> blocks[f].ref_count > 0
    BY <2>2, ImageOf
  <2> QED BY <2>1, <2>3 DEF s
<1>2. /\ Dev!Kept(Iom, r) /\ r.frames[f] = Free
      /\ \A g \in Frames : g # f => r.frames[g] = Iom.frames[g]
  <2>1. Dev!Sound(Iom) /\ Dev!InUse(Iom)
    BY IomSound
  <2>2. r = Dev!_dec_blocks(Dev!WithFrame(Iom, f, Free), Iom.frames[f].dev, 1)
    OBVIOUS
  <2> HIDE DEF n, d, r
  <2> QED BY <1>1, <2>1, <2>2, FrameEmptied
<1>3. Dev!Sound(r) /\ Before' = Devices(r)
  <2>1. Record(Iom) /\ Before = Devices(Iom) /\ Before = table /\ Before' = table'
    BY IomSound, ManagersAreRecords, BeforeIs DEF Before, MInv
  <2>2. Record(n) /\ Devices(n) = Devices(Iom)
    <3>1. n = [Iom EXCEPT !.frames = [Iom.frames EXCEPT ![f] = Free]]
      BY <2>1 DEF Dev!WithFrame, Record
    <3> HIDE DEF n
    <3> QED BY <2>1, <3>1, FramesOf
  <2>3. Devices(r) = Dev!_dec_blocks(Devices(n), d, 1)
    <3> HIDE DEF n, d
    <3> QED BY <2>2, DecBlocksOf
  <2>4. d = table.dev_tree[DevOf[blocks[f].key]]
    BY <1>1, <2>1, IomFields
  <2> HIDE DEF n, r, d
  <2> QED BY <1>2, <2>1, <2>2, <2>3, <2>4 DEF Dev!Kept
<1> HIDE DEF n, r
<1>4. PathsStay(r)
  BY <1>2, IomSound, DevOK, Dev!PathKept DEF PathsStay, Dev!Kept
<1>5. ASSUME NEW g \in Frames
      PROVE  IF Mapped(g)' THEN /\ r.frames[g] = Image(Iom.dev_tree, blocks'[g])
                                /\ Iom.dev_tree[DevOf[blocks'[g].key]] \in Idevs
             ELSE r.frames[g] = Free
  <2>1. rtree \in [Keys -> Frames \cup {NoFrame}] /\ NoFrame \notin Frames /\ NoKey \notin Keys
        /\ \A e \in Frames : blocks[e].key \in Keys \cup {NoKey}
    BY NodeTypes, KeyAssumption DEF MInv, SafeInv, TypeInv, TypeOK, Blocks
  <2>2. CASE g = f
    BY <1>1, <1>2, <2>1, <2>2 DEF Mapped
  <2>3. CASE g # f
    <3>1. Mapped(g)' <=> Mapped(g)
      BY <2>1, <2>3 DEF Mapped
    <3> QED BY <1>2, <2>3, <3>1, MappedFacts
  <2> QED BY <2>2, <2>3
<1>6. Iom' = r /\ CachedOpen'
  BY <1>3, <1>4, <1>5, Maps
<1>7. GotInOrder' = Dev!StillOpen(GotInOrder)
  BY <1>2, <1>6, OrderAfter DEF Dev!Kept, Dev!Sound
<1>8. Dev!evicted(f)
  <2>1. r = IF Iom.frames[f].in_tree
            THEN Dev!_dec_blocks([Iom EXCEPT !.frames[f] = Free], Iom.frames[f].dev, 1)
            ELSE [Iom EXCEPT !.frames[f] = Free]
    BY <1>1 DEF r, n, Dev!WithFrame
  <2> QED BY <1>1, <1>6, <1>7, <2>1 DEF Dev!evicted
<1> QED BY <1>2, <1>6, <1>8, DevSteps DEF Refines, Dev!Kept

-----------------------------------------------------------------------------
(* A device leaves the tree                                                *)

LEMMA TreeDoesStay ==
  ASSUME OnlyOpensFail
  PROVE  TreeStays /\ QuietClients /\ Faults = {} /\ "write" \notin DevFaults /\ "renamed" \notin DevFaults
BY DEF OnlyOpensFail, TreeStays

\* The device that is being invalidated has a block.
LEMMA DeviceOfCall ==
  ASSUME SafeInv, TreeStays, call.op = "invalidate_dev"
  PROVE  call.key \in Keys
<1>1. PICK on, pos, out : Safe(on, pos, out)
  BY DEF SafeInv
<1> QED BY <1>1 DEF Safe, TreeOK, Emptying

LEMMA FramesOfDev ==
  ASSUME MInv, OnlyOpensFail, NEW p \in Paths, NEW d \in Dev!OpenIn(Iom), Iom.dev_tree[p] = d
  PROVE  Dev!InTree(Iom, d) = {f \in Frames : Mapped(f) /\ DevOf[blocks[f].key] = p}
<1>1. ASSUME NEW f \in Frames
      PROVE  f \in Dev!InTree(Iom, d) <=> Mapped(f) /\ DevOf[blocks[f].key] = p
  <2>1. CASE Mapped(f)
    <3> DEFINE q == DevOf[blocks[f].key]
    <3>1. /\ q \in Paths /\ Iom.dev_tree[q] \in Idevs
          /\ Iom.frames[f] = Image(Iom.dev_tree, blocks[f]) /\ Iom.frames[f] # Free
      BY <2>1, MappedFacts
    <3>2. Iom.frames[f].dev = Iom.dev_tree[q] /\ Iom.frames[f].in_tree
      BY <3>1, ImageOf
    <3>3. Iom.dev_tree[q] = d <=> q = p
      BY <3>1, IomSound DEF Dev!TableIn, Dev!OpenIn
    <3> QED BY <2>1, <3>1, <3>2, <3>3 DEF Dev!InTree
  <2>2. CASE ~Mapped(f)
    BY <2>2, MappedFacts DEF Dev!InTree
  <2> QED BY <2>1, <2>2
<1> QED BY <1>1 DEF Dev!InTree

\* The blocks that leave the tree are those of one device, and are in its frames.
LEMMA EmptiedFacts ==
  ASSUME MInv, OnlyOpensFail, remove_prefix,
         NEW p, p = DevOf[call.key], NEW d \in Dev!OpenIn(Iom), Iom.dev_tree[p] = d,
         NEW left, left = {k \in Keys : Cached(k) /\ rtree'[k] = NoFrame}
  PROVE  /\ p \in Paths /\ \A k \in left : DevOf[k] = p
         /\ Cardinality(left) = Cardinality(Dev!InTree(Iom, d)) /\ Cardinality(left) \in Nat
         /\ left = {} <=> Cardinality(left) = 0
         /\ \A f \in Dev!InTree(Iom, d) : ~Iom.frames[f].ref /\ ~Iom.frames[f].dirty
         /\ \A f \in Frames : Mapped(f)' <=> Mapped(f) /\ f \notin Dev!InTree(Iom, d)
         /\ \A f \in Frames : blocks'[f] = blocks[f]
<1> DEFINE S == Dev!InTree(Iom, d)
<1>1. SafeInv /\ TreeStays
  BY TreeDoesStay DEF MInv
<1>2. /\ call.op = "invalidate_dev"
      /\ \A k \in Keys : rtree[k] # NoFrame /\ DevOf[k] = DevOf[call.key] =>
           blocks[rtree[k]].ref_count = 0 /\ blocks[rtree[k]].dirty_bits = {}
  BY <1>1, EmptyingFacts DEF remove_prefix
<1>3. p \in Paths
  BY <1>1, <1>2, DeviceOfCall, PathTypes
<1>4. /\ blocks' = blocks
      /\ \A k \in Keys : rtree'[k] = IF DevOf[k] = p THEN NoFrame ELSE rtree[k]
  BY DEF remove_prefix
<1>5. left = {k \in Keys : Cached(k) /\ DevOf[k] = p}
  BY <1>4 DEF Cached
<1>6. S = {f \in Frames : Mapped(f) /\ DevOf[blocks[f].key] = p}
  BY <1>3, FramesOfDev
<1> HIDE DEF S
<1>7. TreeFacts
  BY <1>1, TreeIs
<1>8. IsFiniteSet(S) /\ Cardinality(left) = Cardinality(S)
  <2>1. IsFiniteSet(S)
    BY <1>6, FramesFinite, FS_Subset
  <2> DEFINE g == [f \in S |-> blocks[f].key]
  <2>2. g \in Bijection(S, left)
    <3>1. g \in [S -> left]
      BY <1>5, <1>6, <1>7 DEF TreeFacts
    <3>2. \A e, f \in S : g[e] = g[f] => e = f
      BY <1>6 DEF Mapped
    <3>3. \A k \in left : \E f \in S : g[f] = k
      <4> SUFFICES ASSUME NEW k \in left PROVE \E f \in S : g[f] = k
        OBVIOUS
      <4>1. rtree[k] \in S /\ blocks[rtree[k]].key = k
        BY <1>5, <1>6, <1>7 DEF TreeFacts
      <4> QED BY <4>1
    <3> QED BY <3>1, <3>2, <3>3 DEF Bijection, Injection, Surjection, IsInjective
  <2>3. ExistsBijection(S, left)
    BY <2>2 DEF ExistsBijection
  <2> QED BY <2>1, <2>3, FS_Bijection
<1>9. Cardinality(left) \in Nat /\ (left = {} <=> Cardinality(left) = 0)
  <2>1. Cardinality(S) \in Nat /\ (Cardinality(S) = 0 <=> S = {})
    BY <1>8, FS_CardinalityType, FS_EmptySet
  <2>2. S = {} <=> left = {}
    <3>1. ASSUME NEW f \in S PROVE blocks[f].key \in left
      BY <1>5, <1>6, <1>7 DEF TreeFacts
    <3>2. ASSUME NEW k \in left PROVE rtree[k] \in S
      BY <1>5, <1>6, <1>7 DEF TreeFacts
    <3> QED BY <3>1, <3>2
  <2> QED BY <1>8, <2>1, <2>2
<1>10. ASSUME NEW f \in S PROVE ~Iom.frames[f].ref /\ ~Iom.frames[f].dirty
  <2>1. /\ f \in Frames /\ Mapped(f) /\ blocks[f].key \in Keys /\ rtree[blocks[f].key] = f
        /\ DevOf[blocks[f].key] = p /\ f # NoFrame
    BY <1>6, <1>7, NodeTypes DEF Mapped, TreeFacts
  <2>2. blocks[f].ref_count = 0 /\ blocks[f].dirty_bits = {}
    BY <1>2, <2>1
  <2>3. Iom.frames[f] = Image(Iom.dev_tree, blocks[f])
    BY <2>1, MappedFacts
  <2> QED BY <2>2, <2>3, ImageOf
<1>11. ASSUME NEW f \in Frames PROVE Mapped(f)' <=> Mapped(f) /\ f \notin S
  <2>1. blocks[f].key \in Keys \cup {NoKey} /\ f # NoFrame
    BY <1>1, NodeTypes DEF SafeInv, TypeInv, TypeOK, Blocks
  <2> QED BY <1>4, <1>6, <2>1 DEF Mapped
<1> QED BY <1>3, <1>4, <1>5, <1>8, <1>9, <1>10, <1>11 DEF S

\* What _inc_blocks and _block_dtr make of it.
LEMMA EmptiedCounts ==
  ASSUME MInv, OnlyOpensFail, remove_prefix,
         NEW d \in Dev!OpenIn(Iom), Iom.dev_tree[DevOf[call.key]] = d,
         table.dev_tree[DevOf[call.key]] = d
  PROVE  Recounted = Dev!_dec_blocks(table, d, Cardinality(Dev!InTree(Iom, d)))
<1> DEFINE left == {k \in Keys : Cached(k) /\ rtree'[k] = NoFrame}
           entered == {k \in Keys : ~Cached(k) /\ rtree'[k] # NoFrame}
           n == Cardinality(Dev!InTree(Iom, d))
<1>1. /\ \A k \in left : DevOf[k] = DevOf[call.key]
      /\ Cardinality(left) = n
      /\ left = {} <=> Cardinality(left) = 0
  BY EmptiedFacts
<1>2. entered = {} /\ call'.pc # "destroyed"
  BY DEF remove_prefix, Cached, Return, Idle
<1>3. CASE left = {}
  <2>1. Recounted = table
    BY <1>2, <1>3 DEF Recounted
  <2> QED BY <1>1, <1>3, <2>1 DEF Dev!_dec_blocks
<1>4. CASE left # {}
  <2>1. DevOf[CHOOSE k \in left : TRUE] = DevOf[call.key]
    BY <1>1, <1>4
  <2>2. Recounted = Table!_dec_blocks(table, table.dev_tree[DevOf[CHOOSE k \in left : TRUE]],
                                      Cardinality(left))
    BY <1>2, <1>4 DEF Recounted
  <2> QED BY <1>1, <2>1, <2>2, SameCounts
<1> QED BY <1>3, <1>4

\* The blocks of a device, none of them held, leave an io manager with these frames.
WithoutFrames(d) == [f \in Frames |-> IF f \in Dev!InTree(Iom, d) THEN Free ELSE Iom.frames[f]]

LEMMA InvalidatedIs ==
  ASSUME MInv, NEW m, Record(m), m.frames = Iom.frames, NEW d,
         \A f \in Dev!InTree(Iom, d) : ~Iom.frames[f].ref, NEW r, r = Dev!_invalidate_dev(m, d, {})
  PROVE  /\ Record(r) /\ r.frames = WithoutFrames(d)
         /\ Devices(r) = Dev!_dec_blocks(Devices(m), d, Cardinality(Dev!InTree(Iom, d)))
<1> DEFINE visited == Dev!InTree(m, d)
           n == [m EXCEPT !.frames = WithoutFrames(d)]
<1>1. visited = Dev!InTree(Iom, d)
  BY DEF Dev!InTree
<1>2. r = Dev!_dec_blocks(n, d, Cardinality(visited))
  <2> DEFINE kept == {f \in visited : m.frames[f].ref \/ f \in {}}
             frame(f) == IF f \in visited \ kept THEN Free
                         ELSE IF f \in kept
                         THEN [m.frames[f] EXCEPT !.in_tree = FALSE, !.dirty = f \in {}]
                         ELSE m.frames[f]
  <2>1. r = Dev!_dec_blocks([m EXCEPT !.frames = [f \in Frames |-> frame(f)]], d, Dev!Cardinality(visited))
    BY DEF Dev!_invalidate_dev
  <2>2. kept = {}
    BY <1>1
  <2>3. [f \in Frames |-> frame(f)] = WithoutFrames(d)
    <3> HIDE DEF kept, visited
    <3> QED BY <1>1, <2>2 DEF WithoutFrames
  <2> HIDE DEF kept, frame, visited
  <2> QED BY <2>1, <2>3, SameSets
<1>3. Record(n) /\ n.frames = WithoutFrames(d) /\ Devices(n) = Devices(m)
  BY FramesOf
<1> HIDE DEF n, visited
<1> QED BY <1>1, <1>2, <1>3, DecBlocksOf

\* A device that is held does not close.
LEMMA HeldDevStays ==
  ASSUME NEW m \in Dev!Managers, NEW d \in Idevs, m.devs[d] # Closed, m.devs[d].holders > 0, NEW n \in Nat
  PROVE  Dev!_dec_blocks(m, d, n).dev_tree = m.dev_tree
<1> DEFINE k == [m EXCEPT !.devs[d].blocks = @ - n]
<1>1. k.devs[d].holders = m.devs[d].holders /\ k.dev_tree = m.dev_tree
  BY DEF Dev!Managers, Dev!DevRecords
<1>2. Dev!_dec_blocks(m, d, n) = IF n = 0 THEN m ELSE Dev!_dev_maybe_close(k, d)
  BY DEF Dev!_dec_blocks
<1> HIDE DEF k
<1>3. Dev!_dev_maybe_close(k, d) = k
  BY <1>1 DEF Dev!_dev_maybe_close
<1> QED BY <1>1, <1>2, <1>3

\* The end of io_invalidate_dev.
LEMMA InvalidateRefined ==
  ASSUME MInv, OnlyOpensFail, SafeInv', getting = NoGet, remove_prefix, Counted,
         NEW h \in Handles, IsOpen(h, call.key)
  PROVE  Refines
<1> DEFINE d == handles[h].dev
           n == Cardinality(Dev!InTree(Iom, d))
           r == Dev!_invalidate_dev(Iom, d, {})
<1>1. /\ handles[h] # NoHandle /\ d = Iom.dev_tree[DevOf[call.key]]
      /\ d \in Dev!OpenIn(Iom) /\ Iom.devs[d].holders > 0
      /\ d = table.dev_tree[DevOf[call.key]]
  <2>1. /\ handles[h] # NoHandle /\ d = Iom.dev_tree[DevOf[call.key]]
        /\ d = table.dev_tree[DevOf[call.key]]
    BY IomFields DEF IsOpen, Before
  <2> QED BY <2>1, IomSound, DevOK, Dev!HeldIsOpen
<1>2. /\ DevOf[call.key] \in Paths /\ n \in Nat
      /\ \A f \in Dev!InTree(Iom, d) : ~Iom.frames[f].ref /\ ~Iom.frames[f].dirty
      /\ \A f \in Frames : Mapped(f)' <=> Mapped(f) /\ f \notin Dev!InTree(Iom, d)
      /\ \A f \in Frames : blocks'[f] = blocks[f]
  <2> HIDE DEF d
  <2> QED BY <1>1, EmptiedFacts
<1>3. /\ Record(Iom) /\ Before = Devices(Iom) /\ Before = table /\ Before' = table'
      /\ handles' = handles /\ table' = Dev!_dec_blocks(table, d, n)
  BY <1>1, IomSound, ManagersAreRecords, BeforeIs, EmptiedCounts DEF Before, MInv, Counted
<1>4. /\ r.frames = WithoutFrames(d)
      /\ Devices(r) = Dev!_dec_blocks(Devices(Iom), d, n)
  <2> HIDE DEF d
  <2> QED BY <1>2, <1>3, InvalidatedIs
<1>5. Dev!Kept(Iom, r) /\ r.dev_tree = Iom.dev_tree
  <2>1. {} \in Dev!Failures(Iom, d)
    BY TreeDoesStay DEF Dev!Failures
  <2>2. Dev!Kept(Iom, r)
    <3> HIDE DEF d
    <3> QED BY <1>1, <2>1, IomSound, DevOK, Dev!Invalidating
  <2>3. Dev!_dec_blocks(Iom, d, n).dev_tree = Iom.dev_tree
    <3> HIDE DEF d, n
    <3> QED BY <1>1, <1>2, IomSound, HeldDevStays DEF Dev!OpenIn
  <2>4. Devices(Dev!_dec_blocks(Iom, d, n)) = Dev!_dec_blocks(Devices(Iom), d, n)
    BY <1>3, DecBlocksOf
  <2>5. Devices(r).dev_tree = r.dev_tree
        /\ Devices(Dev!_dec_blocks(Iom, d, n)).dev_tree = Dev!_dec_blocks(Iom, d, n).dev_tree
    BY DEF Devices
  <2> HIDE DEF r, n, d
  <2> QED BY <1>4, <2>2, <2>3, <2>4, <2>5
<1>6. Dev!Sound(r) /\ Before' = Devices(r)
  BY <1>3, <1>4, <1>5 DEF Dev!Kept
<1> DEFINE T == Dev!InTree(Iom, d)
<1> HIDE DEF r
<1>7. PathsStay(r)
  BY <1>5 DEF PathsStay
<1>8. ASSUME NEW f \in Frames
      PROVE  IF Mapped(f)' THEN /\ r.frames[f] = Image(Iom.dev_tree, blocks'[f])
                                /\ Iom.dev_tree[DevOf[blocks'[f].key]] \in Idevs
             ELSE r.frames[f] = Free
  <2>1. r.frames[f] = IF f \in T THEN Free ELSE Iom.frames[f]
    BY <1>4 DEF WithoutFrames
  <2> HIDE DEF T
  <2> QED BY <1>2, <2>1, MappedFacts DEF T
<1>9. Iom' = r /\ CachedOpen'
  BY <1>6, <1>7, <1>8, Maps
<1>10. GotInOrder' = GotInOrder
  BY <1>5, <1>9, OrderAfter DEF Dev!Kept, Dev!Sound
<1>11. Dev!io_invalidate_dev(h)
  <2>1. Dev!HeldOf(d) = {}
    <3>1. ASSUME NEW f \in Frames, Iom.frames[f] # Free, Iom.frames[f].dev = d
          PROVE  f \in Dev!InTree(Iom, d)
      <4>1. Iom.frames[f].in_tree
        BY <3>1 DEF MInv, Dev!FullInv, Dev!AllInTree
      <4> QED BY <3>1, <4>1 DEF Dev!InTree
    <3> QED BY <1>2, <3>1 DEF Dev!HeldOf, Dev!BlocksOf
  <2>2. {} \in Dev!Failures(Iom, d)
    BY TreeDoesStay DEF Dev!Failures
  <2> QED BY <1>1, <1>3, <1>9, <1>10, <2>1, <2>2 DEF Dev!io_invalidate_dev, r
<1> QED BY <1>5, <1>9, <1>11, DevSteps DEF Refines, Dev!Kept

\* The end of io_manager_destroy.
LEMMA DestroyRefined ==
  ASSUME MInv, OnlyOpensFail, SafeInv', getting = NoGet, waited_all, call.op = "destroy", Counted
  PROVE  Refines
<1> DEFINE r == Dev!NothingOpen
<1>1. /\ Dev!Sound(r) /\ Dev!OpenIn(r) = {}
      /\ \A f \in Frames : r.frames[f] = Free
      /\ \A x, y : ~Dev!Precedes(r.dev_lru, x, y)
  <2>1. r = Dev!NothingOpen
    OBVIOUS
  <2> HIDE DEF r
  <2> QED BY <2>1, DevOK, Dev!NothingIsOpen
<1> HIDE DEF r
<1>2. Before' = Devices(r) /\ handles' = handles
  <2>1. call'.pc = "destroyed"
    BY DEF waited_all, At, MInv, SafeInv, TypeInv, TypeOK, Calls
  <2>2. table' = Devices(Table!NothingOpen)
    BY <2>1 DEF Counted, Recounted
  <2> QED BY <2>2, SameSets DEF Before, Counted, r
<1>3. PathsStay(r)
  BY <1>1 DEF PathsStay
<1>4. ASSUME NEW f \in Frames PROVE ~Mapped(f)'
  <2>1. blocks'[f] = blocks[f] /\ blocks[f].key \in Keys \cup {NoKey} /\ f # NoFrame
    BY NodeTypes DEF waited_all, MInv, SafeInv, TypeInv, TypeOK, Blocks
  <2> QED BY <2>1 DEF Mapped, waited_all
<1>5. Iom' = r /\ CachedOpen'
  BY <1>1, <1>2, <1>3, <1>4, Maps
<1>6. GotInOrder' = {}
  BY <1>1, <1>5, OrderNext DEF Dev!Sound, Dev!Order
<1>7. Dev!io_manager_destroy
  BY <1>2, <1>5, <1>6 DEF Dev!io_manager_destroy, r, MInv, CallsOpen
<1> QED BY <1>1, <1>5, <1>7, DevSteps DEF Refines, Dev!OpenKept

-----------------------------------------------------------------------------
(* io_put_dev, and io_get_dev that need not wait                           *)

\* While no call runs, no io_get_dev waits.
LEMMA IdleFacts ==
  ASSUME MInv, OnlyOpensFail, call.pc = "idle"
  PROVE  getting = NoGet /\ Before = table
<1>1. PICK on, pos, out : Safe(on, pos, out)
  BY DEF MInv, SafeInv
<1>2. call.op # "invalidate_dev"
  BY <1>1, TreeDoesStay DEF Safe, TreeOK, Emptying
<1> QED BY <1>2 DEF MInv, GetWaits, Before

LEMMA PutDevRefined ==
  ASSUME MInv, OnlyOpensFail, SafeInv', NEW h \in Handles, io_put_dev(h)
  PROVE  Refines /\ Dev!io_put_dev(h)
<1> DEFINE d == handles[h].dev
           r == Dev!_dec_holders(Iom, d)
<1>1. /\ handles[h] # NoHandle /\ d \in Dev!OpenIn(Iom) /\ Iom.devs[d].holders > 0
  BY IomSound, DevOK, Dev!HeldIsOpen DEF io_put_dev
<1>2. /\ Dev!Sound(r) /\ Dev!InUse(r) /\ Dev!OpenKept(Iom, r) /\ Dev!LruKept(Iom, r)
      /\ r.frames = Iom.frames
  <2>1. r = Dev!_dec_holders(Iom, d)
    OBVIOUS
  <2> HIDE DEF r, d
  <2> QED BY <1>1, <2>1, IomSound, DevOK, Dev!Putting
<1>3. Before' = Devices(r)
  <2>1. Record(Iom) /\ Before = Devices(Iom) /\ Before = table /\ Before' = table'
    BY IomSound, ManagersAreRecords, BeforeIs, IdleFacts DEF Before, MInv, io_put_dev
  <2>2. table' = Dev!_dec_holders(table, d)
    BY SameCounts DEF io_put_dev
  <2>3. Devices(r) = Dev!_dec_holders(Devices(Iom), d)
    <3> HIDE DEF d
    <3> QED BY <2>1, DecHoldersOf
  <2> HIDE DEF r, d
  <2> QED BY <2>1, <2>2, <2>3
<1> HIDE DEF r
<1>4. PathsStay(r)
  BY <1>2, IomSound, DevOK, Dev!PathKept DEF PathsStay
<1>5. ASSUME NEW f \in Frames
      PROVE  IF Mapped(f)' THEN /\ r.frames[f] = Image(Iom.dev_tree, blocks'[f])
                                /\ Iom.dev_tree[DevOf[blocks'[f].key]] \in Idevs
             ELSE r.frames[f] = Free
  <2>1. (Mapped(f)' <=> Mapped(f)) /\ blocks' = blocks
    BY DEF io_put_dev, Mapped, vars
  <2> QED BY <1>2, <2>1, MappedFacts
<1>6. Iom' = r /\ CachedOpen'
  BY <1>2, <1>3, <1>4, <1>5, Maps
<1>7. GotInOrder' = Dev!StillOpen(GotInOrder)
  BY <1>2, <1>6, OrderAfter DEF Dev!Sound
<1>8. Dev!io_put_dev(h)
  <2>1. Table!HeldOf(d) = Dev!HeldOf(d)
    BY DEF Table!HeldOf, Dev!HeldOf, Table!BlocksOf, Dev!BlocksOf
  <2> QED BY <1>1, <1>6, <1>7, <2>1 DEF Dev!io_put_dev, io_put_dev, r
<1> QED BY <1>2, <1>6, <1>8, DevSteps DEF Refines

\* A get: path is opened, after frames may have left the tree.
LEMMA GotRefined ==
  ASSUME MInv, OnlyOpensFail, SafeInv', getting' = NoGet,
         NEW h \in Handles, handles[h] = NoHandle, NEW path \in Paths, NEW flags \in Dev!Flags,
         NEW r, NEW e, <<r, e>> \in Dev!_get_dev(path, flags), table' = Devices(r),
         handles' = IF e = NoDev THEN handles
                    ELSE [handles EXCEPT ![h] = [dev |-> e, flags |-> flags]],
         \A f \in Frames :
           IF Mapped(f)' THEN Mapped(f) /\ blocks'[f] = blocks[f] /\ r.frames[f] = Iom.frames[f]
           ELSE r.frames[f] = Free
  PROVE  Dev!io_get_dev(h, path, flags) /\ CachedOpen'
<1>1. Dev!Effect(Iom, r, e, path, flags)
  <2>1. <<r, e>>[1] = r /\ <<r, e>>[2] = e
    OBVIOUS
  <2> QED BY <2>1, IomSound, DevOK, TreeDoesStay, Dev!GetEffect
<1>2. Dev!Sound(r) /\ Before' = Devices(r)
  BY <1>1 DEF Dev!Effect, Before
<1>3. PathsStay(r)
  BY <1>1, IomSound, DevOK, Dev!PathGot DEF PathsStay
<1>4. ASSUME NEW f \in Frames
      PROVE  IF Mapped(f)' THEN /\ r.frames[f] = Image(Iom.dev_tree, blocks'[f])
                                /\ Iom.dev_tree[DevOf[blocks'[f].key]] \in Idevs
             ELSE r.frames[f] = Free
  BY MappedFacts
<1>5. Iom' = r /\ CachedOpen'
  BY <1>2, <1>3, <1>4, Maps
<1>6. GotInOrder' = Dev!StillOpen(Dev!NowLast(path))
  <2>1. Dev!TableIn(Iom) /\ Dev!TableIn(Iom')
    BY <1>2, <1>5, IomSound DEF Dev!Sound
  <2>2. GotInOrder = Dev!Order(Iom) /\ GotInOrder' = Dev!Order(Iom')
    BY <2>1, OrderIsSo, OrderNext
  <2>3. Dev!Order(r) =
          Dev!StillIn({pq \in Dev!Order(Iom) : pq[1] # path} \cup (Paths \X {path}), r)
    BY <1>1, <2>1, DevOK, Dev!OrderGot
  <2> QED BY <1>5, <2>2, <2>3 DEF Dev!StillIn, Dev!StillOpen, Dev!NowLast
<1>7. PICK outcome \in Dev!_get_dev(path, flags) : outcome = <<r, e>>
  OBVIOUS
<1> QED BY <1>5, <1>6, <1>7 DEF Dev!io_get_dev

\* What Outgoing looks at.
LEMMA OutgoingIs ==
  ASSUME NEW path, NEW flags
  PROVE  LET d == table.dev_tree[path]
         IN Outgoing(path, flags) =
              IF d # NoDev
              THEN IF /\ Dev!_need_upgrade_dev(table, d, flags) /\ Dev!SlowPath(table, d, flags)
                      /\ Dev!Unheld(table, d)
                   THEN d ELSE NoDev
              ELSE IF table.nr_open < max_cache_devs \/ Dev!Victims(table) = {} THEN NoDev
              ELSE Dev!Victim(table)
BY SameLists, SameGets DEF Outgoing, Reopens

\* The frames do not matter to it.
LEMMA LooksAtDevices ==
  ASSUME NEW m, NEW n, m.devs = n.devs, m.dev_tree = n.dev_tree, m.dev_lru = n.dev_lru
  PROVE  /\ Dev!Victims(m) = Dev!Victims(n) /\ Dev!Victim(m) = Dev!Victim(n)
         /\ \A d : Dev!Unheld(m, d) = Dev!Unheld(n, d)
         /\ \A d, flags : /\ Dev!_need_upgrade_dev(m, d, flags) = Dev!_need_upgrade_dev(n, d, flags)
                          /\ Dev!SlowPath(m, d, flags) = Dev!SlowPath(n, d, flags)
<1>1. \A d : Dev!Unheld(m, d) = Dev!Unheld(n, d)
  BY DEF Dev!Unheld
<1>2. Dev!Victims(m) = Dev!Victims(n)
  BY <1>1 DEF Dev!Victims
<1>3. Dev!Victim(m) = Dev!Victim(n)
  BY DEF Dev!Victim, Dev!Unheld, Dev!SelectInSeq
<1>4. \A d, flags : /\ Dev!_need_upgrade_dev(m, d, flags) = Dev!_need_upgrade_dev(n, d, flags)
                    /\ Dev!SlowPath(m, d, flags) = Dev!SlowPath(n, d, flags)
  BY DEF Dev!_need_upgrade_dev, Dev!SlowPath
<1> QED BY <1>1, <1>2, <1>3, <1>4

LEMMA IomLooks ==
  ASSUME getting = NoGet
  PROVE  /\ Dev!Victims(Iom) = Dev!Victims(table) /\ Dev!Victim(Iom) = Dev!Victim(table)
         /\ \A d : Dev!Unheld(Iom, d) = Dev!Unheld(table, d)
         /\ \A d, flags : /\ Dev!_need_upgrade_dev(Iom, d, flags) = Dev!_need_upgrade_dev(table, d, flags)
                          /\ Dev!SlowPath(Iom, d, flags) = Dev!SlowPath(table, d, flags)
         /\ Iom.dev_tree = table.dev_tree /\ Iom.nr_open = table.nr_open
<1>1. /\ Iom.devs = table.devs /\ Iom.dev_tree = table.dev_tree /\ Iom.dev_lru = table.dev_lru
      /\ Iom.nr_open = table.nr_open
  BY IomFields DEF Before
<1> QED BY <1>1, LooksAtDevices

\* A device that is opened or held takes no frame from another one.
LEMMA GotFrames ==
  ASSUME MInv, OnlyOpensFail, getting = NoGet, NEW path \in Paths, NEW flags \in Dev!Flags,
         Outgoing(path, flags) = NoDev, NEW outcome \in Dev!_get_dev(path, flags)
  PROVE  outcome[1].frames = Iom.frames
<1> DEFINE d == Iom.dev_tree[path]
           held == Dev!HeldIn(Iom, d)
<1>1. Record(Iom) /\ Dev!Sound(Iom) /\ Dev!TableIn(Iom) /\ d = table.dev_tree[path]
  BY IomSound, ManagersAreRecords, IomLooks
<1>2. CASE d = NoDev
  <2>1. outcome \in Dev!_new_dev(Iom, path, flags)
    BY <1>2 DEF Dev!_get_dev
  <2>2. Iom.nr_open < max_cache_devs \/ Dev!Victims(Iom) = {}
    <3>1. table.nr_open < max_cache_devs \/ Dev!Victims(table) = {}
      <4>1. SUFFICES ASSUME table.nr_open >= max_cache_devs, Dev!Victims(table) # {} PROVE FALSE
        BY <1>1, IomLooks, DevOK DEF Dev!TableIn, Dev!Managers
      <4>2. Dev!Victim(table) = NoDev
        BY <1>1, <1>2, <4>1, OutgoingIs, DevOK, IomLooks DEF Dev!TableIn, Dev!Managers
      <4>3. Dev!Victim(Iom) \in Dev!OpenIn(Iom)
        BY <1>1, <4>1, IomLooks, DevOK, Dev!VictimIs
      <4> QED BY <4>2, <4>3, IomLooks, DevOK DEF Dev!OpenIn
    <3> QED BY <3>1, IomLooks
  <2>3. outcome \in Dev!Opened(Iom, path, flags)
    BY <2>1, <2>2 DEF Dev!_new_dev
  <2>4. CASE outcome = <<Iom, NoDev>>
    BY <2>4
  <2>5. CASE outcome # <<Iom, NoDev>>
    BY <1>1, <1>2, <2>3, <2>5, DevOK, Dev!Opening
  <2> QED BY <2>4, <2>5
<1>3. CASE d # NoDev
  <2>1. d \in Dev!OpenIn(Iom)
    BY <1>1, <1>3, DevOK, Dev!PathOpen
  <2>2. /\ held.frames = Iom.frames /\ Record(held)
        /\ held.devs[d].holders = Iom.devs[d].holders + 1
        /\ held.devs[d].flags = Iom.devs[d].flags
    <3>1. Iom.devs[d] \in Dev!DevRecords
      BY <2>1, <1>1 DEF Dev!OpenIn, Dev!TableIn, Dev!Managers
    <3>2. held.devs[d] = Dev!WithHolders(Iom.devs[d], Iom.devs[d].holders + 1) /\ held.frames = Iom.frames
      <4>1. held = Dev!HeldIn(Iom, d)
        OBVIOUS
      <4> HIDE DEF held, d
      <4> QED BY <1>1, <2>1, <4>1, DevOK, Dev!Holding
    <3>3. Record(held)
      <4> HIDE DEF d
      <4> QED BY <1>1, HeldInOf
    <3> HIDE DEF held, d
    <3> QED BY <3>1, <3>2, <3>3 DEF Dev!WithHolders, Dev!DevRecords
  <2>3. Dev!_dec_holders(held, d).frames = Iom.frames
    <3> HIDE DEF d
    <3> QED BY <2>2, DecHoldersOf
  <2>4. \/ outcome = <<held, d>>
        \/ /\ Dev!_need_upgrade_dev(held, d, flags) /\ Dev!SlowPath(Iom, d, flags)
           /\ outcome \in Dev!Reopened(held, path, d, flags)
        \/ outcome \in Dev!Upgraded(held, d, flags)
    BY <1>3 DEF Dev!_get_dev, Dev!HeldIn
  <2>5. CASE outcome = <<held, d>>
    BY <2>2, <2>5
  <2>6. CASE /\ Dev!_need_upgrade_dev(held, d, flags) /\ Dev!SlowPath(Iom, d, flags)
             /\ outcome \in Dev!Reopened(held, path, d, flags)
    <3>1. Dev!_need_upgrade_dev(Iom, d, flags)
      BY <2>2, <2>6 DEF Dev!_need_upgrade_dev
    <3>2. ~Dev!Unheld(Iom, d)
      BY <1>1, <1>3, <2>6, <3>1, OutgoingIs, IomLooks
    <3>3. Dev!OtherHolders(held, d)
      <4>1. Iom.devs[d].holders \in Nat
        BY <1>1, <2>1 DEF Dev!TableIn, Dev!Managers, Dev!OpenIn, Dev!DevRecords
      <4> QED BY <2>2, <3>2, <4>1 DEF Dev!OtherHolders, Dev!Unheld
    <3>4. outcome = <<Dev!_dec_holders(held, d), NoDev>>
      BY <2>6, <3>3 DEF Dev!Reopened
    <3> QED BY <2>3, <3>4
  <2>7. CASE outcome \in Dev!Upgraded(held, d, flags)
    <3>1. CASE outcome = <<Dev!_dec_holders(held, d), NoDev>>
      BY <2>3, <3>1
    <3>2. CASE outcome = <<[held EXCEPT !.devs[d].flags = flags], d>>
      BY <2>2, <3>2 DEF Record
    <3> QED BY <2>7, <3>1, <3>2, TreeDoesStay DEF Dev!Upgraded
  <2> QED BY <2>4, <2>5, <2>6, <2>7
<1> QED BY <1>2, <1>3

\* What a get may come to is an io manager and a device.
Pair(outcome) == outcome = <<outcome[1], outcome[2]>>

LEMMA Pairs ==
  ASSUME NEW path, NEW flags, NEW outcome \in Dev!_get_dev(path, flags)
  PROVE  Pair(outcome)
<1>1. \A r, e : Pair(<<r, e>>)
  BY DEF Pair
<1>2. ASSUME NEW m, NEW o \in Dev!Opened(m, path, flags) PROVE Pair(o)
  BY <1>1, Zenon DEF Dev!Opened
<1>3. ASSUME NEW m, NEW o \in Dev!_new_dev(m, path, flags) PROVE Pair(o)
  BY <1>2, Zenon DEF Dev!_new_dev
<1>4. ASSUME NEW m, NEW d, NEW o \in Dev!Reopened(m, path, d, flags) PROVE Pair(o)
  BY <1>1, <1>3, Zenon DEF Dev!Reopened
<1>5. ASSUME NEW m, NEW d, NEW o \in Dev!Upgraded(m, d, flags) PROVE Pair(o)
  BY <1>1, Zenon DEF Dev!Upgraded
<1> QED BY <1>1, <1>3, <1>4, <1>5, Zenon DEF Dev!_get_dev

LEMMA GetDevRefined ==
  ASSUME MInv, OnlyOpensFail, SafeInv', NEW h \in Handles, NEW path \in Paths, NEW flags \in GetFlags,
         io_get_dev(h, path, flags)
  PROVE  Dev!io_get_dev(h, path, flags) /\ CachedOpen'
<1>1. getting = NoGet /\ getting' = NoGet /\ flags \in Dev!Flags /\ handles[h] = NoHandle
  BY IdleFacts, PathAssumption, SameSets DEF io_get_dev, MayGet
<1>2. PICK outcome \in Dev!_get_dev(path, flags) : Got(h, flags, outcome)
  BY SameGets DEF io_get_dev
<1>3. outcome[1].frames = Iom.frames
  BY <1>1, <1>2, GotFrames DEF io_get_dev
<1>4. outcome = <<outcome[1], outcome[2]>>
  BY <1>2, Pairs DEF Pair
<1>5. ASSUME NEW f \in Frames
      PROVE  IF Mapped(f)' THEN /\ Mapped(f) /\ blocks'[f] = blocks[f]
                                /\ outcome[1].frames[f] = Iom.frames[f]
             ELSE outcome[1].frames[f] = Free
  <2>1. (Mapped(f)' <=> Mapped(f)) /\ blocks' = blocks
    BY DEF io_get_dev, Mapped, vars
  <2> QED BY <1>3, <2>1, MappedFacts
<1> QED BY <1>1, <1>2, <1>4, <1>5, GotRefined DEF Got

-----------------------------------------------------------------------------
(* io_get_dev that has to empty a device first                             *)

\* The device whose blocks must go is open, and nobody holds it.
LEMMA OutgoingFacts ==
  ASSUME MInv, OnlyOpensFail, getting = NoGet, NEW path \in Paths, NEW flags \in Dev!Flags,
         NEW d, d = Outgoing(path, flags), d # NoDev
  PROVE  /\ d \in Dev!OpenIn(Iom) /\ Iom.devs[d].holders = 0
         /\ table.devs[d].path \in Paths /\ Iom.dev_tree[table.devs[d].path] = d
         /\ \/ /\ table.dev_tree[path] = NoDev /\ table.nr_open >= max_cache_devs
               /\ Dev!Victims(table) # {} /\ d = Dev!Victim(table)
            \/ /\ table.dev_tree[path] = d /\ Dev!Unheld(table, d)
               /\ Dev!_need_upgrade_dev(table, d, flags) /\ Dev!SlowPath(table, d, flags)
<1>1. Dev!Sound(Iom) /\ Dev!TableIn(Iom) /\ Iom.devs = table.devs
  BY IomSound, IomFields DEF Before
<1>2. CASE table.dev_tree[path] = NoDev
  <2>1. /\ ~(table.nr_open < max_cache_devs) /\ Dev!Victims(table) # {} /\ d = Dev!Victim(table)
    BY <1>2, OutgoingIs
  <2>2. d \in Dev!OpenIn(Iom) /\ Iom.devs[d].holders = 0
    BY <1>1, <2>1, IomLooks, DevOK, Dev!VictimIs
  <2>3. table.nr_open >= max_cache_devs
    BY <1>1, <2>1, IomLooks, DevOK DEF Dev!TableIn, Dev!Managers
  <2> QED BY <1>1, <1>2, <2>1, <2>2, <2>3, DevOK, Dev!OpenPath
<1>3. CASE table.dev_tree[path] # NoDev
  <2>1. /\ table.dev_tree[path] = d /\ Dev!Unheld(table, d)
        /\ Dev!_need_upgrade_dev(table, d, flags) /\ Dev!SlowPath(table, d, flags)
    BY <1>3, OutgoingIs
  <2>2. d \in Dev!OpenIn(Iom)
    BY <1>1, <1>3, <2>1, IomLooks, DevOK, Dev!PathOpen
  <2> QED BY <1>1, <2>1, <2>2, DevOK, Dev!OpenPath DEF Dev!Unheld
<1> QED BY <1>2, <1>3

\* It has blocks, and nobody holds one.
LEMMA OutgoingBlocks ==
  ASSUME MInv, OnlyOpensFail, getting = NoGet, NEW p \in Paths, NEW d \in Dev!OpenIn(Iom),
         Iom.devs[d].holders = 0, Iom.dev_tree[p] = d
  PROVE  /\ \E k \in Keys : DevOf[k] = p
         /\ \A j \in CachedOf(p) : blocks[rtree[j]].ref_count = 0
<1>1. Dev!InTree(Iom, d) = {f \in Frames : Mapped(f) /\ DevOf[blocks[f].key] = p}
  BY FramesOfDev
<1>2. \E k \in Keys : DevOf[k] = p
  <2>1. Dev!Blocks(Iom, d) = Cardinality(Dev!InTree(Iom, d)) /\ Iom.devs[d] \in Dev!DevRecords
        /\ Iom.devs[d].holders + Iom.devs[d].blocks > 0
    BY IomSound, SameSets DEF Dev!Sound, Dev!CountedIn, Dev!OpenIn, Dev!TableIn, Dev!Managers, Dev!InUse
  <2>2. Cardinality(Dev!InTree(Iom, d)) > 0
    BY <2>1 DEF Dev!Blocks, Dev!OpenIn, Dev!DevRecords
  <2>3. Dev!InTree(Iom, d) # {}
    <3>1. Cardinality({}) = 0
      BY FS_EmptySet
    <3> QED BY <2>2, <3>1
  <2>4. PICK f \in Frames : Mapped(f) /\ DevOf[blocks[f].key] = p
    BY <1>1, <2>3
  <2> QED BY <2>4, MappedFacts
<1>3. ASSUME NEW j \in CachedOf(p) PROVE blocks[rtree[j]].ref_count = 0
  <2>1. /\ j \in Keys /\ Cached(j) /\ DevOf[j] = p /\ rtree[j] \in Frames
        /\ blocks[rtree[j]].key = j /\ Mapped(rtree[j])
    BY TreeDoesStay, TreeIs DEF CachedOf, TreeFacts, MInv
  <2>2. rtree[j] \in Dev!InTree(Iom, d)
    BY <1>1, <2>1
  <2>3. /\ Iom.frames[rtree[j]] # Free /\ Iom.frames[rtree[j]].dev = d
        /\ Iom.frames[rtree[j]] = Image(Iom.dev_tree, blocks[rtree[j]])
    BY <2>1, <2>2, MappedFacts DEF Dev!InTree
  <2>4. d \in Dev!Unused(Iom)
    BY DEF Dev!Unused, Dev!Holders, Dev!OpenIn
  <2>5. ~Iom.frames[rtree[j]].ref
    BY <2>1, <2>3, <2>4, IomSound, DevOK, Dev!UnusedFramesFree
  <2>6. ~(blocks[rtree[j]].ref_count > 0)
    BY <2>3, <2>5, ImageOf
  <2>7. blocks[rtree[j]].ref_count \in Nat
    BY <2>1 DEF MInv, SafeInv, TypeInv, TypeOK, Blocks
  <2> QED BY <2>6, <2>7
<1> QED BY <1>2, <1>3

\* The table is one an io_get_dev may have to come back to.
LEMMA TableType ==
  ASSUME MInv, getting = NoGet
  PROVE  table \in Tables
<1>1. /\ table = Devices(table) /\ Iom \in Dev!Managers /\ Iom.devs = table.devs
      /\ Iom.dev_tree = table.dev_tree /\ Iom.dev_lru = table.dev_lru
      /\ Iom.nr_open = table.nr_open /\ Iom.nr_fds = table.nr_fds
  BY IomSound, IomFields DEF Before, MInv, TableOK
<1> QED BY <1>1, SameSets DEF Dev!Managers, Tables, Devices

LEMMA WaitsRefined ==
  ASSUME MInv, OnlyOpensFail, NEW h \in Handles, NEW path \in Paths, NEW flags \in GetFlags,
         io_get_dev_waits(h, path, flags)
  PROVE  /\ Refines
         /\ SafeInv' /\ TableOK' /\ GetWaits' /\ GetHolds' /\ CallsOpen' /\ PlacesOpen'
<1> DEFINE d == Outgoing(path, flags)
           p == table.devs[d].path
           k == CHOOSE j \in {j \in Keys : DevOf[j] = p} : TRUE
<1>1. /\ call.pc = "idle" /\ handles[h] = NoHandle /\ getting = NoGet /\ Before = table
      /\ flags \in Dev!Flags /\ flags \in Table!Flags /\ d # NoDev
  BY IdleFacts, PathAssumption, SameSets DEF io_get_dev_waits, MayGet
<1>2. /\ d \in Dev!OpenIn(Iom) /\ Iom.devs[d].holders = 0 /\ p \in Paths /\ Iom.dev_tree[p] = d
      /\ \/ /\ table.dev_tree[path] = NoDev /\ table.nr_open >= max_cache_devs
            /\ Dev!Victims(table) # {} /\ d = Dev!Victim(table)
         \/ /\ table.dev_tree[path] = d /\ Dev!Unheld(table, d)
            /\ Dev!_need_upgrade_dev(table, d, flags) /\ Dev!SlowPath(table, d, flags)
  BY <1>1, OutgoingFacts
<1>3. k \in Keys /\ DevOf[k] = p /\ \A j \in CachedOf(p) : blocks[rtree[j]].ref_count = 0
  <2> HIDE DEF d
  <2> QED BY <1>1, <1>2, OutgoingBlocks
<1>4. /\ call' = [Start("invalidate_dev", "writeback_v") EXCEPT !.key = k, !.todo = CachedOf(p)]
      /\ UNCHANGED <<lists, blocks, rtree, nr_locked, nr_dirty, nr_io_pending, inflight, ghosts, handles>>
  <2>1. {j \in {i \in Keys : DevOf[i] = p} : Cached(j)} = CachedOf(p)
    BY DEF CachedOf
  <2> QED BY <2>1 DEF io_get_dev_waits
<1>5. /\ getting' = [h |-> h, path |-> path, flags |-> flags, dev |-> d, before |-> table]
      /\ table' = IF table.dev_tree[path] = NoDev THEN table ELSE Dev!HeldIn(table, d)
  BY SameGets DEF io_get_dev_waits
<1> HIDE DEF k
<1>6. /\ call' \in Calls /\ call'.pc = "writeback_v" /\ call'.todo = CachedOf(p)
      /\ call'.op = "invalidate_dev" /\ call'.key = k
  <2>1. CachedOf(p) \in SUBSET Keys
    BY DEF CachedOf
  <2>2. call'.op = "invalidate_dev" /\ call'.key = k
    BY <1>4 DEF Start, Idle
  <2> DEFINE c == Start("invalidate_dev", "writeback_v")
  <2>3. c \in Calls /\ c.pc = "writeback_v"
    BY Starts
  <2> HIDE DEF c
  <2>4. LET e == [c EXCEPT !.key = k, !.todo = CachedOf(p)]
        IN e \in Calls /\ e.todo = CachedOf(p) /\ e.pc = c.pc
    <3>1. \A j \in Keys, todo \in SUBSET Keys :
            /\ [c EXCEPT !.key = j, !.todo = todo] \in Calls
            /\ [c EXCEPT !.key = j, !.todo = todo].todo = todo
            /\ [c EXCEPT !.key = j, !.todo = todo].pc = c.pc
      BY <2>3, CallEdits, Zenon
    <3> QED BY <1>3, <2>1, <3>1
  <2>5. call' = [c EXCEPT !.key = k, !.todo = CachedOf(p)]
    BY <1>4 DEF c
  <2> QED BY <2>2, <2>3, <2>4, <2>5
<1>7. SafeInv'
  <2>1. TypeOK'
    BY <1>4, <1>6 DEF MInv, SafeInv, TypeInv, TypeOK, ghosts
  <2>2. CallOK'
    BY <1>4, <1>6 DEF CallOK, MInv, SafeInv, TypeInv, TypeOK, CachedOf, Cached
  <2>3. OpOK'
    BY <1>6 DEF OpOK
  <2>4. PICK on, pos, out : Safe(on, pos, out)
    BY DEF MInv, SafeInv
  <2>5. out = {}
    BY <1>1, <2>4, NothingInHand DEF Safe
  <2>6. Safe(on, pos, {})'
    BY <1>1, <1>3, <1>4, <2>4, <2>5, TreeDoesStay, EmptiesDevSafe DEF MInv, SafeInv, TypeInv
  <2> QED BY <2>1, <2>2, <2>3, <2>6 DEF SafeInv, TypeInv
<1>8. Refines
  <2>1. getting' # NoGet => Before' = table
    BY <1>5 DEF Before
  <2>2. getting' = NoGet => Before' = table'
    BY DEF Before
  <2>3. getting' \in Gets
    BY <1>1, <1>2, <1>5, TableType DEF Gets, Dev!OpenIn
  <2>4. Before' = Before
    BY <1>1, <2>1, <2>3, PathAssumption
  <2>5. KeepsTree /\ \A f \in Frames : SameBlock(f)
    BY <1>4 DEF KeepsTree, SameBlock
  <2>6. handles' = handles
    BY <1>4
  <2> QED BY <1>7, <2>4, <2>5, <2>6, NothingHappens, NothingRefined
<1>9. getting' \in Gets /\ getting' # NoGet
  <2>1. getting' \in Gets
    BY <1>1, <1>2, <1>5, TableType DEF Gets, Dev!OpenIn
  <2> QED BY <2>1, PathAssumption
<1>10. TableOK'
  <2>1. table = Devices(table) /\ Record(Iom) /\ Devices(Iom) = table
    BY <1>1, IomSound, ManagersAreRecords, BeforeIs DEF MInv, TableOK
  <2>2. Dev!HeldIn(table, d) = Devices(Dev!HeldIn(Iom, d))
    <3> HIDE DEF d
    <3> QED BY <2>1, HeldInOf
  <2>3. \A m : Devices(Devices(m)) = Devices(m)
    BY DEF Devices
  <2>4. table' = Devices(table')
    <3> HIDE DEF d
    <3> QED BY <1>5, <2>1, <2>2, <2>3
  <2>5. (table = Devices(table))'
    BY <2>4 DEF Devices
  <2> QED BY <1>9, <2>5 DEF TableOK
<1>11. GetWaits'
  <2>1. /\ getting'.before = table /\ getting'.dev = d /\ getting'.h = h /\ getting'.path = path
        /\ getting'.flags = flags
    BY <1>5
  <2>2. CASE table.dev_tree[path] = NoDev
    <3>1. FoundNoRoom(getting)'
      BY <1>2, <1>5, <2>1, <2>2, DevOK DEF FoundNoRoom, Dev!OpenIn
    <3> QED BY <1>1, <1>3, <1>4, <1>6, <2>1, <3>1 DEF GetWaits
  <2>3. CASE table.dev_tree[path] # NoDev
    <3>1. MustReopen(getting)'
      BY <1>2, <1>5, <2>1, <2>3 DEF MustReopen
    <3> QED BY <1>1, <1>3, <1>4, <1>6, <2>1, <3>1 DEF GetWaits
  <2> QED BY <2>2, <2>3
<1>12. GetHolds' /\ CallsOpen' /\ PlacesOpen'
  BY <1>6, <1>9 DEF GetHolds, CallsOpen, PlacesOpen
<1> QED BY <1>7, <1>8, <1>10, <1>11, <1>12

\* A device nobody holds is emptied, which frees its frames.
LEMMA EmptiedIs ==
  ASSUME MInv, OnlyOpensFail, remove_prefix, NEW d \in Dev!OpenIn(Iom),
         Iom.dev_tree[DevOf[call.key]] = d, table.dev_tree[DevOf[call.key]] = d,
         NEW m, Record(m), m.frames = Iom.frames, Devices(m) = table,
         NEW r, r = Dev!_invalidate_dev(m, d, {})
  PROVE  /\ Record(r) /\ r.frames = WithoutFrames(d) /\ Recounted = Devices(r)
         /\ \A f \in Frames :
              IF Mapped(f)' THEN Mapped(f) /\ blocks'[f] = blocks[f] /\ r.frames[f] = Iom.frames[f]
              ELSE r.frames[f] = Free
<1> DEFINE T == Dev!InTree(Iom, d)
<1>1. /\ \A f \in T : ~Iom.frames[f].ref /\ ~Iom.frames[f].dirty
      /\ \A f \in Frames : Mapped(f)' <=> Mapped(f) /\ f \notin T
      /\ \A f \in Frames : blocks'[f] = blocks[f]
  BY EmptiedFacts
<1>2. /\ Record(r) /\ r.frames = WithoutFrames(d)
      /\ Devices(r) = Dev!_dec_blocks(table, d, Cardinality(T))
  BY <1>1, InvalidatedIs
<1>3. Recounted = Dev!_dec_blocks(table, d, Cardinality(T))
  BY EmptiedCounts
<1>4. ASSUME NEW f \in Frames
      PROVE  IF Mapped(f)' THEN Mapped(f) /\ blocks'[f] = blocks[f] /\ r.frames[f] = Iom.frames[f]
             ELSE r.frames[f] = Free
  <2>1. r.frames[f] = IF f \in T THEN Free ELSE Iom.frames[f]
    BY <1>2 DEF WithoutFrames
  <2> HIDE DEF T
  <2> QED BY <1>1, <2>1, MappedFacts
<1> HIDE DEF T
<1> QED BY <1>2, <1>3, <1>4

\* There was no room: the least recently used device is emptied.
LEMMA RoomMade ==
  ASSUME MInv, OnlyOpensFail, remove_prefix, getting # NoGet, FoundNoRoom(getting),
         NEW outcome \in Dev!Opened(Recounted, getting.path, getting.flags)
  PROVE  \E r : /\ <<r, outcome[2]>> \in Dev!_get_dev(getting.path, getting.flags)
                /\ outcome[1] = Devices(r)
                /\ \A f \in Frames :
                     IF Mapped(f)'
                     THEN Mapped(f) /\ blocks'[f] = blocks[f] /\ r.frames[f] = Iom.frames[f]
                     ELSE r.frames[f] = Free
<1> DEFINE g == getting
           d == g.dev
           m == Dev!_invalidate_dev(Iom, d, {})
<1>1. /\ Before = g.before /\ table = Before /\ Devices(Iom) = table /\ Record(Iom)
      /\ g.path \in Paths /\ g.flags \in Dev!Flags
      /\ DevOf[call.key] = Iom.devs[d].path
      /\ Iom.devs = table.devs /\ Iom.dev_tree = table.dev_tree /\ Iom.dev_lru = table.dev_lru
      /\ Iom.nr_open = table.nr_open /\ Dev!Sound(Iom)
  <2>1. /\ Before = g.before /\ table = Before /\ g \in Gets /\ DevOf[call.key] = g.before.devs[d].path
    BY DEF Before, FoundNoRoom, MInv, TableOK, GetWaits
  <2>2. Devices(Iom) = Before /\ Record(Iom) /\ Dev!Sound(Iom)
    BY BeforeIs, IomSound, ManagersAreRecords DEF MInv
  <2>3. g.path \in Paths /\ g.flags \in Dev!Flags
    BY <2>1, SameSets DEF Gets
  <2> QED BY <2>1, <2>2, <2>3, IomFields
<1>2. /\ Dev!Victims(Iom) # {} /\ d = Dev!Victim(Iom) /\ Iom.nr_open >= max_cache_devs
      /\ Iom.dev_tree[g.path] = NoDev
  BY <1>1, LooksAtDevices DEF FoundNoRoom
<1>3. /\ d \in Dev!OpenIn(Iom) /\ Iom.dev_tree[DevOf[call.key]] = d
      /\ table.dev_tree[DevOf[call.key]] = d
  <2>1. d \in Dev!OpenIn(Iom)
    BY <1>1, <1>2, DevOK, Dev!VictimIs
  <2> QED BY <1>1, <2>1, DevOK, Dev!OpenPath DEF Dev!Sound
<1>4. /\ Record(m) /\ m.frames = WithoutFrames(d) /\ Recounted = Devices(m)
      /\ \A f \in Frames :
           IF Mapped(f)' THEN Mapped(f) /\ blocks'[f] = blocks[f] /\ m.frames[f] = Iom.frames[f]
           ELSE m.frames[f] = Free
  <2> HIDE DEF d
  <2> QED BY <1>1, <1>3, EmptiedIs
<1>5. PICK r : /\ <<r, outcome[2]>> \in Dev!Opened(m, g.path, g.flags)
               /\ Record(r) /\ r.frames = m.frames /\ outcome[1] = Devices(r)
  <2>1. outcome \in Dev!Opened(Devices(m), g.path, g.flags)
    BY <1>4
  <2> HIDE DEF m, g
  <2> QED BY <1>4, <2>1, OpenedOf
<1>6. <<r, outcome[2]>> \in Dev!_get_dev(g.path, g.flags)
  <2>1. {} \in Dev!Failures(Iom, d)
    BY TreeDoesStay DEF Dev!Failures
  <2>2. ~(Iom.nr_open < max_cache_devs)
    BY <1>1, <1>2, DevOK DEF Dev!Sound, Dev!TableIn, Dev!Managers
  <2>3. Dev!_new_dev(Iom, g.path, g.flags) =
          UNION {Dev!Opened(Dev!_invalidate_dev(Iom, d, failed), g.path, g.flags) :
                   failed \in Dev!Failures(Iom, d)}
    BY <1>2, <2>2 DEF Dev!_new_dev
  <2>4. <<r, outcome[2]>> \in Dev!_new_dev(Iom, g.path, g.flags)
    BY <1>5, <2>1, <2>3
  <2> QED BY <1>2, <2>4 DEF Dev!_get_dev
<1> QED BY <1>4, <1>5, <1>6

\* The device is emptied, closed, and opened with other flags.
LEMMA MadeAnew ==
  ASSUME MInv, OnlyOpensFail, remove_prefix, getting # NoGet, MustReopen(getting),
         NEW outcome \in Dev!Opened(Dev!_dec_holders(Recounted, getting.dev), getting.path, getting.flags)
  PROVE  \E r : /\ <<r, outcome[2]>> \in Dev!_get_dev(getting.path, getting.flags)
                /\ outcome[1] = Devices(r)
                /\ \A f \in Frames :
                     IF Mapped(f)'
                     THEN Mapped(f) /\ blocks'[f] = blocks[f] /\ r.frames[f] = Iom.frames[f]
                     ELSE r.frames[f] = Free
<1> DEFINE g == getting
           d == g.dev
           held == Dev!HeldIn(Iom, d)
           inv == Dev!_invalidate_dev(held, d, {})
           m == Dev!_dec_holders(inv, d)
<1>1. /\ Before = g.before /\ Devices(Iom) = Before /\ Record(Iom)
      /\ g.path \in Paths /\ g.flags \in Dev!Flags /\ d \in Idevs
      /\ DevOf[call.key] = Iom.devs[d].path
      /\ Iom.devs = g.before.devs /\ Iom.dev_tree = g.before.dev_tree
      /\ Iom.dev_lru = g.before.dev_lru /\ Dev!Sound(Iom) /\ Dev!TableIn(Iom)
      /\ table = Dev!HeldIn(Before, d)
  <2>1. /\ Before = g.before /\ g \in Gets /\ DevOf[call.key] = g.before.devs[d].path
    BY DEF Before, MInv, TableOK, GetWaits
  <2>2. Devices(Iom) = Before /\ Record(Iom) /\ Dev!Sound(Iom) /\ Dev!TableIn(Iom)
    BY BeforeIs, IomSound, ManagersAreRecords DEF MInv
  <2>3. g.path \in Paths /\ g.flags \in Dev!Flags /\ d \in Idevs
    BY <2>1, SameSets DEF Gets
  <2>4. table = Dev!HeldIn(Before, d)
    BY <2>1 DEF MustReopen
  <2> QED BY <2>1, <2>2, <2>3, <2>4, IomFields
<1>2. /\ Dev!_need_upgrade_dev(Iom, d, g.flags) /\ Dev!SlowPath(Iom, d, g.flags)
      /\ Iom.devs[d].holders = 0 /\ Iom.dev_tree[g.path] = d /\ d # NoDev
  BY <1>1, LooksAtDevices, DevOK DEF MustReopen, Dev!Unheld
<1>3. d \in Dev!OpenIn(Iom) /\ Iom.devs[d].path = g.path /\ Iom.devs[d] \in Dev!DevRecords
  <2>1. d \in Dev!OpenIn(Iom) /\ Iom.devs[d].path = g.path
    BY <1>1, <1>2, DevOK, Dev!PathOpen
  <2> QED BY <1>1, <2>1 DEF Dev!OpenIn, Dev!TableIn, Dev!Managers
<1> HIDE DEF d, g
<1>4. /\ Dev!Sound(held) /\ held.frames = Iom.frames /\ d \in Dev!OpenIn(held)
      /\ held.devs[d] = Dev!WithHolders(Iom.devs[d], 1)
      /\ Record(held) /\ Devices(held) = table
  <2>1. Iom.devs[d].holders + 1 = 1
    BY <1>2
  <2>2. /\ Dev!Sound(held) /\ held.frames = Iom.frames /\ d \in Dev!OpenIn(held)
        /\ held.devs[d] = Dev!WithHolders(Iom.devs[d], 1)
    BY <1>1, <1>3, <2>1, DevOK, Dev!Holding
  <2>3. Record(held) /\ Devices(held) = table
    BY <1>1, HeldInOf
  <2> QED BY <2>2, <2>3
<1>5. Iom.dev_tree[DevOf[call.key]] = d /\ table.dev_tree[DevOf[call.key]] = d
  BY <1>1, <1>2, <1>3 DEF Dev!HeldIn, Devices
<1>6. /\ Record(inv) /\ inv.frames = WithoutFrames(d) /\ Recounted = Devices(inv)
      /\ \A f \in Frames :
           IF Mapped(f)' THEN Mapped(f) /\ blocks'[f] = blocks[f] /\ inv.frames[f] = Iom.frames[f]
           ELSE inv.frames[f] = Free
  <2> HIDE DEF held
  <2> QED BY <1>3, <1>4, <1>5, EmptiedIs
<1>7. Record(m) /\ m.frames = inv.frames /\ Devices(m) = Dev!_dec_holders(Recounted, d)
  <2> HIDE DEF inv
  <2> QED BY <1>6, DecHoldersOf
<1>8. m.nr_open < max_cache_devs
  <2>1. {} \in Dev!Failures(held, d)
    BY TreeDoesStay DEF Dev!Failures
  <2>2. /\ held.devs[d].holders = 1 /\ held.devs[d].blocks \in Nat
        /\ Dev!WithBlocks(held.devs[d], 0).holders = 1 /\ Dev!WithBlocks(held.devs[d], 0).blocks = 0
    BY <1>3, <1>4 DEF Dev!WithHolders, Dev!WithBlocks, Dev!DevRecords
  <2>3. Dev!Sound(inv) /\ inv.devs[d] = Dev!WithBlocks(held.devs[d], 0)
    <3>1. inv = Dev!_invalidate_dev(held, d, {}) /\ held.devs[d].holders + held.devs[d].blocks > 0
      BY <2>2
    <3>2. held.devs[d].holders # 0
      BY <2>2
    <3> HIDE DEF held, inv
    <3> QED BY <1>4, <2>1, <3>1, <3>2, DevOK, Dev!Invalidated
  <2>4. /\ Dev!TableIn(inv) /\ d \in Dev!OpenIn(inv)
        /\ inv.devs[d].holders = 1 /\ inv.devs[d].blocks = 0
    <3> HIDE DEF inv, held
    <3>1. Dev!WithBlocks(held.devs[d], 0) \in Dev!DevRecords
      <4>1. held.devs[d] \in Dev!DevRecords
        BY <1>3, <1>4 DEF Dev!WithHolders, Dev!DevRecords
      <4> QED BY <4>1 DEF Dev!WithBlocks, Dev!DevRecords
    <3> QED BY <1>1, <1>3, <2>2, <2>3, <3>1, DevOK DEF Dev!Sound, Dev!OpenIn
  <2>5. m.nr_open = inv.nr_open - 1
    <3> HIDE DEF inv
    <3> QED BY <2>4, DevOK, Dev!DecHolders
  <2> HIDE DEF m, inv
  <2> QED BY <2>4, <2>5, DevOK DEF Dev!TableIn, Dev!Managers
<1>9. PICK r : /\ <<r, outcome[2]>> \in Dev!Opened(m, g.path, g.flags)
               /\ Record(r) /\ r.frames = m.frames /\ outcome[1] = Devices(r)
  <2>1. outcome \in Dev!Opened(Devices(m), g.path, g.flags)
    BY <1>7 DEF g, d
  <2> HIDE DEF m
  <2> QED BY <1>7, <2>1, OpenedOf
<1>10. <<r, outcome[2]>> \in Dev!_get_dev(g.path, g.flags)
  <2>1. {} \in Dev!Failures(held, d)
    BY TreeDoesStay DEF Dev!Failures
  <2>2. ~Dev!OtherHolders(held, d) /\ held.devs[d].flags = Iom.devs[d].flags
    BY <1>3, <1>4 DEF Dev!OtherHolders, Dev!WithHolders, Dev!DevRecords
  <2>3. Dev!_need_upgrade_dev(held, d, g.flags)
    BY <1>2, <2>2 DEF Dev!_need_upgrade_dev
  <2>4. Dev!_new_dev(m, g.path, g.flags) = Dev!Opened(m, g.path, g.flags)
    BY <1>8 DEF Dev!_new_dev
  <2>5. Dev!Reopened(held, g.path, d, g.flags) =
          UNION {Dev!_new_dev(Dev!_dec_holders(Dev!_invalidate_dev(held, d, failed), d), g.path, g.flags) :
                   failed \in Dev!Failures(held, d)}
    BY <2>2 DEF Dev!Reopened
  <2>6. <<r, outcome[2]>> \in Dev!Reopened(held, g.path, d, g.flags)
    BY <1>9, <2>1, <2>4, <2>5
  <2>7. Dev!_get_dev(g.path, g.flags) = Dev!Reopened(held, g.path, d, g.flags)
    <3>1. held = [Iom EXCEPT !.devs[d].holders = @ + 1, !.dev_lru = Dev!Used(@, d)]
      BY DEF Dev!HeldIn
    <3> QED BY <1>2, <2>3, <3>1 DEF Dev!_get_dev
  <2> QED BY <2>6, <2>7
<1> QED BY <1>6, <1>7, <1>9, <1>10 DEF g

LEMMA OpensRefined ==
  ASSUME MInv, OnlyOpensFail, SafeInv', io_get_dev_opens
  PROVE  /\ getting.h \in Handles /\ getting.path \in Paths /\ getting.flags \in Dev!Flags
         /\ Dev!io_get_dev(getting.h, getting.path, getting.flags) /\ CachedOpen'
<1> DEFINE g == getting
           closed == IF g.before.dev_tree[g.path] = NoDev THEN Recounted
                     ELSE Dev!_dec_holders(Recounted, g.dev)
<1>1. /\ g # NoGet /\ getting' = NoGet /\ remove_prefix
      /\ g.h \in Handles /\ g.path \in Paths /\ g.flags \in Dev!Flags /\ g.dev \in Idevs
      /\ handles[g.h] = NoHandle
      /\ FoundNoRoom(g) \/ MustReopen(g)
  BY SameSets DEF io_get_dev_opens, MInv, TableOK, GetWaits, Gets
<1>2. PICK outcome \in Dev!Opened(closed, g.path, g.flags) : Got(g.h, g.flags, outcome)
  BY SameGets, SameCounts DEF io_get_dev_opens
<1>3. PICK r : /\ <<r, outcome[2]>> \in Dev!_get_dev(g.path, g.flags)
               /\ outcome[1] = Devices(r)
               /\ \A f \in Frames :
                    IF Mapped(f)'
                    THEN Mapped(f) /\ blocks'[f] = blocks[f] /\ r.frames[f] = Iom.frames[f]
                    ELSE r.frames[f] = Free
  <2>1. CASE FoundNoRoom(g)
    <3>1. closed = Recounted
      BY <2>1 DEF FoundNoRoom
    <3> HIDE DEF closed
    <3> QED BY <1>1, <1>2, <2>1, <3>1, RoomMade
  <2>2. CASE MustReopen(g)
    <3>1. closed = Dev!_dec_holders(Recounted, g.dev)
      BY <1>1, <2>2, DevOK DEF MustReopen
    <3> HIDE DEF closed
    <3> QED BY <1>1, <1>2, <2>2, <3>1, MadeAnew
  <2> QED BY <1>1, <2>1, <2>2
<1>4. /\ table' = Devices(r)
      /\ handles' = IF outcome[2] = NoDev THEN handles
                    ELSE [handles EXCEPT ![g.h] = [dev |-> outcome[2], flags |-> g.flags]]
  <2>1. outcome[1] = Devices(r)
    BY <1>3
  <2>2. /\ table' = Devices(outcome[1])
        /\ handles' = IF outcome[2] = NoDev THEN handles
                      ELSE [handles EXCEPT ![g.h] = [dev |-> outcome[2], flags |-> g.flags]]
    BY <1>2, Zenon DEF Got
  <2>3. Devices(Devices(r)) = Devices(r)
    BY DEF Devices
  <2> QED BY <2>1, <2>2, <2>3, Zenon
<1> HIDE DEF g
<1>5. Dev!io_get_dev(g.h, g.path, g.flags) /\ CachedOpen'
  BY <1>1, <1>3, <1>4, GotRefined
<1> QED BY <1>1, <1>5 DEF g

-----------------------------------------------------------------------------
(* The steps of the block cache                                            *)

\* What is known at each place of a call.
Known ==
  /\ call.pc \notin {"abort", "undefined"}
  /\ \A f \in Frames : ~blocks[f].error
  /\ call.pc # "destroyed" =>
       \A f \in Frames : blocks[f].pending \/ blocks[f].ref_count > 0 => Mapped(f)
  /\ call.pc \in {"wait_block", "finish_get", "invalidate", "wait_written"} => Mapped(call.f)
  /\ call.pc = "scan" /\ call.node \in Frames =>
       Mapped(call.node) /\ blocks[call.node].dirty_bits = {}
  /\ call.pc = "new_block" =>
       call.op \in {"get", "prefetch"} /\ ~Mapped(call.f) /\ call.key \in Keys /\ ~Cached(call.key)
  /\ call.pc = "wait_written" => blocks[call.f].ref_count = 0
  /\ call.pc = "writeback_v" /\ call.op # "invalidate_dev" => \A k \in Keys : rtree[k] = NoFrame

LEMMA PlacesKnown ==
  ASSUME SafeInv, OnlyOpensFail
  PROVE  Known
<1>1. PICK on, pos, out : Safe(on, pos, out)
  BY DEF SafeInv
<1>2. /\ TreeOK(on, out) /\ FramesOK(on, out) /\ HandOK(out) /\ PlaceOK(on) /\ Faults = {}
      /\ TypeOK /\ CallOK
  BY <1>1, TreeDoesStay DEF Safe, SafeInv, TypeInv
<1>3. ASSUME NEW f \in Frames, InUse(f, on, out), call.pc # "destroyed" PROVE Mapped(f)
  <2>1. blocks[f].key \in Keys /\ rtree[blocks[f].key] = f
    BY <1>2, <1>3 DEF TreeOK
  <2> QED BY <2>1, KeyAssumption DEF Mapped
<1>4. ASSUME call.pc # "destroyed", NEW f \in Frames, blocks[f].pending \/ blocks[f].ref_count > 0
      PROVE  Mapped(f)
  <2>1. f \notin out /\ on[f] # free
    BY <1>2, <1>4, HeadFacts DEF FramesOK
  <2>2. InUse(f, on, out)
    BY <2>1 DEF InUse
  <2> QED BY <1>3, <1>4, <2>2
<1>5. ASSUME call.pc \in {"wait_block", "finish_get", "invalidate", "wait_written"} PROVE Mapped(call.f)
  BY <1>2, <1>3, <1>5 DEF TreeOK, CallOK
<1>6. ASSUME call.pc = "scan", call.node \in Frames
      PROVE  Mapped(call.node) /\ blocks[call.node].dirty_bits = {}
  <2>1. out = {} /\ on[call.node] = clean
    BY <1>2, <1>6, NothingInHand DEF PlaceOK
  <2>2. InUse(call.node, on, out)
    BY <2>1, HeadFacts DEF InUse
  <2> QED BY <1>2, <1>3, <1>6, <2>1, <2>2 DEF FramesOK
<1>7. ASSUME call.pc = "new_block"
      PROVE  call.op \in {"get", "prefetch"} /\ ~Mapped(call.f) /\ call.key \in Keys /\ ~Cached(call.key)
  <2>1. out = {call.f} /\ call.f \in Frames /\ call.f # NoFrame
    BY <1>2, <1>7, NodeTypes DEF HandOK, CallOK
  <2>2. ~InUse(call.f, on, out)
    BY <1>7, <2>1 DEF InUse
  <2>3. blocks[call.f].key \in Keys \cup {NoKey}
    BY <1>2, <2>1 DEF TypeOK, Blocks
  <2>4. ~Mapped(call.f)
    BY <1>2, <1>7, <2>1, <2>2, <2>3 DEF Mapped, TreeOK, Freed
  <2> QED BY <1>2, <1>7, <2>4 DEF TreeOK, PlaceOK, Cached
<1>8. call.pc = "writeback_v" /\ call.op # "invalidate_dev" => \A k \in Keys : rtree[k] = NoFrame
  BY <1>2 DEF PlaceOK, TreeOK
<1> QED BY <1>2, <1>4, <1>5, <1>6, <1>7, <1>8 DEF Known, PlaceOK, FramesOK

\* The table sees nothing of a step.
Unseen == KeepsTree /\ (\A f \in Frames : SameBlock(f)) /\ call'.pc # "destroyed"

LEMMA UnseenRefined ==
  ASSUME MInv, OnlyOpensFail, SafeInv', Unseen, Counted
  PROVE  Refines
BY CountsKept, NothingHappens, NothingRefined DEF Unseen

LEMMA UnseenWhen ==
  ASSUME UNCHANGED <<blocks, rtree>>, call'.pc # "destroyed"
  PROVE  Unseen
BY DEF Unseen, KeepsTree, SameBlock

\* _issue_write forgets an old error first.
LEMMA ErrorCleared ==
  ASSUME TypeOK, NEW f \in Frames, NEW b, b = [blocks[f] EXCEPT !.error = FALSE]
  PROVE  /\ blocks[f] \in Blocks /\ b \in Blocks
         /\ b.key = blocks[f].key /\ b.dirty_bits = blocks[f].dirty_bits
         /\ b.ref_count = blocks[f].ref_count /\ b.pending = blocks[f].pending
<1>1. blocks[f] \in Blocks
  BY DEF TypeOK
<1>2. b \in Blocks
  BY <1>1 DEF Blocks
<1>3. b.key = blocks[f].key /\ b.dirty_bits = blocks[f].dirty_bits
  BY <1>1 DEF Blocks
<1>4. b.ref_count = blocks[f].ref_count /\ b.pending = blocks[f].pending
  BY <1>1 DEF Blocks
<1> QED BY <1>1, <1>2, <1>3, <1>4

\* _issue_write changes neither the block nor who holds it.
LEMMA WriteUnseen ==
  ASSUME TypeOK, NEW l, NEW f \in Frames, NEW next, issue_write(l, f, next)
  PROVE  /\ \A g \in Frames : SameBlock(g)
         /\ call' = next \/ call' = At("abort")
<1> DEFINE b == [blocks[f] EXCEPT !.error = FALSE]
<1>1. blocks[f] \in Blocks /\ b.key = blocks[f].key /\ b.dirty_bits = blocks[f].dirty_bits
      /\ b.ref_count = blocks[f].ref_count /\ b \in Blocks
  BY ErrorCleared
<1> HIDE DEF b
<1>2. issue(l, f, b, "write", next)
  BY DEF issue_write, b
<1>3. call' = next \/ call' = At("abort")
  BY <1>2 DEF issue
<1>4. PICK c : /\ c.key = b.key /\ c.dirty_bits = b.dirty_bits /\ c.ref_count = b.ref_count
               /\ blocks' = [blocks EXCEPT ![f] = c] \/ blocks' = blocks
  <2>1. CASE b.pending
    <3>1. blocks' = [blocks EXCEPT ![f] = b]
      BY <1>2, <2>1 DEF issue
    <3> QED BY <3>1
  <2>2. CASE ~b.pending /\ b.io_count # 0
    <3>1. blocks' = blocks
      BY <1>2, <2>2 DEF issue
    <3> QED BY <3>1
  <2>3. CASE ~b.pending /\ b.io_count = 0
    <3> DEFINE runs == Runs(b.dirty_bits)
               early(ok) == {r \in runs \ ok : \A q \in ok : \A x \in r, y \in q : x < y}
               c(ok) == [b EXCEPT !.io_dir = "write", !.pending = (early(ok) = {}),
                                  !.io_count = Cardinality(ok), !.error = @ \/ ok # runs]
    <3>1. PICK ok : blocks' = [blocks EXCEPT ![f] = c(ok)]
      BY <1>2, <2>3 DEF issue
    <3>2. c(ok).key = b.key /\ c(ok).dirty_bits = b.dirty_bits /\ c(ok).ref_count = b.ref_count
      <4> HIDE DEF early, runs
      <4> QED BY <1>1 DEF Blocks
    <3> HIDE DEF c
    <3> QED BY <3>1, <3>2
  <2> QED BY <2>1, <2>2, <2>3
<1>6. ASSUME NEW g \in Frames PROVE SameBlock(g)
  <2>1. blocks \in [Frames -> Blocks]
    BY DEF TypeOK
  <2>2. CASE g # f
    <3>1. blocks'[g] = blocks[g]
      BY <1>4, <2>1, <2>2
    <3> QED BY <3>1 DEF SameBlock
  <2>3. CASE g = f
    <3>1. /\ blocks'[f].key = blocks[f].key /\ blocks'[f].dirty_bits = blocks[f].dirty_bits
          /\ blocks'[f].ref_count = blocks[f].ref_count
      BY <1>1, <1>4, <2>1
    <3> QED BY <2>3, <3>1 DEF SameBlock
  <2> QED BY <2>2, <2>3
<1> QED BY <1>3, <1>6

\* What clients do to the cache only starts calls, but for io_put_block.
LEMMA StartUnseen ==
  ASSUME MInv, OnlyOpensFail, SafeInv',
         \/ \E k \in Keys : \/ \E readonly, m : io_get_block_mask(k, readonly, m)
                            \/ io_prefetch_block(k) \/ io_invalidate_block(k) \/ io_invalidate_dev(k)
         \/ io_flush \/ io_invalidate_all \/ io_manager_destroy
  PROVE  Unseen
<1>1. UNCHANGED <<blocks, rtree>>
  BY Zenon DEF io_get_block_mask, io_prefetch_block, io_invalidate_block, io_invalidate_dev,
       io_flush, io_invalidate_all, io_manager_destroy
<1>2. call'.pc # "destroyed"
  <2>1. ASSUME NEW op, NEW pc, NEW k, NEW f, NEW m, NEW todo, NEW q
        PROVE  LET c == Start(op, pc)
               IN /\ c.pc = pc
                  /\ [c EXCEPT !.key = k, !.mode = m].pc = pc
                  /\ [[c EXCEPT !.key = k, !.mode = m] EXCEPT !.pc = q, !.f = f].pc = q
                  /\ [c EXCEPT !.key = k].pc = pc
                  /\ [c EXCEPT !.key = k, !.f = f, !.pc = q].pc = q
                  /\ [c EXCEPT !.key = k, !.todo = todo].pc = pc
                  /\ [c EXCEPT !.todo = todo].pc = pc
    BY DEF Start, Idle
  <2>2. \A result : Return(result).pc = "idle"
    BY DEF Return, Idle
  <2>3. ASSUME NEW k \in Keys, NEW readonly, NEW m, io_get_block_mask(k, readonly, m)
        PROVE  call'.pc # "destroyed"
    <3> DEFINE got == [Start("get", "alloc") EXCEPT !.key = k, !.mode = m]
    <3>1. \/ call' = Return(FALSE) \/ call' = got
          \/ \E f : call' = [got EXCEPT !.pc = "wait_block", !.f = f]
          \/ \E f : call' = [got EXCEPT !.pc = "finish_get", !.f = f]
      BY <2>3, Zenon DEF io_get_block_mask
    <3>2. call' = Return(FALSE) => call'.pc = "idle"
      BY <2>2
    <3>3. ASSUME call' # Return(FALSE) PROVE call'.pc # "destroyed"
      BY <3>1, <3>3 DEF Start, Idle
    <3> QED BY <3>2, <3>3
  <2>4. ASSUME NEW k \in Keys, io_prefetch_block(k) PROVE call'.pc # "destroyed"
    BY <2>1, <2>4 DEF io_prefetch_block
  <2>5. ASSUME NEW k \in Keys, io_invalidate_block(k) PROVE call'.pc # "destroyed"
    BY <2>5 DEF io_invalidate_block, Start, Idle
  <2>6. ASSUME NEW k \in Keys, io_invalidate_dev(k) PROVE call'.pc # "destroyed"
    BY <2>6 DEF io_invalidate_dev, Start, Idle
  <2>7. ASSUME io_flush \/ io_manager_destroy PROVE call'.pc # "destroyed"
    BY <2>1, <2>7 DEF io_flush, io_manager_destroy
  <2>8. ASSUME io_invalidate_all PROVE call'.pc # "destroyed"
    BY <2>1, <2>8 DEF io_invalidate_all
  <2> QED BY <2>3, <2>4, <2>5, <2>6, <2>7, <2>8
<1> QED BY <1>1, <1>2, UnseenWhen

\* A call that goes on or returns is not over for good.
LEMMA NotDestroyed ==
  ASSUME TypeOK
  PROVE  /\ \A result : Return(result).pc = "idle"
         /\ \A pc : At(pc).pc = pc
         /\ \A pc, x : [At(pc) EXCEPT !.f = x].pc = pc /\ [At(pc) EXCEPT !.node = x].pc = pc
                       /\ [At(pc) EXCEPT !.todo = x].pc = pc
         /\ \A pc, x, y : [At(pc) EXCEPT !.node = x, !.left = y].pc = pc
         /\ \A x, y : /\ [call EXCEPT !.node = x].pc = call.pc
                      /\ [[call EXCEPT !.node = x] EXCEPT !.left = y].pc = call.pc
                      /\ [call EXCEPT !.todo = x].pc = call.pc
                      /\ [call EXCEPT !.todo = x, !.ret = y].pc = call.pc
                      /\ [call EXCEPT !.batch = x].pc = call.pc
BY DEF Return, Idle, At, TypeOK, Calls

\* A call that goes on is for the same block.
LEMMA AtKeeps ==
  ASSUME TypeOK, NEW pc
  PROVE  /\ At(pc).pc = pc /\ At(pc).op = call.op /\ At(pc).key = call.key
         /\ At(pc).f = call.f /\ At(pc).mode = call.mode
<1>1. call \in Calls
  BY DEF TypeOK
<1> QED BY <1>1 DEF At, Calls

\* Most steps of a call are not seen either.
LEMMA StepUnseen ==
  ASSUME MInv, OnlyOpensFail, SafeInv',
         \/ alloc_block \/ evict \/ writeback \/ flush \/ writeback_v \/ writeback_v_done
         \/ invalidate_v \/ waited_io \/ waited_block
         \/ waited_all /\ call.op # "destroy"
  PROVE  Unseen
<1>1. TypeOK /\ TypeOK' /\ CallOK /\ Known
  BY PlacesKnown DEF MInv, SafeInv, TypeInv
<1>2. CASE alloc_block \/ evict
  <2>1. UNCHANGED <<blocks, rtree>>
    BY <1>2 DEF alloc_block, evict
  <2>2. CASE alloc_block
    <3>1. \/ call' = At("evict") \/ call' = At("undefined")
          \/ \E x : call' = [At("new_block") EXCEPT !.f = x]
      BY <2>2 DEF alloc_block
    <3>2. call'.pc # "destroyed"
      BY <1>1, <3>1 DEF At, TypeOK, Calls
    <3> QED BY <2>1, <3>2, UnseenWhen
  <2>3. CASE evict
    <3>1. call' = Return(FALSE) \/ \E x : call' = [At("scan") EXCEPT !.node = x]
      BY <2>3 DEF evict
    <3>2. call'.pc # "destroyed"
      <4>1. CASE call' = Return(FALSE)
        BY <4>1 DEF Return, Idle
      <4>2. CASE \E x : call' = [At("scan") EXCEPT !.node = x]
        BY <1>1, <4>2 DEF At, TypeOK, Calls
      <4> QED BY <3>1, <4>1, <4>2
    <3> QED BY <2>1, <3>2, UnseenWhen
  <2> QED BY <1>2, <2>2, <2>3
<1>3. CASE writeback
  <2> DEFINE f == call.node
  <2>1. rtree' = rtree
    BY <1>3 DEF writeback
  <2> DEFINE next == [[call EXCEPT !.node = lists.n[f]] EXCEPT !.left = @ - 1]
             done == f = dirty \/ (f \in Frames /\ call.left = 0)
  <2>2. CASE f \in Frames /\ ~done /\ Unused(f)
    <3>1. issue_write(lists, f, next) /\ call.pc = "writeback"
      BY <1>3, <2>2 DEF writeback
    <3>2. next.pc = "writeback"
      BY <1>1, <3>1 DEF TypeOK, Calls
    <3> HIDE DEF next
    <3>3. (\A g \in Frames : SameBlock(g)) /\ (call' = next \/ call' = At("abort"))
      BY <1>1, <2>2, <3>1, WriteUnseen
    <3> QED BY <1>1, <2>1, <3>2, <3>3, NotDestroyed DEF Unseen, KeepsTree
  <2>3. CASE ~(f \in Frames /\ ~done /\ Unused(f))
    <3>1. /\ UNCHANGED blocks /\ call.pc = "writeback"
          /\ \/ call' = At("undefined") \/ call' = [call EXCEPT !.node = lists.n[f]]
             \/ call' = Return(TRUE) \/ call' = At("wait_io")
      BY <1>3, <2>3 DEF writeback
    <3>2. call'.pc # "destroyed"
      <4>1. CASE call' = Return(TRUE)
        BY <4>1 DEF Return, Idle
      <4>2. CASE call' # Return(TRUE)
        BY <1>1, <3>1, <4>2 DEF At, TypeOK, Calls
      <4> QED BY <4>1, <4>2
    <3> QED BY <2>1, <3>1, <3>2, UnseenWhen
  <2> QED BY <2>2, <2>3
<1>4. CASE flush
  <2> DEFINE f == lists.n[dirty]
  <2>1. rtree' = rtree
    BY <1>4 DEF flush
  <2>2. CASE \E l : f \in Frames /\ issue_write(l, f, call)
    <3>1. PICK l : f \in Frames /\ issue_write(l, f, call)
      BY <2>2
    <3>2. (\A g \in Frames : SameBlock(g)) /\ (call' = call \/ call' = At("abort"))
      BY <1>1, <3>1, WriteUnseen
    <3> QED BY <1>1, <1>4, <2>1, <3>1, <3>2, NotDestroyed DEF Unseen, KeepsTree, flush
  <2>3. CASE ~\E l : f \in Frames /\ issue_write(l, f, call)
    <3>1. ~list_empty(lists, dirty) /\ ~Lost(f, dirty) => f \in Frames
      <4>1. lists.n[dirty] \in Nodes
        BY <1>1, HeadTypes, WalkTypes
      <4> QED BY <4>1, HeadFacts DEF list_empty, Lost
    <3>2. UNCHANGED blocks /\ call'.pc # "destroyed"
      BY <1>1, <1>4, <2>3, <3>1, NotDestroyed DEF flush
    <3> QED BY <2>1, <3>2, UnseenWhen
  <2> QED BY <2>2, <2>3
<1>5. CASE writeback_v
  <2>1. rtree' = rtree /\ call.pc = "writeback_v"
    BY <1>5 DEF writeback_v
  <2>2. PICK k \in call.todo :
          LET next == [call EXCEPT !.todo = @ \ {k}] IN
          IF blocks[rtree[k]].dirty_bits # {}
          THEN issue_write(lists, rtree[k], next)
          ELSE call' = next /\ UNCHANGED blocks
    BY <1>5 DEF writeback_v
  <2>3. rtree[k] \in Frames
    BY <1>1, <2>1 DEF CallOK
  <2> DEFINE next == [call EXCEPT !.todo = @ \ {k}]
  <2>4. next.pc = "writeback_v"
    BY <1>1, <2>1, NotDestroyed
  <2>5. CASE issue_write(lists, rtree[k], next)
    <3> HIDE DEF next
    <3>1. (\A g \in Frames : SameBlock(g)) /\ (call' = next \/ call' = At("abort"))
      BY <1>1, <2>3, <2>5, WriteUnseen
    <3> QED BY <1>1, <2>1, <2>4, <3>1, NotDestroyed DEF Unseen, KeepsTree
  <2>6. CASE call' = next /\ UNCHANGED blocks
    BY <2>1, <2>4, <2>6, UnseenWhen
  <2> QED BY <2>2, <2>5, <2>6
<1>6. CASE writeback_v_done
  <2>1. UNCHANGED blocks /\ call'.pc # "destroyed"
    BY <1>1, <1>6, NotDestroyed DEF writeback_v_done
  <2>2. KeepsTree
    BY <1>1, <1>6 DEF writeback_v_done, Known, KeepsTree
  <2> QED BY <2>1, <2>2 DEF Unseen, SameBlock
<1>7. CASE invalidate_v \/ waited_io \/ waited_block
  <2>1. UNCHANGED <<blocks, rtree>>
    BY <1>7 DEF invalidate_v, waited_io, waited_block
  <2>2. \/ \E x, y : call' = [call EXCEPT !.todo = x, !.ret = y] /\ call.pc = "invalidate_v"
        \/ \E pc \in {"evict", "finish_get", "invalidate"} : call' = At(pc)
    BY <1>7, Zenon DEF invalidate_v, waited_io, waited_block
  <2>3. call'.pc # "destroyed"
    BY <1>1, <2>2 DEF At, TypeOK, Calls
  <2> QED BY <2>1, <2>3, UnseenWhen
<1>8. CASE waited_all /\ call.op # "destroy"
  <2>1. UNCHANGED <<blocks, rtree>>
    BY <1>8 DEF waited_all
  <2>2. call'.pc # "destroyed"
    BY <1>1, <1>8, NotDestroyed DEF waited_all
  <2> QED BY <2>1, <2>2, UnseenWhen
<1> QED BY <1>2, <1>3, <1>4, <1>5, <1>6, <1>7, <1>8

\* A call other than _invalidate_dev's, and io_get_dev.
LEMMA NoneWaits ==
  ASSUME MInv, call.op # "invalidate_dev"
  PROVE  getting = NoGet
BY DEF MInv, GetWaits

\* The block of one frame leaves the tree.
LEMMA OneLeaves ==
  ASSUME MInv, OnlyOpensFail, SafeInv', getting = NoGet, Counted, call'.pc # "destroyed",
         NEW f \in Frames, Mapped(f), blocks[f].dirty_bits = {}, blocks[f].ref_count = 0,
         rtree' = [rtree EXCEPT ![blocks[f].key] = NoFrame], blocks' = blocks
  PROVE  Refines
<1> DEFINE k == blocks[f].key
<1>1. k \in Keys /\ Cached(k) /\ rtree \in [Keys -> Frames \cup {NoFrame}]
  <2>1. k \in Keys \cup {NoKey} /\ rtree \in [Keys -> Frames \cup {NoFrame}]
    BY DEF MInv, SafeInv, TypeInv, TypeOK, Blocks
  <2> QED BY <2>1, NodeTypes DEF Mapped, Cached
<1> HIDE DEF k
<1>2. {j \in Keys : Cached(j) /\ rtree'[j] = NoFrame} = {k}
  BY <1>1 DEF Cached, k
<1>3. table' = Dev!_dec_blocks(table, table.dev_tree[DevOf[k]], 1)
  <2>1. Cardinality({k}) = 1 /\ {k} # {} /\ (CHOOSE j \in {k} : TRUE) = k
    BY FS_Singleton
  <2>2. Recounted = Table!_dec_blocks(table, table.dev_tree[DevOf[k]], 1)
    BY <1>2, <2>1 DEF Recounted
  <2> QED BY <2>2, SameCounts DEF Counted
<1>4. getting' = NoGet /\ handles' = handles /\ ~(blocks[f].ref_count > 0)
  BY DEF Counted
<1> QED BY <1>3, <1>4, LeaveRefined DEF k

\* A clean block is evicted, or invalidated.
LEMMA ScanRefined ==
  ASSUME MInv, OnlyOpensFail, SafeInv', find_unused_clean_block, Counted
  PROVE  Refines
<1> DEFINE f == call.node
<1>1. TypeOK /\ Known /\ call.pc = "scan" /\ blocks' = blocks
  BY PlacesKnown DEF MInv, SafeInv, TypeInv, find_unused_clean_block
<1>2. CASE f \in Frames /\ Unused(f)
  <2>1. /\ rtree' = [rtree EXCEPT ![blocks[f].key] = NoFrame]
        /\ call' = [At("new_block") EXCEPT !.f = f]
    BY <1>2 DEF find_unused_clean_block
  <2>2. Mapped(f) /\ blocks[f].dirty_bits = {} /\ blocks[f].ref_count = 0
    BY <1>1, <1>2 DEF Known, Unused, Held, TypeOK, Blocks
  <2>3. call'.pc # "destroyed"
    BY <1>1, <2>1 DEF At, TypeOK, Calls
  <2>4. getting = NoGet
    <3>1. PICK on, pos, out : Safe(on, pos, out)
      BY DEF MInv, SafeInv
    <3> QED BY <1>1, <3>1, NoneWaits DEF Safe, PlaceOK
  <2> QED BY <1>1, <1>2, <2>1, <2>2, <2>3, <2>4, OneLeaves
<1>3. CASE ~(f \in Frames /\ Unused(f))
  <2>1. rtree' = rtree
    BY <1>3 DEF find_unused_clean_block
  <2>2. \/ \E x : call' = [call EXCEPT !.node = x]
        \/ call' = At("undefined") \/ call' = At("wait_io") \/ call' = Return(FALSE)
        \/ \E x, y : call' = [At("writeback") EXCEPT !.node = x, !.left = y]
    BY <1>3, Zenon DEF find_unused_clean_block
  <2>3. call'.pc # "destroyed"
    <3>1. CASE call' = Return(FALSE)
      BY <3>1 DEF Return, Idle
    <3>2. CASE call' # Return(FALSE)
      BY <1>1, <2>2, <3>2 DEF At, TypeOK, Calls
    <3> QED BY <3>1, <3>2
  <2>4. Unseen
    BY <1>1, <2>1, <2>3, UnseenWhen
  <2> QED BY <2>4, UnseenRefined
<1> QED BY <1>2, <1>3

LEMMA InvalidateBlockRefined ==
  ASSUME MInv, OnlyOpensFail, SafeInv', invalidate_block \/ waited_written, Counted
  PROVE  Refines
<1> DEFINE f == call.f
<1>1. /\ TypeOK /\ Known /\ f \in Frames /\ Mapped(f) /\ call.pc \in {"invalidate", "wait_written"}
      /\ \A x : Return(x).pc = "idle"
  BY PlacesKnown DEF MInv, SafeInv, TypeInv, CallOK, Known, Waited, invalidate_block, waited_written,
     Return, Idle
<1>2. getting = NoGet
  <2>1. PICK on, pos, out : Safe(on, pos, out)
    BY DEF MInv, SafeInv
  <2> QED BY <1>1, <2>1, NoneWaits DEF Safe, PlaceOK
<1>3. CASE /\ blocks' = blocks /\ rtree' = [rtree EXCEPT ![blocks[f].key] = NoFrame]
           /\ call' = Return(TRUE) /\ blocks[f].dirty_bits = {} /\ blocks[f].ref_count = 0
  BY <1>1, <1>2, <1>3, OneLeaves
<1>4. CASE invalidate_block
  <2>1. CASE f \in Held
    <3>1. UNCHANGED <<blocks, rtree>> /\ call' = Return(FALSE)
      BY <1>4, <2>1 DEF invalidate_block
    <3> QED BY <1>1, <3>1, UnseenWhen, UnseenRefined
  <2>2. CASE f \notin Held /\ blocks[f].dirty_bits # {}
    <3>1. issue_write(lists, f, At("wait_written")) /\ rtree' = rtree
      BY <1>4, <2>2 DEF invalidate_block
    <3>2. /\ \A g \in Frames : SameBlock(g)
          /\ call' = At("wait_written") \/ call' = At("abort")
      BY <1>1, <3>1, WriteUnseen
    <3>3. Unseen
      BY <1>1, <3>1, <3>2 DEF Unseen, KeepsTree, At, TypeOK, Calls
    <3> QED BY <3>3, UnseenRefined
  <2>3. CASE f \notin Held /\ blocks[f].dirty_bits = {}
    <3>1. /\ blocks' = blocks /\ rtree' = [rtree EXCEPT ![blocks[f].key] = NoFrame]
          /\ call' = Return(TRUE)
      BY <1>4, <2>3 DEF invalidate_block, recycle_block
    <3>2. blocks[f].ref_count = 0
      BY <1>1, <2>3 DEF Held, TypeOK, Blocks
    <3> QED BY <1>3, <2>3, <3>1, <3>2
  <2> QED BY <2>1, <2>2, <2>3
<1>5. CASE waited_written
  <2>1. /\ call.pc = "wait_written" /\ ~blocks[f].pending /\ ~blocks[f].error
    BY <1>1, <1>5 DEF waited_written, Waited, Waiting, Known
  <2>2. /\ blocks' = blocks /\ rtree' = [rtree EXCEPT ![blocks[f].key] = NoFrame]
        /\ call' = Return(TRUE)
    BY <1>5, <2>1 DEF waited_written, recycle_block
  <2>3. blocks[f].dirty_bits = {} /\ blocks[f].ref_count = 0
    BY <1>1, <2>1 DEF MInv, PlacesOpen, Known
  <2> QED BY <1>3, <2>2, <2>3
<1> QED BY <1>4, <1>5

\* The frame in hand becomes the block that is asked for.
LEMMA NewBlockEffect ==
  ASSUME TypeOK, Known, new_block, call.f \in Frames
  PROVE  /\ \A g \in Frames \ {call.f} : blocks'[g] = blocks[g]
         /\ blocks'[call.f].key = call.key /\ blocks'[call.f].dirty_bits = {}
         /\ blocks'[call.f].ref_count = 0
         /\ rtree' = [rtree EXCEPT ![call.key] = call.f]
         /\ call' \in {Return(TRUE), At("wait_block"), At("finish_get")}
<1> DEFINE f == call.f
           b == NewBlockOf(call.key)
           next == IF call.op = "prefetch" THEN Return(TRUE) ELSE At("wait_block")
<1>1. /\ b.key = call.key /\ b.dirty_bits = {} /\ b.ref_count = 0
      /\ ~b.pending /\ b.io_count = 0
  BY DEF NewBlockOf
<1>2. rtree' = [rtree EXCEPT ![call.key] = f]
  BY DEF new_block
<1>3. CASE MustRead(call.mode)
  <2> DEFINE runs == {Sectors}
             early(ok) == {r \in runs \ ok : \A q \in ok : \A x \in r, y \in q : x < y}
             c(ok) == [b EXCEPT !.io_dir = "read", !.pending = (early(ok) = {}),
                                !.io_count = Cardinality(ok), !.error = @ \/ ok # runs]
  <2>1. issue(list_init(lists, f), f, b, "read", next)
    BY <1>3 DEF new_block
  <2> HIDE DEF b, next
  <2>2. call' = next /\ \E ok : blocks' = [blocks EXCEPT ![f] = c(ok)]
    BY <1>1, <2>1 DEF issue
  <2>3. PICK ok : blocks' = [blocks EXCEPT ![f] = c(ok)]
    BY <2>2
  <2>4. c(ok).key = b.key /\ c(ok).dirty_bits = b.dirty_bits /\ c(ok).ref_count = b.ref_count
    <3> HIDE DEF early, runs
    <3> QED BY DEF b, NewBlockOf
  <2> HIDE DEF c
  <2> QED BY <1>1, <1>2, <2>2, <2>3, <2>4 DEF TypeOK, next
<1>4. CASE ~MustRead(call.mode)
  <2>1. blocks' = [blocks EXCEPT ![f] = b] /\ call' = At("finish_get")
    BY <1>4 DEF new_block
  <2> HIDE DEF b
  <2> QED BY <1>1, <1>2, <2>1 DEF TypeOK
<1> QED BY <1>3, <1>4

LEMMA NewBlockRefined ==
  ASSUME MInv, OnlyOpensFail, SafeInv', new_block, Counted
  PROVE  Refines
<1> DEFINE f == call.f
           k == call.key
<1>1. /\ TypeOK /\ Known /\ call.pc = "new_block" /\ f \in Frames
      /\ call.op \in {"get", "prefetch"} /\ ~Mapped(f) /\ k \in Keys /\ ~Cached(k)
  BY PlacesKnown DEF MInv, SafeInv, TypeInv, CallOK, Known, new_block
<1>2. /\ \A g \in Frames \ {f} : blocks'[g] = blocks[g]
      /\ blocks'[f].key = k /\ blocks'[f].dirty_bits = {} /\ blocks'[f].ref_count = 0
      /\ rtree' = [rtree EXCEPT ![k] = f]
      /\ call' \in {Return(TRUE), At("wait_block"), At("finish_get")}
  BY <1>1, NewBlockEffect
<1>3. getting = NoGet /\ getting' = NoGet /\ handles' = handles
  BY <1>1, NoneWaits DEF Counted
<1>4. PICK h \in Handles : IsOpen(h, k)
  BY <1>1 DEF MInv, GetHolds
<1>5. call'.pc # "destroyed"
  <2>1. call' = Return(TRUE) => call'.pc = "idle"
    BY DEF Return, Idle
  <2>2. call' \in {At("wait_block"), At("finish_get")} => call'.pc # "destroyed"
    BY <1>1 DEF At, TypeOK, Calls
  <2> QED BY <1>2, <2>1, <2>2
<1> HIDE DEF k, f
<1>6. table' = Dev!_inc_blocks(table, handles[h].dev)
  <2>1. /\ rtree \in [Keys -> Frames \cup {NoFrame}] /\ f # NoFrame
    BY <1>1, NodeTypes DEF TypeOK
  <2>2. {j \in Keys : Cached(j) /\ rtree'[j] = NoFrame} = {}
    BY <1>1, <1>2, <2>1 DEF Cached
  <2>3. {j \in Keys : ~Cached(j) /\ rtree'[j] # NoFrame} = {k}
    BY <1>1, <1>2, <2>1 DEF Cached
  <2>4. {k} # {} /\ (CHOOSE j \in {k} : TRUE) = k
    OBVIOUS
  <2>5. Recounted = Table!_inc_blocks(table, table.dev_tree[DevOf[k]])
    BY <1>5, <2>2, <2>3, <2>4 DEF Recounted
  <2> QED BY <1>4, <2>5, SameCounts DEF Counted, IsOpen
<1>7. ~(blocks'[f].ref_count > 0)
  BY <1>2
<1> QED BY <1>1, <1>2, <1>3, <1>4, <1>6, <1>7, MissRefined

\* A client gets the block.
LEMMA FinishGetEffect ==
  ASSUME TypeOK, Known, finish_get, call.f \in Frames
  PROVE  LET f == call.f
         IN /\ \A g \in Frames \ {f} : blocks'[g] = blocks[g]
            /\ blocks'[f].key = blocks[f].key
            /\ blocks'[f].dirty_bits = blocks[f].dirty_bits \cup
                 IF call.mode.type # "read" THEN call.mode.mask ELSE {}
            /\ blocks'[f].ref_count = blocks[f].ref_count + 1
            /\ rtree' = rtree /\ call' = Return(TRUE)
<1> DEFINE f == call.f
           b == blocks[f]
           touched == IF call.mode.type # "read" THEN [b EXCEPT !.dirty_bits = @ \cup call.mode.mask] ELSE b
<1>1. b \in Blocks /\ ~b.error
  BY DEF TypeOK, Known
<1>2. /\ blocks' = [blocks EXCEPT ![f] = [touched EXCEPT !.ref_count = @ + 1]]
      /\ rtree' = rtree /\ call' = Return(TRUE)
  BY <1>1 DEF finish_get
<1>3. /\ touched.key = b.key /\ touched.ref_count = b.ref_count
      /\ touched.dirty_bits = b.dirty_bits \cup IF call.mode.type # "read" THEN call.mode.mask ELSE {}
      /\ DOMAIN touched = DOMAIN b
  BY <1>1 DEF Blocks
<1>4. LET c == [touched EXCEPT !.ref_count = @ + 1]
      IN c.key = touched.key /\ c.dirty_bits = touched.dirty_bits /\ c.ref_count = touched.ref_count + 1
  BY <1>1 DEF Blocks
<1> HIDE DEF touched
<1> QED BY <1>2, <1>3, <1>4 DEF TypeOK

LEMMA FinishGetRefined ==
  ASSUME MInv, OnlyOpensFail, SafeInv', finish_get, Counted
  PROVE  Refines
<1> DEFINE f == call.f
<1>1. /\ TypeOK /\ Known /\ call.pc = "finish_get" /\ f \in Frames /\ Mapped(f) /\ call.op = "get"
      /\ blocks[f].key = call.key
      /\ call.mode.type # "read" => blocks[f].ref_count = 0
      /\ blocks[f].ref_count \in Nat
  BY PlacesKnown DEF MInv, SafeInv, TypeInv, TypeOK, Blocks, CallOK, Known, PlacesOpen, finish_get
<1>2. /\ \A g \in Frames \ {f} : blocks'[g] = blocks[g]
      /\ blocks'[f].key = blocks[f].key
      /\ blocks'[f].dirty_bits = blocks[f].dirty_bits \cup
           IF call.mode.type # "read" THEN call.mode.mask ELSE {}
      /\ blocks'[f].ref_count = blocks[f].ref_count + 1
      /\ rtree' = rtree /\ call' = Return(TRUE)
  BY <1>1, FinishGetEffect
<1>3. getting = NoGet
  BY <1>1, NoneWaits
<1>4. PICK h \in Handles : IsOpen(h, call.key) /\ (call.mode.type # "read" => ~handles[h].flags.ro)
  BY <1>1 DEF MInv, GetHolds
<1>5. call'.pc # "destroyed" /\ KeepsTree
  BY <1>2 DEF Return, Idle, KeepsTree
<1>6. \A g \in Frames \ {f} : SameBlock(g)
  BY <1>2 DEF SameBlock
<1>7. Before' = Before /\ handles' = handles
  BY <1>5, CountsKept
<1> HIDE DEF f
<1>8. CASE blocks[f].ref_count = 0
  <2>1. /\ ~(blocks[f].ref_count > 0) /\ blocks'[f].ref_count > 0
        /\ blocks[f].dirty_bits # {} => blocks'[f].dirty_bits # {}
        /\ call.mode.type = "read" => (blocks'[f].dirty_bits # {} <=> blocks[f].dirty_bits # {})
    BY <1>2, <1>8
  <2> QED BY <1>1, <1>2, <1>3, <1>4, <1>5, <1>6, <1>7, <2>1, HitRefined
<1>9. CASE blocks[f].ref_count # 0
  <2>1. SameBlock(f)
    BY <1>1, <1>2, <1>9 DEF SameBlock
  <2> QED BY <1>5, <1>6, <2>1, UnseenRefined DEF Unseen
<1> QED BY <1>8, <1>9

\* A holder puts the block.
LEMMA PutBlockRefined ==
  ASSUME MInv, OnlyOpensFail, SafeInv', NEW f \in Frames, io_put_block(f), Counted
  PROVE  Refines
<1>1. /\ TypeOK /\ Known /\ call.pc = "idle" /\ blocks[f] \in Blocks /\ blocks[f].ref_count > 0
  BY PlacesKnown DEF MInv, SafeInv, TypeInv, TypeOK, io_put_block, MayStart, Held
<1>2. /\ \A g \in Frames \ {f} : blocks'[g] = blocks[g]
      /\ blocks'[f].key = blocks[f].key /\ blocks'[f].dirty_bits = blocks[f].dirty_bits
      /\ blocks'[f].ref_count = blocks[f].ref_count - 1
      /\ rtree' = rtree
  BY <1>1 DEF io_put_block, TypeOK, Blocks
<1>3. call'.pc # "destroyed"
  <2>1. \/ \E x, y : call' = [Start("put", "writeback") EXCEPT !.node = x, !.left = y]
        \/ call' = Return(TRUE)
    BY Zenon DEF io_put_block
  <2>2. CASE call' = Return(TRUE)
    BY <2>2 DEF Return, Idle
  <2>3. CASE \E x, y : call' = [Start("put", "writeback") EXCEPT !.node = x, !.left = y]
    BY <2>3 DEF Start, Idle
  <2> QED BY <2>1, <2>2, <2>3
<1>4. KeepsTree /\ \A g \in Frames \ {f} : SameBlock(g)
  BY <1>2 DEF KeepsTree, SameBlock
<1>5. Before' = Before /\ handles' = handles
  BY <1>3, <1>4, CountsKept
<1>6. CASE blocks[f].ref_count = 1
  <2>1. blocks[f].ref_count > 0 /\ ~(blocks'[f].ref_count > 0)
    BY <1>2, <1>6
  <2>2. Mapped(f)
    BY <1>1 DEF Known
  <2> QED BY <1>2, <1>4, <1>5, <2>1, <2>2, PutOrWritten
<1>7. CASE blocks[f].ref_count # 1
  <2>1. SameBlock(f)
    BY <1>1, <1>2, <1>7 DEF SameBlock, Blocks
  <2> QED BY <1>3, <1>4, <2>1, UnseenRefined DEF Unseen
<1> QED BY <1>6, <1>7

\* A completion: the last one of a writeback leaves the block clean.
LEMMA CompletionEffect ==
  ASSUME TypeOK, Known, Faults = {}, Completion
  PROVE  /\ \E x : call' = [call EXCEPT !.batch = x] \/ call' = At("abort")
         /\ rtree' = rtree
         /\ \E io \in inflight :
              /\ io.frame \in Frames
              /\ \A g \in Frames \ {io.frame} : blocks'[g] = blocks[g]
              /\ blocks'[io.frame].key = blocks[io.frame].key
              /\ blocks'[io.frame].ref_count = blocks[io.frame].ref_count
              /\ \/ /\ blocks'[io.frame].dirty_bits = blocks[io.frame].dirty_bits
                    /\ blocks'[io.frame].pending = blocks[io.frame].pending
                 \/ blocks'[io.frame].dirty_bits = {}
<1>1. PICK io \in inflight : complete_io(io, TRUE)
  BY DEF Completion
<1> DEFINE f == io.frame
           b == blocks[f]
<1>2. f \in Frames /\ b \in Blocks /\ ~b.error
  BY <1>1 DEF TypeOK, Ios, Known
<1>3. CASE b.io_count = 0
  <2>1. blocks' = blocks /\ rtree' = rtree /\ call' = At("abort")
    BY <1>1, <1>3 DEF complete_io
  <2> QED BY <1>2, <2>1
<1>4. CASE b.io_count > 1
  <2>1. /\ blocks' = [blocks EXCEPT ![f].io_count = @ - 1, ![f].error = b.error \/ ~TRUE]
        /\ rtree' = rtree /\ call' = [call EXCEPT !.batch = TRUE]
    BY <1>1, <1>4 DEF complete_io
  <2>2. /\ \A g \in Frames \ {f} : blocks'[g] = blocks[g]
        /\ blocks'[f].key = b.key /\ blocks'[f].ref_count = b.ref_count
        /\ blocks'[f].dirty_bits = b.dirty_bits /\ blocks'[f].pending = b.pending
    BY <1>2, <2>1 DEF TypeOK, Blocks
  <2> QED BY <1>2, <2>1, <2>2
<1>5. CASE b.io_count # 0 /\ ~(b.io_count > 1)
  <2>1. /\ blocks' = [blocks EXCEPT ![f].io_count = 0, ![f].error = b.error \/ ~TRUE,
                                    ![f].pending = FALSE,
                                    ![f].dirty_bits = DirtyAfter(b, b.error \/ ~TRUE)]
        /\ rtree' = rtree /\ call' = [call EXCEPT !.batch = TRUE]
    BY <1>1, <1>5 DEF complete_io
  <2>2. DirtyAfter(b, b.error \/ ~TRUE) = {}
    BY <1>2 DEF DirtyAfter
  <2>3. /\ \A g \in Frames \ {f} : blocks'[g] = blocks[g]
        /\ blocks'[f].key = b.key /\ blocks'[f].ref_count = b.ref_count
        /\ blocks'[f].dirty_bits = {}
    BY <1>2, <2>1, <2>2 DEF TypeOK, Blocks
  <2> QED BY <1>2, <2>1, <2>3
<1> QED BY <1>3, <1>4, <1>5

LEMMA CompletionRefined ==
  ASSUME MInv, OnlyOpensFail, SafeInv', Completion, Counted
  PROVE  Refines
<1>1. TypeOK /\ Known /\ SafeInv /\ call.pc # "destroyed"
  BY PlacesKnown DEF MInv, SafeInv, TypeInv, Completion, complete_io, InWait
<1>2. /\ \E x : call' = [call EXCEPT !.batch = x] \/ call' = At("abort")
      /\ rtree' = rtree
  BY <1>1, TreeDoesStay, CompletionEffect
<1>3. PICK io \in inflight :
        /\ io.frame \in Frames
        /\ \A g \in Frames \ {io.frame} : blocks'[g] = blocks[g]
        /\ blocks'[io.frame].key = blocks[io.frame].key
        /\ blocks'[io.frame].ref_count = blocks[io.frame].ref_count
        /\ \/ /\ blocks'[io.frame].dirty_bits = blocks[io.frame].dirty_bits
              /\ blocks'[io.frame].pending = blocks[io.frame].pending
           \/ blocks'[io.frame].dirty_bits = {}
  BY <1>1, TreeDoesStay, CompletionEffect
<1> DEFINE f == io.frame
<1>4. /\ f \in Frames /\ Mapped(f) /\ ~(blocks[f].ref_count > 0)
  BY <1>1, FlightFacts DEF Known
<1>5. call'.pc # "destroyed"
  BY <1>1, <1>2 DEF At, TypeOK, Calls
<1>6. KeepsTree /\ \A g \in Frames \ {f} : SameBlock(g)
  BY <1>2, <1>3 DEF KeepsTree, SameBlock
<1>7. Before' = Before /\ handles' = handles
  BY <1>5, <1>6, CountsKept
<1> HIDE DEF f
<1>8. CASE blocks[f].dirty_bits # {} /\ blocks'[f].dirty_bits = {}
  <2>1. blocks'[f].key = blocks[f].key /\ (blocks'[f].ref_count > 0 <=> blocks[f].ref_count > 0)
    BY <1>3 DEF f
  <2> QED BY <1>4, <1>6, <1>7, <1>8, <2>1, PutOrWritten
<1>9. CASE ~(blocks[f].dirty_bits # {} /\ blocks'[f].dirty_bits = {})
  <2>1. SameBlock(f)
    BY <1>3, <1>9 DEF SameBlock, f
  <2> QED BY <1>5, <1>6, <2>1, UnseenRefined DEF Unseen
<1> QED BY <1>8, <1>9

\* The end of io_invalidate_dev; io_get_dev goes on otherwise.
LEMMA RemovePrefixRefined ==
  ASSUME MInv, OnlyOpensFail, SafeInv', remove_prefix, getting = NoGet, Counted
  PROVE  Refines
<1>1. call.op = "invalidate_dev"
  <2>1. PICK on, pos, out : Safe(on, pos, out)
    BY DEF MInv, SafeInv
  <2> QED BY <2>1 DEF Safe, PlaceOK, remove_prefix
<1>2. PICK h \in Handles : IsOpen(h, call.key)
  BY <1>1 DEF MInv, CallsOpen
<1> QED BY <1>2, InvalidateRefined

LEMMA WaitedAllRefined ==
  ASSUME MInv, OnlyOpensFail, SafeInv', waited_all, Counted
  PROVE  Refines
<1>1. CASE call.op = "destroy"
  BY <1>1, NoneWaits, DestroyRefined
<1>2. CASE call.op # "destroy"
  BY <1>2, StepUnseen, UnseenRefined
<1> QED BY <1>1, <1>2

LEMMA BlocksRefined ==
  ASSUME MInv, OnlyOpensFail, SafeInv', ClientBlocks \/ BlockSteps, Counted
  PROVE  Refines
<1>1. CASE ClientBlocks
  <2>1. CASE \E f \in Frames : io_put_block(f)
    BY <2>1, PutBlockRefined
  <2>2. CASE ~\E f \in Frames : io_put_block(f)
    <3>1. \/ \E k \in Keys : \/ \E readonly, m : io_get_block_mask(k, readonly, m)
                             \/ io_prefetch_block(k) \/ io_invalidate_block(k) \/ io_invalidate_dev(k)
          \/ io_flush \/ io_invalidate_all \/ io_manager_destroy
      BY <1>1, <2>2, Zenon DEF ClientBlocks
    <3> QED BY <3>1, StartUnseen, UnseenRefined
  <2> QED BY <2>1, <2>2
<1>2. CASE BlockSteps
  <2>1. CASE remove_prefix
    <3>1. call'.pc = "idle"
      BY <2>1 DEF remove_prefix, Return, Idle
    <3> QED BY <1>2, <2>1, <3>1, RemovePrefixRefined DEF BlockSteps
  <2>2. CASE \/ alloc_block \/ evict \/ writeback \/ flush \/ writeback_v \/ writeback_v_done
             \/ invalidate_v \/ waited_io \/ waited_block
    BY <2>2, StepUnseen, UnseenRefined
  <2>3. CASE find_unused_clean_block
    BY <2>3, ScanRefined
  <2>4. CASE new_block
    BY <2>4, NewBlockRefined
  <2>5. CASE finish_get
    BY <2>5, FinishGetRefined
  <2>6. CASE invalidate_block \/ waited_written
    BY <2>6, InvalidateBlockRefined
  <2>7. CASE Completion
    BY <2>7, CompletionRefined
  <2>8. CASE waited_all
    BY <2>8, WaitedAllRefined
  <2> QED BY <1>2, <2>1, <2>2, <2>3, <2>4, <2>5, <2>6, <2>7, <2>8 DEF BlockSteps, Step
<1> QED BY <1>1, <1>2

-----------------------------------------------------------------------------
(* The invariant is kept                                                   *)

\* What the block cache does here it does on its own as well.
LEMMA StepSafe ==
  ASSUME MInv, OnlyOpensFail, Step
  PROVE  SafeInv'
BY NextSafe DEF MInv, OnlyOpensFail, Next

LEMMA RightsKnown ==
  ASSUME MInv, NEW h \in Handles, handles[h] # NoHandle
  PROVE  handles[h].flags.ro \in BOOLEAN /\ handles[h].flags \in Dev!Flags
<1>1. handles[h] \in Dev!Handed
  BY DEF MInv, Dev!FullInv, Dev!IInv, Dev!HandlesOK
<1> QED BY <1>1 DEF Dev!Handed, Dev!Flags

LEMMA ClientSafe ==
  ASSUME MInv, OnlyOpensFail, ClientBlocks
  PROVE  SafeInv'
<1>1. Client
  <2>1. ASSUME NEW h \in Handles, NEW k \in Keys, IsOpen(h, k), NEW m \in GetModes,
               io_get_block_mask(k, handles[h].flags.ro, m)
        PROVE  Client
    <3>1. handles[h].flags.ro \in BOOLEAN
      BY <2>1, RightsKnown DEF IsOpen
    <3> QED BY <2>1, <3>1 DEF Client
  <2> QED BY <2>1 DEF ClientBlocks, Client
<1> QED BY <1>1, NextSafe DEF MInv, OnlyOpensFail, Next

\* The counts make a table of a table.
LEMMA TablesOf ==
  ASSUME table = Devices(table), NEW d, NEW n
  PROVE  /\ Dev!_dec_blocks(table, d, n) = Devices(Dev!_dec_blocks(table, d, n))
         /\ Dev!_inc_blocks(table, d) = Devices(Dev!_inc_blocks(table, d))
         /\ Dev!_dec_holders(table, d) = Devices(Dev!_dec_holders(table, d))
<1>1. PICK m : Record(m) /\ Devices(m) = table
  <2> DEFINE m == WithFrames(table, {})
  <2>1. Record(m) /\ Devices(m) = Devices(table)
    BY DEF WithFrames, Record, Devices
  <2> QED BY <2>1
<1>2. \A r : Devices(Devices(r)) = Devices(r)
  BY DEF Devices
<1>3. Dev!_dec_blocks(table, d, n) = Devices(Dev!_dec_blocks(m, d, n))
  BY <1>1, DecBlocksOf
<1>4. Dev!_inc_blocks(table, d) = Devices(Dev!_inc_blocks(m, d))
  BY <1>1, IncBlocksOf
<1>5. Dev!_dec_holders(table, d) = Devices(Dev!_dec_holders(m, d))
  BY <1>1, DecHoldersOf
<1> QED BY <1>2, <1>3, <1>4, <1>5

LEMMA CountedTable ==
  ASSUME TableOK, Counted
  PROVE  TableOK'
<1>1. Recounted = Devices(Recounted)
  <2>1. Devices(Table!NothingOpen) = Devices(Devices(Table!NothingOpen))
    BY DEF Devices
  <2>2. \A d, n : /\ Table!_dec_blocks(table, d, n) = Devices(Table!_dec_blocks(table, d, n))
                  /\ Table!_inc_blocks(table, d) = Devices(Table!_inc_blocks(table, d))
    BY TablesOf, SameCounts DEF TableOK
  <2>3. table = Devices(table)
    BY DEF TableOK
  <2> QED BY Zenon, <2>1, <2>2, <2>3 DEF Recounted
<1>2. table' = Recounted /\ getting' = getting
  BY DEF Counted
<1>3. table' = Devices(table')
  BY <1>1, <1>2
<1>4. (table = Devices(table))'
  BY <1>3 DEF Devices
<1> QED BY <1>2, <1>4 DEF TableOK

\* An io_get_dev that waits goes on waiting.
LEMMA WaitingTable ==
  ASSUME MInv, OnlyOpensFail, SafeInv', getting # NoGet, BlockSteps, Counted
  PROVE  GetWaits'
<1>1. call.op = "invalidate_dev" /\ SafeInv /\ TypeOK
  BY DEF MInv, GetWaits, SafeInv, TypeInv
<1>2. call.pc \in {"writeback_v", "wait_all", "invalidate_v"}
  <2>1. PICK on, pos, out : Safe(on, pos, out)
    BY <1>1 DEF SafeInv
  <2> QED BY <1>1, <2>1, TreeDoesStay DEF Safe, TreeOK, Emptying
<1>3. GoesOn(call')
  BY <1>1, StepGoesOn DEF BlockSteps
<1>4. ~remove_prefix
  BY DEF BlockSteps, remove_prefix, Return, Idle
<1>5. \/ writeback_v \/ writeback_v_done \/ invalidate_v \/ Completion
      \/ waited_all /\ call.op # "destroy"
  BY <1>1, <1>2, <1>4 DEF BlockSteps, Step, alloc_block, evict, find_unused_clean_block, new_block,
     finish_get, writeback, flush, invalidate_block, waited_io, waited_block, waited_written, Waited
<1>6. KeepsTree /\ call'.pc # "destroyed"
  <2>1. CASE Completion
    <3>1. rtree' = rtree /\ \E x : call' = [call EXCEPT !.batch = x] \/ call' = At("abort")
      BY <1>1, <2>1, PlacesKnown, CompletionEffect DEF OnlyOpensFail
    <3>2. call'.pc # "destroyed"
      BY <1>1, <1>2, <3>1 DEF TypeOK, Calls, At
    <3> QED BY <3>1, <3>2 DEF KeepsTree
  <2>2. CASE ~Completion
    BY <1>5, <2>2, StepUnseen DEF Unseen
  <2> QED BY <2>1, <2>2
<1>7. table' = table /\ handles' = handles /\ getting' = getting
  BY <1>6, CountsKept
<1> QED BY <1>1, <1>3, <1>7 DEF MInv, GetWaits, FoundNoRoom, MustReopen, GoesOn

\* A client that has the device of a block keeps it.
LEMMA StaysIsOpen ==
  ASSUME MInv, Dev!IInv', Dev!OpenKept(Iom, Iom'), getting = NoGet, getting' = NoGet,
         NEW h \in Handles, handles'[h] = handles[h], NEW k \in Keys, IsOpen(h, k)
  PROVE  IsOpen(h, k)'
<1>1. /\ table = Before /\ table' = Before' /\ DevOf[k] \in Paths
      /\ Iom.dev_tree = Before.dev_tree /\ Dev!IInv /\ Dev!TableIn(Iom) /\ Dev!TableIn(Iom')
  <2>1. (Dev!IInv => Dev!TableIn(Iom))'
    BY DEF Dev!IInv, Dev!Sound
  <2> QED BY <2>1, IomSound, IomFields, PathTypes DEF Before
<1>2. Iom'.dev_tree = Before'.dev_tree
  BY DEF Iom, WithFrames
<1>3. handles[h] # NoHandle /\ handles[h].dev = Iom.dev_tree[DevOf[k]]
  BY <1>1 DEF IsOpen
<1>4. handles[h].dev \in Dev!OpenIn(Iom')
  BY <1>1, <1>3, DevOK, Dev!StaysHeld
<1>5. handles[h].dev # NoDev
  BY <1>4, DevOK DEF Dev!OpenIn
<1>6. Iom'.devs[handles[h].dev].path = Iom.devs[handles[h].dev].path
  BY <1>4 DEF Dev!OpenKept
<1>7. Iom'.dev_tree[DevOf[k]] = handles[h].dev
  BY <1>1, <1>3, <1>4, <1>5, <1>6, DevOK, Dev!PathStays
<1> QED BY <1>1, <1>2, <1>3, <1>7 DEF IsOpen

\* A writeback that is begun is pending, when no io fails.
LEMMA WritePending ==
  ASSUME TypeOK, Faults = {}, NEW l, NEW f \in Frames, NEW next, issue_write(l, f, next)
  PROVE  call' = At("abort") \/ blocks'[f].pending
<1> DEFINE b == [blocks[f] EXCEPT !.error = FALSE]
<1>1. issue(l, f, b, "write", next)
  BY Zenon DEF issue_write
<1>2. blocks \in [Frames -> Blocks] /\ b \in Blocks
  BY ErrorCleared DEF TypeOK
<1> HIDE DEF b
<1>3. CASE b.pending
  BY <1>1, <1>2, <1>3 DEF issue
<1>4. CASE ~b.pending /\ b.io_count # 0
  BY <1>1, <1>4 DEF issue
<1>5. CASE ~b.pending /\ b.io_count = 0
  <2> DEFINE runs == Runs(b.dirty_bits)
             early(ok) == {r \in runs \ ok : \A q \in ok : \A x \in r, y \in q : x < y}
             c(ok) == [b EXCEPT !.io_dir = "write", !.pending = (early(ok) = {}),
                                !.io_count = Cardinality(ok), !.error = @ \/ ok # runs]
  <2>1. PICK ok \in Taken(runs) : blocks' = [blocks EXCEPT ![f] = c(ok)]
    BY <1>1, <1>5 DEF issue
  <2>2. ok = runs
    BY <2>1 DEF Taken
  <2>3. early(ok) = {}
    BY <2>2
  <2>4. c(ok).pending
    <3> HIDE DEF early, runs
    <3> QED BY <1>2, <2>3 DEF Blocks
  <2> HIDE DEF c
  <2> QED BY <1>2, <2>1, <2>4
<1> QED BY <1>3, <1>4, <1>5

\* What the clients begin.
LEMMA StartOpen ==
  ASSUME MInv, OnlyOpensFail, SafeInv', ClientBlocks, Counted
  PROVE  GetHolds' /\ CallsOpen' /\ PlacesOpen'
<1>1. call.pc = "idle" /\ getting = NoGet /\ getting' = NoGet /\ handles' = handles
  <2>1. call.pc = "idle"
    BY DEF ClientBlocks, io_get_block_mask, io_prefetch_block, io_invalidate_block,
       io_invalidate_dev, io_put_block, io_flush, io_invalidate_all, io_manager_destroy, MayStart
  <2> QED BY <2>1, IdleFacts DEF Counted
<1>2. CASE \E h \in Handles, k \in Keys :
             /\ IsOpen(h, k)
             /\ \/ \E m \in GetModes : io_get_block_mask(k, handles[h].flags.ro, m)
                \/ io_prefetch_block(k) \/ io_invalidate_block(k) \/ io_invalidate_dev(k)
  <2>1. PICK h \in Handles, k \in Keys :
             /\ IsOpen(h, k)
             /\ \/ \E m \in GetModes : io_get_block_mask(k, handles[h].flags.ro, m)
                \/ io_prefetch_block(k) \/ io_invalidate_block(k) \/ io_invalidate_dev(k)
    BY <1>2
  <2>2. Unseen
    BY <2>1, StartUnseen
  <2>3. table' = table
    BY <2>2, CountsKept DEF Unseen
  <2>4. IsOpen(h, k)'
    BY <1>1, <2>1, <2>3 DEF IsOpen
  <2>5. ASSUME NEW m \in GetModes, io_get_block_mask(k, handles[h].flags.ro, m)
        PROVE  GetHolds' /\ CallsOpen' /\ PlacesOpen'
    <3>1. CASE GetRefused(k, handles[h].flags.ro, m)
      <4>1. call'.op = "none" /\ call'.pc = "idle"
        BY <2>5, <3>1 DEF io_get_block_mask, Return, Idle
      <4> QED BY <4>1 DEF GetHolds, CallsOpen, PlacesOpen
    <3>2. CASE ~GetRefused(k, handles[h].flags.ro, m)
      <4>1. /\ call'.op = "get" /\ call'.key = k /\ call'.mode = m
            /\ call'.pc \in {"alloc", "wait_block", "finish_get"}
            /\ call'.pc # "alloc" => Cached(k) /\ call'.f = rtree[k]
            /\ blocks' = blocks
        BY <2>5, <3>2 DEF io_get_block_mask, Start, Idle
      <4>2. m.type # "read" => ~handles'[h].flags.ro
        BY <1>1, <3>2 DEF GetRefused
      <4>3. m.type # "read" /\ Cached(k) => blocks[rtree[k]].ref_count = 0
        BY <3>2, TreeIs, TreeDoesStay DEF GetRefused, Held, TreeFacts, MInv, SafeInv, TypeInv, TypeOK, Blocks
      <4>4. Cached(k) => blocks[rtree[k]].key = k
        BY TreeIs, TreeDoesStay DEF TreeFacts, MInv
      <4>5. GetHolds'
        BY <2>4, <4>1, <4>2 DEF GetHolds
      <4> QED BY <4>1, <4>3, <4>4, <4>5 DEF CallsOpen, PlacesOpen
    <3> QED BY <3>1, <3>2
  <2>6. CASE io_prefetch_block(k)
    <3>1. /\ call'.op = "prefetch" /\ call'.key = k /\ call'.mode = ReadMode /\ call'.pc = "alloc"
      BY <2>6 DEF io_prefetch_block, Start, Idle
    <3>2. GetHolds'
      BY <2>4, <3>1 DEF GetHolds, ReadMode
    <3> QED BY <3>1, <3>2 DEF CallsOpen, PlacesOpen
  <2>7. CASE io_invalidate_block(k)
    <3>1. call'.op = "invalidate_block" /\ call'.pc \in {"wait_block", "invalidate"}
      BY <2>7 DEF io_invalidate_block, Start, Idle
    <3> QED BY <3>1 DEF GetHolds, CallsOpen, PlacesOpen
  <2>8. CASE io_invalidate_dev(k)
    <3>1. call'.op = "invalidate_dev" /\ call'.pc = "writeback_v" /\ call'.key = k
      BY <2>8 DEF io_invalidate_dev, Start, Idle
    <3> QED BY <2>4, <3>1 DEF GetHolds, CallsOpen, PlacesOpen
  <2> QED BY <2>1, <2>5, <2>6, <2>7, <2>8
<1>3. CASE \E f \in Frames : io_put_block(f)
  <2>1. \/ call'.op = "none" /\ call'.pc = "idle"
        \/ call'.op = "put" /\ call'.pc = "writeback"
    BY <1>3 DEF io_put_block, Start, Return, Idle
  <2> QED BY <2>1 DEF GetHolds, CallsOpen, PlacesOpen
<1>4. CASE io_flush \/ io_invalidate_all
  <2>1. call'.op \in {"flush", "invalidate_all"} /\ call'.pc \in {"flush", "writeback_v"}
    BY <1>4 DEF io_flush, io_invalidate_all, Start, Idle
  <2> QED BY <2>1 DEF GetHolds, CallsOpen, PlacesOpen
<1>5. CASE (\A h \in Handles : handles[h] = NoHandle) /\ io_manager_destroy
  <2>1. call'.op = "destroy" /\ call'.pc = "flush"
    BY <1>5 DEF io_manager_destroy, Start, Idle
  <2> QED BY <1>1, <1>5, <2>1 DEF GetHolds, CallsOpen, PlacesOpen
<1> QED BY <1>2, <1>3, <1>4, <1>5 DEF ClientBlocks

\* The steps that lead to no place where a block is waited for, or was.
Waits == {"finish_get", "wait_block", "wait_written"}

LEMMA NowhereNear ==
  ASSUME TypeOK,
         \/ alloc_block \/ evict \/ find_unused_clean_block \/ writeback \/ flush
         \/ writeback_v \/ writeback_v_done \/ invalidate_v \/ remove_prefix
         \/ finish_get \/ waited_io \/ waited_written \/ waited_all
  PROVE  call'.pc \notin Waits
<1>1. \A pc : At(pc).pc = pc
  BY NotDestroyed
<1>2. \A r : Return(r).pc = "idle"
  BY NotDestroyed
<1>3. CASE alloc_block \/ evict \/ find_unused_clean_block
  <2>1. \/ \E pc \in {"evict", "undefined", "wait_io"} : call' = At(pc)
        \/ \E x : call' = [At("new_block") EXCEPT !.f = x] \/ call' = [At("scan") EXCEPT !.node = x]
        \/ \E x, y : call' = [At("writeback") EXCEPT !.node = x, !.left = y]
        \/ call.pc = "scan" /\ \E x : call' = [call EXCEPT !.node = x]
        \/ \E r : call' = Return(r)
    BY <1>3, Zenon DEF alloc_block, evict, find_unused_clean_block
  <2>2. CASE \E x : call' = [At("new_block") EXCEPT !.f = x] \/ call' = [At("scan") EXCEPT !.node = x]
    BY <2>2 DEF At, TypeOK, Calls, Waits
  <2>3. CASE \E x, y : call' = [At("writeback") EXCEPT !.node = x, !.left = y]
    BY <2>3 DEF At, TypeOK, Calls, Waits
  <2>4. CASE call.pc = "scan" /\ \E x : call' = [call EXCEPT !.node = x]
    BY <2>4 DEF TypeOK, Calls, Waits
  <2> QED BY <1>1, <1>2, <2>1, <2>2, <2>3, <2>4 DEF Waits
<1>4. CASE writeback \/ flush
  <2>1. \/ \E pc \in {"undefined", "wait_io", "wait_all", "abort"} : call' = At(pc)
        \/ call.pc = "writeback" /\ \E x : call' = [call EXCEPT !.node = x]
        \/ call.pc = "writeback" /\
             \E x : call' = [[call EXCEPT !.node = x] EXCEPT !.left = @ - 1]
        \/ call.pc = "flush" /\ call' = call
        \/ \E r : call' = Return(r)
    <3>1. CASE writeback
      <4>1. ASSUME NEW f, NEW next, issue_write(lists, f, next)
            PROVE  call' = next \/ call' = At("abort")
        BY <4>1 DEF issue_write, issue
      <4> QED BY <3>1, <4>1 DEF writeback
    <3>2. CASE flush
      <4>1. ASSUME NEW l, NEW f, NEW next, issue_write(l, f, next)
            PROVE  call' = next \/ call' = At("abort")
        BY <4>1 DEF issue_write, issue
      <4> QED BY <3>2, <4>1 DEF flush
    <3> QED BY <1>4, <3>1, <3>2
  <2>2. CASE call.pc = "writeback" /\ \E x : call' = [call EXCEPT !.node = x]
    BY <2>2 DEF TypeOK, Calls, Waits
  <2>3. CASE call.pc = "writeback" /\
             \E x : call' = [[call EXCEPT !.node = x] EXCEPT !.left = @ - 1]
    BY <2>3 DEF TypeOK, Calls, Waits
  <2>4. CASE call.pc = "flush" /\ call' = call
    BY <2>4 DEF Waits
  <2> QED BY <1>1, <1>2, <2>1, <2>2, <2>3, <2>4 DEF Waits
<1>5. CASE writeback_v
  <2>1. ASSUME NEW f, NEW next, issue_write(lists, f, next)
        PROVE  call' = next \/ call' = At("abort")
    BY <2>1 DEF issue_write, issue
  <2>2. call.pc = "writeback_v" /\ (call' = At("abort") \/ \E x : call' = [call EXCEPT !.todo = x])
    BY <1>5, <2>1 DEF writeback_v
  <2> QED BY <1>1, <2>2 DEF TypeOK, Calls, Waits
<1>6. CASE writeback_v_done \/ remove_prefix \/ finish_get \/ waited_io \/ waited_written
  <2>1. \/ \E pc \in {"wait_all", "evict"} : call' = At(pc)
        \/ \E r : call' = Return(r)
    BY <1>6, Zenon DEF writeback_v_done, remove_prefix, finish_get, waited_io, waited_written
  <2> QED BY <1>1, <1>2, <2>1 DEF Waits
<1>7. CASE invalidate_v
  <2>1. call.pc = "invalidate_v" /\ \E x, y : call' = [call EXCEPT !.todo = x, !.ret = y]
    BY <1>7, Zenon DEF invalidate_v
  <2> QED BY <2>1 DEF TypeOK, Calls, Waits
<1>8. CASE waited_all
  <2>1. \/ call' = At("destroyed") \/ \E x : call' = [At("invalidate_v") EXCEPT !.todo = x]
        \/ \E r : call' = Return(r)
    BY <1>8, Zenon DEF waited_all
  <2>2. CASE \E x : call' = [At("invalidate_v") EXCEPT !.todo = x]
    BY <2>2 DEF At, TypeOK, Calls, Waits
  <2> QED BY <1>1, <1>2, <2>1, <2>2 DEF Waits
<1> QED BY <1>3, <1>4, <1>5, <1>6, <1>7, <1>8

LEMMA PlaceNext ==
  ASSUME MInv, OnlyOpensFail, SafeInv', Step
  PROVE  PlacesOpen'
<1>1. TypeOK /\ TypeOK' /\ CallOK /\ Known /\ Faults = {}
  BY PlacesKnown DEF MInv, SafeInv, TypeInv, OnlyOpensFail
<1>2. call'.pc \notin Waits => PlacesOpen'
  BY DEF Waits, PlacesOpen
<1>3. CASE waited_block
  <2>1. /\ call' = At(IF call.op = "get" THEN "finish_get" ELSE "invalidate")
        /\ UNCHANGED blocks /\ call.pc = "wait_block"
    BY <1>3 DEF waited_block, Waited
  <2>2. /\ call'.pc = IF call.op = "get" THEN "finish_get" ELSE "invalidate"
        /\ call'.op = call.op /\ call'.key = call.key /\ call'.f = call.f /\ call'.mode = call.mode
    BY <1>1, <2>1, AtKeeps
  <2> QED BY <2>1, <2>2 DEF MInv, PlacesOpen
<1>4. CASE new_block
  <2>1. call.f \in Frames /\ call.pc = "new_block" /\ call.op \in {"get", "prefetch"}
    BY <1>1, <1>4 DEF CallOK, Known, new_block
  <2>2. /\ blocks'[call.f].key = call.key /\ blocks'[call.f].ref_count = 0
        /\ call' \in {Return(TRUE), At("wait_block"), At("finish_get")}
    BY <1>1, <1>4, <2>1, NewBlockEffect
  <2>3. call' = At("finish_get") => call.op = "get"
    <3>1. SUFFICES ASSUME call' = At("finish_get"), call.op = "prefetch" PROVE FALSE
      BY <2>1
    <3>2. MustRead(call.mode)
      BY <3>1 DEF MInv, CallsOpen, ReadMode, MustRead
    <3>3. call' \in {Return(TRUE), At("abort")}
      BY <1>4, <3>1, <3>2, Zenon DEF new_block, issue
    <3>4. call'.pc \in {"idle", "abort"}
      BY <1>1, <3>3, NotDestroyed
    <3>5. call'.pc = "finish_get"
      BY <1>1, <3>1, NotDestroyed
    <3> QED BY <3>4, <3>5
  <2>4. CASE call' = Return(TRUE)
    <3>1. call'.pc = "idle"
      BY <2>4 DEF Return, Idle
    <3> QED BY <1>2, <3>1 DEF Waits
  <2>5. CASE call' \in {At("wait_block"), At("finish_get")}
    <3>1. /\ call'.op = call.op /\ call'.key = call.key /\ call'.f = call.f
          /\ call'.pc \in {"wait_block", "finish_get"}
          /\ call'.pc = "finish_get" => call' = At("finish_get")
      BY <1>1, <2>5, AtKeeps
    <3> QED BY <2>2, <2>3, <3>1 DEF PlacesOpen
  <2> QED BY <2>2, <2>4, <2>5
<1>5. CASE invalidate_block
  <2>1. call.f \in Frames
    BY <1>1, <1>5 DEF CallOK, invalidate_block
  <2>2. CASE call' = At("wait_written") /\ issue_write(lists, call.f, At("wait_written"))
    <3>1. call' # At("abort")
      <4>1. At("wait_written").pc = "wait_written" /\ At("abort").pc = "abort"
        BY <1>1, AtKeeps
      <4> QED BY <2>2, <4>1
    <3>2. blocks'[call.f].pending
      BY <1>1, <2>1, <2>2, <3>1, WritePending
    <3>3. call'.pc = "wait_written" /\ call'.f = call.f /\ call'.op = call.op
      BY <1>1, <2>2, AtKeeps
    <3>4. call'.op # "get" \/ call'.pc \notin {"wait_block", "finish_get"}
      BY <3>3
    <3> QED BY <3>2, <3>3, <3>4 DEF PlacesOpen
  <2>3. CASE \E r : call' = Return(r)
    BY <1>2, <2>3, NotDestroyed, <1>1 DEF Waits
  <2>4. CASE call' = At("abort")
    BY <1>1, <1>2, <2>4, NotDestroyed DEF Waits
  <2>5. issue_write(lists, call.f, At("wait_written")) => call' \in {At("wait_written"), At("abort")}
    BY DEF issue_write, issue
  <2>6. (\E r : call' = Return(r)) \/ issue_write(lists, call.f, At("wait_written"))
    BY <1>5, Zenon DEF invalidate_block
  <2> QED BY <2>2, <2>3, <2>4, <2>5, <2>6
<1>6. CASE Completion
  <2>1. /\ \E x : call' = [call EXCEPT !.batch = x] \/ call' = At("abort")
        /\ \E io \in inflight :
              /\ io.frame \in Frames
              /\ \A g \in Frames \ {io.frame} : blocks'[g] = blocks[g]
              /\ blocks'[io.frame].key = blocks[io.frame].key
              /\ blocks'[io.frame].ref_count = blocks[io.frame].ref_count
              /\ \/ /\ blocks'[io.frame].dirty_bits = blocks[io.frame].dirty_bits
                    /\ blocks'[io.frame].pending = blocks[io.frame].pending
                 \/ blocks'[io.frame].dirty_bits = {}
    BY <1>1, <1>6, CompletionEffect
  <2>2. CASE call' = At("abort")
    BY <1>1, <1>2, <2>2, NotDestroyed DEF Waits
  <2>3. CASE \E x : call' = [call EXCEPT !.batch = x]
    <3>1. /\ call'.pc = call.pc /\ call'.op = call.op /\ call'.key = call.key
          /\ call'.f = call.f /\ call'.mode = call.mode
      BY <1>1, <2>3 DEF TypeOK, Calls
    <3>2. CASE call.pc \in Waits
      <4>1. call.f \in Frames
        BY <1>1, <3>2 DEF CallOK, Waits
      <4>2. /\ blocks'[call.f].key = blocks[call.f].key
            /\ blocks'[call.f].ref_count = blocks[call.f].ref_count
            /\ \/ /\ blocks'[call.f].dirty_bits = blocks[call.f].dirty_bits
                  /\ blocks'[call.f].pending = blocks[call.f].pending
               \/ blocks'[call.f].dirty_bits = {}
        BY <2>1, <4>1
      <4> QED BY <3>1, <4>2 DEF MInv, PlacesOpen
    <3> QED BY <1>2, <3>1, <3>2
  <2> QED BY <2>1, <2>2, <2>3
<1> QED BY <1>1, <1>2, <1>3, <1>4, <1>5, <1>6, NowhereNear DEF Step

\* The calls in progress go on.
LEMMA StepOpen ==
  ASSUME MInv, OnlyOpensFail, BlockSteps, Counted, Dev!IInv', Dev!OpenKept(Iom, Iom')
  PROVE  GetHolds' /\ CallsOpen'
<1>1. TypeOK /\ Step /\ getting' = getting /\ handles' = handles
  BY DEF MInv, SafeInv, TypeInv, BlockSteps, Counted
<1>2. CASE call'.op = "none" /\ call'.pc = "idle"
  BY <1>2 DEF GetHolds, CallsOpen
<1>3. CASE GoesOn(call') /\ call'.pc # "idle"
  <2>1. call'.op = call.op /\ call'.key = call.key /\ call'.mode = call.mode
    BY <1>3 DEF GoesOn
  <2>2. ASSUME NEW h \in Handles, call.key \in Keys, getting = NoGet, IsOpen(h, call.key)
        PROVE  IsOpen(h, call.key)'
    <3>1. PICK k \in Keys : k = call.key
      BY <2>2
    <3>2. IsOpen(h, k)'
      BY <1>1, <2>2, <3>1, StaysIsOpen
    <3> QED BY <2>1, <3>1, <3>2 DEF IsOpen
  <2>3. GetHolds'
    <3>1. SUFFICES ASSUME call.op \in {"get", "prefetch"} PROVE GetHolds'
      BY <2>1 DEF GetHolds
    <3>2. getting = NoGet
      BY <3>1, NoneWaits
    <3>3. /\ call.key \in Keys
          /\ \E h \in Handles : IsOpen(h, call.key) /\ (call.mode.type # "read" => ~handles[h].flags.ro)
      BY <3>1 DEF MInv, GetHolds
    <3> QED BY <1>1, <2>1, <2>2, <3>2, <3>3 DEF GetHolds
  <2>4. CallsOpen'
    <3>1. call.op = "invalidate_dev" => call.key \in Keys
      BY DeviceOfCall, TreeDoesStay DEF MInv
    <3>2. call.op = "invalidate_dev" /\ getting = NoGet => \E h \in Handles : IsOpen(h, call.key)'
      BY <2>2, <3>1 DEF MInv, CallsOpen
    <3> QED BY <1>1, <1>3, <2>1, <3>2 DEF MInv, CallsOpen
  <2> QED BY <2>3, <2>4
<1> QED BY <1>1, <1>2, <1>3, StepGoesOn

\* No call runs.
LEMMA IdleOpen ==
  ASSUME MInv, OnlyOpensFail, call.pc = "idle", UNCHANGED vars
  PROVE  SafeInv' /\ GetHolds' /\ CallsOpen' /\ PlacesOpen'
<1>1. SafeInv'
  BY NextSafe DEF MInv, OnlyOpensFail
<1>2. call' = call /\ call.op = "none"
  BY DEF vars, MInv, CallsOpen
<1> QED BY <1>1, <1>2 DEF GetHolds, CallsOpen, PlacesOpen

\* What the table does keeps its own invariant.
LEMMA DevKept ==
  ASSUME MInv, OnlyOpensFail, [Dev!Next]_Dev!vars
  PROVE  Dev!FullInv' /\ Dev!IInv'
<1>1. Dev!FullInv'
  BY DevOK, Dev!FullInvariance DEF MInv, OnlyOpensFail
<1>2. Dev!FullInv' => Dev!IInv'
  BY DEF Dev!FullInv
<1> QED BY <1>1, <1>2

\* The device table does a step of its own, or none.
TableStep == MInv' /\ [Dev!Next]_Dev!vars

LEMMA BlocksStep ==
  ASSUME MInv, OnlyOpensFail, ClientBlocks \/ BlockSteps, Counted
  PROVE  TableStep
<1>1. SafeInv'
  BY StepSafe, ClientSafe DEF BlockSteps
<1>2. Refines
  BY <1>1, BlocksRefined
<1>3. Dev!FullInv' /\ Dev!IInv'
  BY <1>2, DevKept DEF Refines
<1>4. TableOK'
  BY CountedTable DEF MInv
<1>5. getting' = getting
  BY DEF Counted
<1>6. CASE ClientBlocks
  <2>1. GetHolds' /\ CallsOpen' /\ PlacesOpen'
    BY <1>1, <1>6, StartOpen
  <2>2. getting = NoGet
    <3>1. call.pc = "idle"
      BY <1>6 DEF ClientBlocks, io_get_block_mask, io_prefetch_block, io_invalidate_block,
         io_invalidate_dev, io_put_block, io_flush, io_invalidate_all, io_manager_destroy, MayStart
    <3> QED BY <3>1, IdleFacts
  <2>3. GetWaits'
    BY <1>5, <2>2 DEF GetWaits
  <2> QED BY <1>1, <1>2, <1>3, <1>4, <2>1, <2>3 DEF TableStep, MInv, Refines
<1>7. CASE BlockSteps
  <2>1. GetHolds' /\ CallsOpen'
    BY <1>2, <1>3, <1>7, StepOpen DEF Refines
  <2>2. PlacesOpen'
    BY <1>1, <1>7, PlaceNext DEF BlockSteps
  <2>3. GetWaits'
    <3>1. CASE getting = NoGet
      BY <1>5, <3>1 DEF GetWaits
    <3>2. CASE getting # NoGet
      BY <1>1, <1>7, <3>2, WaitingTable
    <3> QED BY <3>1, <3>2
  <2> QED BY <1>1, <1>2, <1>3, <1>4, <2>1, <2>2, <2>3 DEF TableStep, MInv, Refines
<1> QED BY <1>6, <1>7

LEMMA GetStep ==
  ASSUME MInv, OnlyOpensFail, NEW h \in Handles, NEW path \in Paths, NEW flags \in GetFlags,
         io_get_dev(h, path, flags)
  PROVE  TableStep
<1>1. /\ call.pc = "idle" /\ UNCHANGED <<vars, getting>> /\ flags \in Dev!Flags
      /\ \E outcome : table' = Devices(outcome[1])
  BY PathAssumption, SameSets DEF io_get_dev, MayGet, Got
<1>2. SafeInv' /\ GetHolds' /\ CallsOpen' /\ PlacesOpen'
  BY <1>1, IdleOpen
<1>3. getting = NoGet /\ getting' = NoGet
  BY <1>1, IdleFacts
<1>4. Dev!io_get_dev(h, path, flags) /\ CachedOpen'
  BY <1>2, GetDevRefined
<1>5. [Dev!Next]_Dev!vars
  BY <1>1, <1>4, DevSteps
<1>6. Dev!FullInv'
  BY <1>5, DevKept
<1>7. GetWaits' /\ TableOK'
  BY <1>1, <1>3 DEF GetWaits, TableOK, Devices
<1> QED BY <1>2, <1>4, <1>5, <1>6, <1>7 DEF TableStep, MInv

LEMMA WaitsStep ==
  ASSUME MInv, OnlyOpensFail, NEW h \in Handles, NEW path \in Paths, NEW flags \in GetFlags,
         io_get_dev_waits(h, path, flags)
  PROVE  TableStep
<1>1. /\ Refines
      /\ SafeInv' /\ TableOK' /\ GetWaits' /\ GetHolds' /\ CallsOpen' /\ PlacesOpen'
  BY WaitsRefined
<1>2. Dev!FullInv'
  BY <1>1, DevKept DEF Refines
<1> QED BY <1>1, <1>2 DEF TableStep, MInv, Refines

LEMMA OpensStep ==
  ASSUME MInv, OnlyOpensFail, io_get_dev_opens
  PROVE  TableStep
<1>1. /\ remove_prefix /\ getting' = NoGet
      /\ \E outcome : table' = Devices(outcome[1])
  BY DEF io_get_dev_opens, Got
<1>2. SafeInv' /\ PlacesOpen'
  BY <1>1, StepSafe, PlaceNext DEF Step
<1>3. GetHolds' /\ CallsOpen'
  <2>1. call'.op = "none"
    BY <1>1 DEF remove_prefix, Return, Idle
  <2> QED BY <2>1 DEF GetHolds, CallsOpen
<1>4. /\ getting.h \in Handles /\ getting.path \in Paths /\ getting.flags \in Dev!Flags
      /\ Dev!io_get_dev(getting.h, getting.path, getting.flags) /\ CachedOpen'
  BY <1>2, OpensRefined
<1>5. [Dev!Next]_Dev!vars
  BY <1>4, DevSteps
<1>6. Dev!FullInv'
  BY <1>5, DevKept
<1>7. GetWaits' /\ TableOK'
  BY <1>1 DEF GetWaits, TableOK, Devices
<1> QED BY <1>2, <1>3, <1>4, <1>5, <1>6, <1>7 DEF TableStep, MInv

LEMMA PutStep ==
  ASSUME MInv, OnlyOpensFail, NEW h \in Handles, io_put_dev(h)
  PROVE  TableStep
<1>1. /\ call.pc = "idle" /\ UNCHANGED <<vars, getting>>
      /\ table' = Table!_dec_holders(table, handles[h].dev)
  BY DEF io_put_dev
<1>2. SafeInv' /\ GetHolds' /\ CallsOpen' /\ PlacesOpen'
  BY <1>1, IdleOpen
<1>3. getting = NoGet /\ getting' = NoGet
  BY <1>1, IdleFacts
<1>4. Refines
  BY <1>2, PutDevRefined
<1>5. Dev!FullInv'
  BY <1>4, DevKept DEF Refines
<1>6. TableOK'
  <2>1. table' = Devices(table')
    BY <1>1, TablesOf, SameCounts DEF MInv, TableOK
  <2>2. (table = Devices(table))'
    BY <2>1 DEF Devices
  <2> QED BY <1>3, <2>2 DEF TableOK
<1>7. GetWaits'
  BY <1>3 DEF GetWaits
<1> QED BY <1>2, <1>4, <1>5, <1>6, <1>7 DEF TableStep, MInv, Refines

LEMMA StutterStep ==
  ASSUME MInv, OnlyOpensFail, UNCHANGED mvars
  PROVE  TableStep
<1>1. UNCHANGED <<vars, table, handles, getting>>
  BY DEF mvars
<1>2. SafeInv'
  BY <1>1, NextSafe DEF MInv, OnlyOpensFail
<1>3. UNCHANGED <<call, blocks, rtree>>
  BY <1>1 DEF vars
<1>4. KeepsTree /\ Before' = Before /\ \A f \in Frames : SameBlock(f)
  BY <1>1, <1>3 DEF KeepsTree, Before, SameBlock
<1>5. UNCHANGED Dev!vars /\ CachedOpen'
  BY <1>1, <1>2, <1>4, NothingHappens
<1>6. Dev!FullInv'
  BY <1>5, DevKept
<1>7. TableOK' /\ GetWaits'
  BY <1>1, <1>3 DEF MInv, TableOK, Devices, GetWaits, FoundNoRoom, MustReopen
<1>8. GetHolds' /\ CallsOpen' /\ PlacesOpen'
  BY <1>1, <1>3 DEF MInv, GetHolds, CallsOpen, PlacesOpen, IsOpen
<1> QED BY <1>2, <1>5, <1>6, <1>7, <1>8 DEF TableStep, MInv

LEMMA EveryStep ==
  ASSUME MInv, OnlyOpensFail, [MNext]_mvars
  PROVE  TableStep
BY BlocksStep, GetStep, WaitsStep, OpensStep, PutStep, StutterStep DEF MNext

-----------------------------------------------------------------------------
(* The theorems                                                            *)

LEMMA StartsSound == MInit => MInv /\ Table!Init
<1> SUFFICES ASSUME MInit PROVE MInv /\ Table!Init
  OBVIOUS
<1>1. /\ Init /\ table = Devices(Table!NothingOpen) /\ getting = NoGet
      /\ handles = [h \in Handles |-> NoHandle] /\ Before = table
  BY DEF MInit, Before
<1>2. SafeInv
  BY <1>1, InitSafe
<1>3. /\ \A f \in Frames : blocks[f].key = NoKey
      /\ \A k \in Keys : ~Cached(k)
      /\ call.op = "none" /\ call.pc = "idle"
  BY <1>1 DEF Init, NewBlockOf, Idle, Cached
<1>4. table = [devs |-> [d \in Idevs |-> Closed], dev_tree |-> [p \in Paths |-> NoDev],
               dev_lru |-> << >>, nr_open |-> 0, nr_fds |-> 0]
  BY <1>1 DEF Table!NothingOpen, Devices
<1>5. Iom = Table!NothingOpen
  <2>1. \A f \in Frames : FrameOf(f) = Free
    BY <1>3 DEF FrameOf
  <2>2. Iom.frames = [f \in Frames |-> Free]
    BY <2>1, IomFields
  <2> QED BY <1>1, <1>4, <2>1 DEF Iom, WithFrames, Table!NothingOpen
<1>6. GotInOrder = {}
  <2>1. DOMAIN Before.dev_lru = {}
    BY <1>1, <1>4
  <2> QED BY <2>1 DEF GotInOrder
<1>7. Table!Init
  BY <1>1, <1>5, <1>6 DEF Table!Init
<1>8. Dev!FullInv
  BY <1>7, SameSpec, DevOK, Dev!FullInit
<1>9. TableOK
  BY <1>1 DEF TableOK, Devices
<1>10. GetWaits /\ GetHolds /\ CallsOpen /\ PlacesOpen /\ CachedOpen
  BY <1>1, <1>3 DEF GetWaits, GetHolds, CallsOpen, PlacesOpen, CachedOpen
<1> QED BY <1>2, <1>7, <1>8, <1>9, <1>10 DEF MInv

\* What an io_get_dev has done before it waits leaves every path where it was.
LEMMA SameTree ==
  ASSUME MInv
  PROVE  table.dev_tree = Before.dev_tree
<1>1. CASE getting = NoGet
  BY <1>1 DEF Before
<1>2. CASE getting # NoGet
  <2>1. Before = getting.before /\ (FoundNoRoom(getting) \/ MustReopen(getting))
    BY <1>2 DEF Before, MInv, GetWaits
  <2>2. CASE FoundNoRoom(getting)
    BY <2>1, <2>2 DEF FoundNoRoom
  <2>3. CASE MustReopen(getting)
    <3>1. getting.before \in Tables /\ table = Dev!HeldIn(getting.before, getting.dev)
      BY <1>2, <2>3 DEF MInv, TableOK, Gets, MustReopen
    <3> QED BY <2>1, <3>1 DEF Dev!HeldIn, Tables
  <2> QED BY <2>1, <2>2, <2>3
<1> QED BY <1>1, <1>2

\* Every step of the block cache and the device table together, with the loops of
\* io_invalidate_dev, eviction and io_get_dev broken up as they are in the code, is
\* one call of the device table on its own, or is not seen by it: a waiting
\* io_get_dev has its whole effect when it opens its device, whatever ios
\* completed in the meantime; as long as only opens fail and no client is in the
\* way of flushes and invalidations.
THEOREM DeviceTableImplemented ==
  ASSUME OnlyOpensFail
  PROVE  MSpec => ImplementsDevTable
<1>1. MInit => MInv /\ Table!Init
  BY StartsSound
<1>2. MInv /\ [MNext]_mvars => MInv' /\ [Table!Next]_Table!vars
  <2>1. [Dev!Next]_Dev!vars => [Table!Next]_Table!vars
    BY SameSpec, Zenon DEF Table!vars, Dev!vars
  <2> QED BY <2>1, EveryStep DEF TableStep
<1> QED BY <1>1, <1>2, PTL DEF MSpec, ImplementsDevTable, Table!Spec

\* The device of a block that is read or written, or that is cached, is open: it is
\* not closed to make room for another, nor put by its last holder, while there are
\* blocks of it.
THEOREM BlocksKeepDevicesOpen ==
  ASSUME OnlyOpensFail
  PROVE  MSpec => []DevicesStayOpen
<1>1. MInit => MInv
  BY StartsSound
<1>2. MInv /\ [MNext]_mvars => MInv'
  BY EveryStep DEF TableStep
<1>3. MInv => DevicesStayOpen
  <2> SUFFICES ASSUME MInv, call.pc # "destroyed" PROVE DevicesStayOpen
    BY DEF DevicesStayOpen
  <2>1. SafeInv /\ Known /\ TreeFacts /\ TreeStays
    BY PlacesKnown, TreeIs, TreeDoesStay DEF MInv
  <2>2. PICK on, pos, out : Safe(on, pos, out)
    BY <2>1 DEF SafeInv
  <2>3. ASSUME NEW f \in Frames, Mapped(f)
        PROVE  table.dev_tree[DevOf[blocks[f].key]] # NoDev
    BY <2>1, <2>3, SameTree DEF TreeFacts, MInv, CachedOpen
  <2>4. ASSUME NEW io \in inflight PROVE table.dev_tree[DevOf[io.key]] # NoDev
    <3>1. io.frame \in Frames /\ blocks[io.frame].pending
      BY <2>1, FlightFacts
    <3>2. io.key = blocks[io.frame].key
      BY <2>2 DEF Safe, IosOK
    <3>3. Mapped(io.frame)
      BY <2>1, <3>1 DEF Known
    <3> QED BY <2>3, <3>1, <3>2, <3>3
  <2>5. ASSUME NEW f \in Frames \ OnList(free), blocks[f].key # NoKey,
               ~(call.pc = "new_block" /\ f = call.f)
        PROVE  table.dev_tree[DevOf[blocks[f].key]] # NoDev
    <3>1. OnList(free) = {g \in Frames \ out : on[g] = free}
      BY <2>2, HeadFacts, OnListIs DEF Safe
    <3>2. TreeOK(on, out) /\ HandOK(out)
      BY <2>1, <2>2 DEF Safe
    <3>3. InUse(f, on, out)
      BY <2>5, <3>1, <3>2 DEF InUse, HandOK
    <3>4. Mapped(f)
      BY <2>5, <3>2, <3>3 DEF TreeOK, Mapped
    <3> QED BY <2>3, <3>4
  <2> QED BY <2>4, <2>5 DEF DevicesStayOpen
<1> QED BY <1>1, <1>2, <1>3, PTL DEF MSpec

-----------------------------------------------------------------------------
(* What is proved of the two parts holds of the whole                      *)

\* The device table keeps its promises while its devices are emptied step by step:
\* it counts the holders and the blocks of each device, its tree, lru list and count
\* agree, holders keep their rights, a device that is opened exclusively has no block
\* cached, and what is closed to make room is what was least recently got.
COROLLARY TablePromisesKept ==
  ASSUME OnlyOpensFail
  PROVE  MSpec => /\ [](Dev!RefCountsTrack /\ Dev!TableOK /\ Dev!AccessGranted)
                  /\ Dev!ExclusiveStartsEmpty /\ Dev!ClosesLeastRecentlyUsed
<1>1. MInit => MInv /\ Dev!Init
  BY StartsSound, SameSpec
<1>2. MInv /\ [MNext]_mvars => MInv' /\ [Dev!Next]_Dev!vars
  BY EveryStep DEF TableStep
<1>3. DevFaults \subseteq {"open"} /\ "renamed" \notin DevFaults
  BY DEF OnlyOpensFail
<1>4. Dev!Spec => []Dev!RefCountsTrack
  BY <1>3, DevOK, Dev!CountsTrack
<1>5. Dev!Spec => []Dev!TableOK
  BY <1>3, DevOK, Dev!TableKept
<1>6. Dev!Spec => []Dev!AccessGranted
  BY <1>3, DevOK, Dev!RightsGranted
<1>7. Dev!Spec => Dev!ExclusiveStartsEmpty
  BY <1>3, DevOK, Dev!ExclusiveIsEmpty
<1>8. Dev!Spec => Dev!ClosesLeastRecentlyUsed
  BY <1>3, DevOK, Dev!ClosesOldest
<1> QED BY <1>1, <1>2, <1>4, <1>5, <1>6, <1>7, <1>8, PTL DEF MSpec, Dev!Spec

\* To the block cache an io_get_dev that waits is an io_invalidate_dev.
LEMMA CacheSteps ==
  ASSUME MInv, OnlyOpensFail, [MNext]_mvars
  PROVE  \/ [Next]_vars
         \/ \E h \in Handles, path \in Paths, flags \in GetFlags : io_get_dev_waits(h, path, flags)
<1>1. CASE ClientBlocks
  <2>1. ASSUME NEW h \in Handles, NEW k \in Keys, IsOpen(h, k), NEW m \in GetModes,
               io_get_block_mask(k, handles[h].flags.ro, m)
        PROVE  Client
    <3>1. handles[h].flags.ro \in BOOLEAN
      BY <2>1, RightsKnown DEF IsOpen
    <3> QED BY <2>1, <3>1 DEF Client
  <2> QED BY <1>1, <2>1 DEF ClientBlocks, Client, Next
<1>2. CASE BlockSteps \/ io_get_dev_opens
  BY <1>2 DEF BlockSteps, io_get_dev_opens, Step, Next
<1>3. CASE \/ \E h \in Handles, path \in Paths, flags \in GetFlags : io_get_dev(h, path, flags)
           \/ \E h \in Handles : io_put_dev(h)
           \/ UNCHANGED mvars
  <2>1. UNCHANGED vars
    BY <1>3 DEF io_get_dev, io_put_dev, mvars
  <2> QED BY <2>1
<1> QED BY <1>1, <1>2, <1>3 DEF MNext

\* What an io_get_dev that waits begins with is no end of a call.
LEMMA WaitsBegin ==
  ASSUME NEW h \in Handles, NEW path \in Paths, NEW flags \in GetFlags,
         io_get_dev_waits(h, path, flags)
  PROVE  /\ call.pc = "idle" /\ call'.pc = "writeback_v" /\ call'.mode = ReadMode
         /\ UNCHANGED <<blocks, rtree, nr_locked, nr_dirty, nr_io_pending, inflight, ghosts>>
BY DEF io_get_dev_waits, MayGet, Start, Idle

\* The block cache keeps its promises while io_get_dev empties devices under the
\* clients of others: no held block is in flight, no assert fails, no two ios of a
\* block overlap, a block has one frame, the lists hold the frames they are for, and
\* the counters are right.
COROLLARY CachePromisesKept ==
  ASSUME OnlyOpensFail
  PROVE  MSpec => [](/\ HeldNotInFlight /\ NoAbort /\ NoConcurrentWrites
                     /\ OneFramePerBlock /\ ListsOK /\ CountersOK)
<1>1. TreeStays /\ FlushesWork /\ RefusedOnce
  BY DEF OnlyOpensFail, TreeStays, FlushesWork, ReadsWork, RefusedOnce
<1>2. MInit => MInv /\ CountOK /\ WholeOK
  BY StartsSound, InitCounts DEF MInit, CountInv
<1>3. MInv /\ CountOK /\ WholeOK /\ [MNext]_mvars => MInv' /\ CountOK' /\ WholeOK'
  <2> SUFFICES ASSUME MInv, CountOK, WholeOK, [MNext]_mvars PROVE MInv' /\ CountOK' /\ WholeOK'
    OBVIOUS
  <2>1. MInv'
    BY EveryStep DEF TableStep
  <2>2. CASE [Next]_vars
    <3>1. CountInv
      BY DEF MInv, CountInv
    <3>2. CountInv'
      BY <1>1, <2>2, <3>1, NextCounts DEF OnlyOpensFail
    <3> QED BY <2>1, <3>2 DEF CountInv
  <2>3. CASE \E h \in Handles, path \in Paths, flags \in GetFlags : io_get_dev_waits(h, path, flags)
    <3>1. CountOK'
      BY <2>3, WaitsBegin DEF CountOK, Held, Pending
    <3>2. UNCHANGED blocks /\ call'.mode = ReadMode
      BY <2>3, WaitsBegin
    <3> QED BY <2>1, <3>1, <3>2 DEF WholeOK
  <2> QED BY <2>2, <2>3, CacheSteps
<1>4. SafeInv => HeldNotInFlight /\ NoAbort
  BY FlightFacts DEF HeldNotInFlight, Held, SafeInv, Safe, PlaceOK, NoAbort
<1>5. MInv /\ CountOK /\ WholeOK => /\ HeldNotInFlight /\ NoAbort /\ NoConcurrentWrites
                         /\ OneFramePerBlock /\ ListsOK /\ CountersOK
  BY <1>1, <1>4, SafeWrites, SafeTree, SafeLists, SafeCounters DEF CountInv, MInv
<1> QED BY <1>2, <1>3, <1>5, PTL DEF MSpec

\* io_get_dev may write back and drop all blocks of a device, close it and open another
\* in its place: no client's write is lost by it, nor by io_invalidate_dev or by the
\* eviction of blocks, whoever holds what, and a client that holds a block sees its
\* last data, no matter which io_devs it and others got and put in the meantime.
\* Flush and invalidate return true, and destroy ends, when what they promise to have
\* written is on the disk.
THEOREM DevicesLoseNoWrite ==
  ASSUME OnlyOpensFail, DataClients
  PROVE  MSpec => /\ [](NoLostWrite /\ HoldersSeeData)
                  /\ FlushTruth /\ InvalidateTruth /\ DestroySaves
<1>1. MInit => MInv /\ DataOK
  BY StartsSound, InitData DEF MInit
<1>2. MInv /\ DataOK /\ [MNext]_mvars => MInv' /\ DataOK'
  <2> SUFFICES ASSUME MInv, DataOK, [MNext]_mvars PROVE MInv' /\ DataOK'
    OBVIOUS
  <2>1. MInv'
    BY EveryStep DEF TableStep
  <2>2. CASE [Next]_vars
    BY <2>1, <2>2, NextData DEF DataInv, MInv
  <2>3. CASE \E h \in Handles, path \in Paths, flags \in GetFlags : io_get_dev_waits(h, path, flags)
    <3>1. /\ call.pc = "idle" /\ UNCHANGED <<blocks, inflight, ghosts, rtree>>
          /\ call'.pc = "writeback_v" /\ call'.mode = ReadMode
      BY <2>3, WaitsBegin
    <3>2. ModeOK'
      BY <3>1 DEF ModeOK
    <3> QED BY <2>1, <3>1, <3>2, TreeDoesStay, OnlyLists DEF MInv
  <2> QED BY <2>2, <2>3, CacheSteps
<1>3. MInv /\ DataOK => NoLostWrite /\ HoldersSeeData
  <2> SUFFICES ASSUME MInv, DataOK PROVE NoLostWrite /\ HoldersSeeData
    OBVIOUS
  <2>1. NoLostWrite
    <3> SUFFICES ASSUME call.pc # "destroyed", NEW k \in Keys, unsaved[k] # {}
                 PROVE  Cached(k) /\ unsaved[k] \subseteq good[rtree[k]] \cap blocks[rtree[k]].dirty_bits
      BY DEF NoLostWrite
    <3>1. Cached(k) /\ DataOf(k, rtree[k])
      BY DEF DataOK, TreeData, Cached
    <3>2. unsaved[k] \subseteq Sectors
      BY DEF MInv, SafeInv, TypeInv, TypeOK
    <3> QED BY <3>1, <3>2 DEF DataOf
  <2>2. HoldersSeeData
    BY DEF DataOK, FrameData, HoldersSeeData, Held
  <2> QED BY <2>1, <2>2
<1>4. MInv /\ DataOK /\ [MNext]_mvars =>
        [Returns("flush", TRUE) =>
           \A k \in Keys : unsaved'[k] # {} => Cached(k) /\ rtree[k] \in Held]_vars
  <2> SUFFICES ASSUME MInv, DataOK, [MNext]_mvars, vars' # vars, Returns("flush", TRUE),
                      NEW k \in Keys, unsaved'[k] # {}
               PROVE  FALSE
    OBVIOUS
  <2>1. Next
    BY CacheSteps, WaitsBegin DEF Returns
  <2> QED BY <2>1, FlushSaves DEF DataInv, MInv
<1>5. MInv /\ DataOK /\ [MNext]_mvars =>
        [/\ Returns("invalidate_block", TRUE) =>
              unsaved'[call.key] = {} /\ rtree'[call.key] = NoFrame
         /\ Returns("invalidate_dev", TRUE) =>
              \A k \in Keys : DevOf[k] = DevOf[call.key] =>
                unsaved'[k] = {} /\ rtree'[k] = NoFrame]_vars
  <2> SUFFICES ASSUME MInv, DataOK, [MNext]_mvars, vars' # vars
               PROVE  /\ Returns("invalidate_block", TRUE) =>
                           unsaved'[call.key] = {} /\ rtree'[call.key] = NoFrame
                      /\ Returns("invalidate_dev", TRUE) =>
                           \A k \in Keys : DevOf[k] = DevOf[call.key] =>
                             unsaved'[k] = {} /\ rtree'[k] = NoFrame
    OBVIOUS
  <2>1. \A op : Returns(op, TRUE) => Next
    BY CacheSteps, WaitsBegin DEF Returns
  <2> QED BY <2>1, BlockSaved, DeviceSaved DEF DataInv, MInv
<1>6. MInv /\ DataOK /\ [MNext]_mvars =>
        [call'.pc = "destroyed" /\ call.pc # "destroyed" =>
           \A k \in Keys : unsaved[k] # {} =>
             rtree[k] \in Held \/ rtree[k] \in OnList(errored)]_vars
  <2> SUFFICES ASSUME MInv, DataOK, [MNext]_mvars, vars' # vars,
                      call'.pc = "destroyed", call.pc # "destroyed",
                      NEW k \in Keys, unsaved[k] # {}
               PROVE  rtree[k] \in OnList(errored)
    OBVIOUS
  <2>1. Next
    BY CacheSteps, WaitsBegin
  <2> QED BY <2>1, AllSaved DEF DataInv, MInv
<1>7. MSpec => [](NoLostWrite /\ HoldersSeeData)
  BY <1>1, <1>2, <1>3, PTL DEF MSpec
<1>8. MSpec => FlushTruth /\ InvalidateTruth /\ DestroySaves
  BY <1>1, <1>2, <1>4, <1>5, <1>6, PTL DEF MSpec, FlushTruth, InvalidateTruth, DestroySaves
<1> QED BY <1>7, <1>8
=============================================================================
