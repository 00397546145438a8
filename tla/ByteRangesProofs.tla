-------------------------- MODULE ByteRangesProofs --------------------------
(***************************************************************************)
(* Theorems about reading and updating ranges of bytes, for any size of    *)
(* sectors, blocks and device.                                             *)
(***************************************************************************)

EXTENDS ByteRanges, SequenceTheorems, TLAPS

-----------------------------------------------------------------------------
(* Quotients and remainders                                                *)

LEMMA TimesMore ==
  ASSUME NEW p \in Int, NEW q \in Int, NEW n \in Nat, p < q
  PROVE  p * n + n <= q * n
<1> DEFINE k == q - p - 1
<1>1. k \in Nat /\ q = p + 1 + k
  OBVIOUS
<1> HIDE DEF k
<1>2. q * n = p * n + n + k * n
  BY <1>1
<1>3. k * n \in Nat /\ p * n \in Int /\ q * n \in Int
  BY <1>1
<1> QED BY <1>2, <1>3

LEMMA Divided ==
  ASSUME NEW a \in Nat, NEW n \in Nat \ {0}
  PROVE  /\ a \div n \in Nat /\ a % n \in 0 .. n - 1
         /\ a = (a \div n) * n + (a % n)
  OBVIOUS

LEMMA DividedIs ==
  ASSUME NEW n \in Nat \ {0}, NEW q \in Nat, NEW r \in 0 .. n - 1, NEW a, a = q * n + r
  PROVE  a \div n = q /\ a % n = r
<1> DEFINE p == a \div n
           t == a % n
<1>1. a \in Nat /\ q * n \in Nat
  OBVIOUS
<1>2. p \in Nat /\ t \in 0 .. n - 1 /\ a = p * n + t
  BY <1>1, Divided
<1> HIDE DEF p, t
<1>3. p * n \in Nat
  BY <1>2
<1>4. ~(p < q)
  <2> SUFFICES ASSUME p < q PROVE FALSE
    OBVIOUS
  <2>1. p * n + n <= q * n
    BY <1>2, TimesMore
  <2> QED BY <1>1, <1>2, <1>3, <2>1
<1>5. ~(q < p)
  <2> SUFFICES ASSUME q < p PROVE FALSE
    OBVIOUS
  <2>1. q * n + n <= p * n
    BY <1>2, TimesMore
  <2> QED BY <1>1, <1>2, <1>3, <2>1
<1>6. p = q
  BY <1>2, <1>4, <1>5
<1>7. t = r
  BY <1>1, <1>2, <1>6
<1> QED BY <1>6, <1>7 DEF p, t

LEMMA DivideMono ==
  ASSUME NEW a \in Nat, NEW b \in Nat, NEW n \in Nat \ {0}, a <= b
  PROVE  a \div n <= b \div n
<1> SUFFICES ASSUME b \div n < a \div n PROVE FALSE
  BY Divided
<1>1. /\ a \div n \in Nat /\ b \div n \in Nat /\ a % n \in 0 .. n - 1 /\ b % n \in 0 .. n - 1
      /\ a = (a \div n) * n + (a % n) /\ b = (b \div n) * n + (b % n)
  BY Divided
<1>2. (b \div n) * n + n <= (a \div n) * n
  BY <1>1, TimesMore
<1>3. (a \div n) * n \in Int /\ (b \div n) * n \in Int
  BY <1>1
<1> QED BY <1>1, <1>2, <1>3

-----------------------------------------------------------------------------
(* Bytes, sectors and blocks                                               *)

LEMMA Sizes ==
  /\ SectorBytes \in Nat \ {0} /\ BlockSectors \in Nat \ {0} /\ NrBlocks \in Nat \ {0}
  /\ block_size \in Nat \ {0} /\ NrBytes \in Nat
<1>1. SectorBytes \in Nat \ {0} /\ BlockSectors \in Nat \ {0} /\ NrBlocks \in Nat \ {0}
  BY GeometryAssumption
<1>2. SectorBytes * BlockSectors \in Nat \ {0}
  BY <1>1
<1>3. NrBlocks * (SectorBytes * BlockSectors) \in Nat
  BY <1>1, <1>2
<1> QED BY <1>1, <1>2, <1>3 DEF block_size, NrBytes

LEMMA ByteIs ==
  ASSUME NEW a \in Bytes
  PROVE  /\ a \in Nat /\ BlockOf(a) \in Blocks /\ a % block_size \in 0 .. block_size - 1
         /\ a = BlockOf(a) * block_size + (a % block_size)
<1>1. a \in Nat /\ a < NrBlocks * block_size
  BY Sizes DEF Bytes, NrBytes
<1>2. /\ BlockOf(a) \in Nat /\ a % block_size \in 0 .. block_size - 1
      /\ a = BlockOf(a) * block_size + (a % block_size)
  BY <1>1, Sizes, Divided DEF BlockOf
<1>3. BlockOf(a) < NrBlocks
  <2> SUFFICES ASSUME ~(BlockOf(a) < NrBlocks) PROVE FALSE
    OBVIOUS
  <2>1. NrBlocks <= BlockOf(a)
    BY <1>2, Sizes
  <2>2. NrBlocks * block_size <= BlockOf(a) * block_size
    <3>1. CASE NrBlocks = BlockOf(a)
      BY <3>1, <1>2, Sizes
    <3>2. CASE NrBlocks < BlockOf(a)
      <4>1. NrBlocks * block_size + block_size <= BlockOf(a) * block_size
        BY <1>2, <3>2, Sizes, TimesMore
      <4>2. NrBlocks * block_size \in Int /\ BlockOf(a) * block_size \in Int
        BY <1>2, Sizes
      <4> QED BY <4>1, <4>2, Sizes
    <3> QED BY <1>2, <2>1, <3>1, <3>2, Sizes
  <2>3. NrBlocks * block_size \in Int /\ BlockOf(a) * block_size \in Int
    BY <1>2, Sizes
  <2> QED BY <1>1, <1>2, <2>2, <2>3, Sizes
<1> QED BY <1>1, <1>2, <1>3, Sizes DEF Blocks

\* The byte at an offset of a block.
LEMMA ByteAt ==
  ASSUME NEW b \in Nat, NEW r \in 0 .. block_size - 1
  PROVE  /\ BlockOf(b * block_size + r) = b /\ (b * block_size + r) % block_size = r
         /\ b * block_size + r \in Nat
<1>1. b * block_size \in Nat
  BY Sizes
<1> QED BY <1>1, Sizes, DividedIs DEF BlockOf

LEMMA SectorIs ==
  ASSUME NEW b \in Nat, NEW r \in 0 .. block_size - 1
  PROVE  /\ SectorOf(b * block_size + r) = b * BlockSectors + (r \div SectorBytes)
         /\ r \div SectorBytes \in WholeMask
<1> DEFINE k == r \div SectorBytes
           t == r % SectorBytes
<1>1. r \in Nat /\ k \in Nat /\ t \in 0 .. SectorBytes - 1 /\ r = k * SectorBytes + t
  <2>1. r \in Nat
    BY Sizes
  <2> QED BY <2>1, Sizes, Divided
<1> HIDE DEF k, t
<1>2. k < BlockSectors
  <2> SUFFICES ASSUME BlockSectors <= k PROVE FALSE
    BY <1>1, Sizes
  <2>1. BlockSectors * SectorBytes <= k * SectorBytes
    <3>1. CASE BlockSectors < k
      <4>1. BlockSectors * SectorBytes + SectorBytes <= k * SectorBytes
        BY <1>1, <3>1, Sizes, TimesMore
      <4>2. BlockSectors * SectorBytes \in Int /\ k * SectorBytes \in Int
        BY <1>1, Sizes
      <4> QED BY <4>1, <4>2, Sizes
    <3>2. CASE BlockSectors = k
      BY <3>2, <1>1, Sizes
    <3> QED BY <1>1, <3>1, <3>2, Sizes
  <2>2. BlockSectors * SectorBytes = block_size /\ k * SectorBytes \in Int
    BY <1>1, Sizes DEF block_size
  <2> QED BY <1>1, <2>1, <2>2, Sizes
<1>3. b * block_size + r = (b * BlockSectors + k) * SectorBytes + t
  <2>1. b * block_size = (b * BlockSectors) * SectorBytes
    BY Sizes DEF block_size
  <2>2. (b * BlockSectors + k) * SectorBytes = (b * BlockSectors) * SectorBytes + k * SectorBytes
    BY <1>1, Sizes
  <2>3. (b * BlockSectors) * SectorBytes \in Int /\ k * SectorBytes \in Int
    BY <1>1, Sizes
  <2> QED BY <1>1, <2>1, <2>2, <2>3
<1>4. b * BlockSectors + k \in Nat
  BY <1>1, Sizes
<1>5. SectorOf(b * block_size + r) = b * BlockSectors + k
  <2> DEFINE q == b * BlockSectors + k
             a == b * block_size + r
  <2>1. q \in Nat /\ a = q * SectorBytes + t
    BY <1>3, <1>4
  <2> HIDE DEF q, a
  <2>2. a \div SectorBytes = q
    BY <1>1, <2>1, Sizes, DividedIs
  <2> QED BY <2>2 DEF SectorOf, q, a
<1> QED BY <1>1, <1>2, <1>5, Sizes DEF k, WholeMask

LEMMA SectorsApart ==
  ASSUME NEW b \in Nat, NEW c \in Nat, NEW s \in WholeMask, c * BlockSectors + s \in SectorsOf(b)
  PROVE  c = b
<1>1. /\ c * BlockSectors \in Nat /\ b * BlockSectors \in Nat /\ s \in Nat /\ s < BlockSectors
      /\ (b + 1) * BlockSectors = b * BlockSectors + BlockSectors
  BY Sizes DEF WholeMask
<1>2. /\ b * BlockSectors <= c * BlockSectors + s
      /\ c * BlockSectors + s <= b * BlockSectors + BlockSectors - 1
  BY <1>1, Sizes DEF SectorsOf
<1>3. ~(c < b)
  <2> SUFFICES ASSUME c < b PROVE FALSE
    OBVIOUS
  <2>1. c * BlockSectors + BlockSectors <= b * BlockSectors
    BY TimesMore, Sizes
  <2> QED BY <1>1, <1>2, <2>1, Sizes
<1>4. ~(b < c)
  <2> SUFFICES ASSUME b < c PROVE FALSE
    OBVIOUS
  <2>1. b * BlockSectors + BlockSectors <= c * BlockSectors
    BY TimesMore, Sizes
  <2> QED BY <1>1, <1>2, <2>1, Sizes
<1> QED BY <1>3, <1>4

LEMMA SectorsIn ==
  ASSUME NEW b \in Nat, NEW s \in WholeMask
  PROVE  b * BlockSectors + s \in SectorsOf(b)
<1>1. /\ b * BlockSectors \in Nat /\ s \in Nat /\ s < BlockSectors
      /\ (b + 1) * BlockSectors = b * BlockSectors + BlockSectors
  BY Sizes DEF WholeMask
<1> QED BY <1>1, Sizes DEF SectorsOf

\* A byte is in the sectors of its block, and of no other.
LEMMA SectorInBlock ==
  ASSUME NEW a \in Bytes, NEW b \in Nat
  PROVE  SectorOf(a) \in SectorsOf(b) <=> BlockOf(a) = b
<1> DEFINE c == BlockOf(a)
           s == (a % block_size) \div SectorBytes
<1>1. c \in Nat /\ s \in WholeMask /\ SectorOf(a) = c * BlockSectors + s
  <2>1. c \in Nat /\ a % block_size \in 0 .. block_size - 1 /\ a = c * block_size + (a % block_size)
    BY ByteIs DEF Blocks
  <2> QED BY <2>1, SectorIs
<1> HIDE DEF c, s
<1> QED BY <1>1, SectorsApart, SectorsIn DEF c

-----------------------------------------------------------------------------
(* Masks *)

LEMMA MaskBounds ==
  ASSUME NEW offset \in Nat, NEW len \in Nat, NEW s \in Mask(offset, len)
  PROVE  /\ s \in Nat /\ s * SectorBytes \in Nat
         /\ s * SectorBytes < offset + len /\ offset < s * SectorBytes + SectorBytes
<1> DEFINE c == offset + len + SectorBytes - 1
           p == offset \div SectorBytes
           q == c \div SectorBytes
<1>1. c \in Nat
  BY Sizes
<1>2. /\ p \in Nat /\ q \in Nat /\ p * SectorBytes \in Nat /\ q * SectorBytes \in Nat
      /\ q * SectorBytes <= c /\ offset < p * SectorBytes + SectorBytes
  <2>1. /\ p \in Nat /\ offset % SectorBytes \in 0 .. SectorBytes - 1
        /\ offset = p * SectorBytes + (offset % SectorBytes)
    BY Sizes, Divided
  <2>2. /\ q \in Nat /\ c % SectorBytes \in 0 .. SectorBytes - 1
        /\ c = q * SectorBytes + (c % SectorBytes)
    BY <1>1, Sizes, Divided
  <2> HIDE DEF p, q, c
  <2>3. p * SectorBytes \in Nat /\ q * SectorBytes \in Nat
    BY <2>1, <2>2, Sizes
  <2> QED BY <2>1, <2>2, <2>3, Sizes
<1>3. s \in p .. q - 1
  BY DEF Mask
<1> HIDE DEF p, q
<1>4. s \in Nat /\ p <= s /\ s < q
  BY <1>2, <1>3
<1>5. s * SectorBytes \in Nat
  BY <1>4, Sizes
<1>6. s * SectorBytes + SectorBytes <= q * SectorBytes
  BY <1>2, <1>4, Sizes, TimesMore
<1>7. p * SectorBytes <= s * SectorBytes
  <2>1. CASE p < s
    <3>1. p * SectorBytes + SectorBytes <= s * SectorBytes
      BY <1>2, <1>4, <2>1, Sizes, TimesMore
    <3> QED BY <1>2, <1>5, <3>1, Sizes
  <2>2. CASE p = s
    BY <1>2, <2>2
  <2> QED BY <1>2, <1>4, <2>1, <2>2
<1>8. s * SectorBytes < offset + len
  BY <1>2, <1>5, <1>6, Sizes
<1> QED BY <1>2, <1>4, <1>5, <1>7, <1>8, Sizes

\* A mask has the sectors of the region, ...
LEMMA MaskCovers ==
  ASSUME NEW offset \in Nat, NEW len \in Nat, NEW r \in Nat, offset <= r, r < offset + len
  PROVE  r \div SectorBytes \in Mask(offset, len)
<1> DEFINE c == offset + len + SectorBytes - 1
           k == r \div SectorBytes
           t == r % SectorBytes
<1>1. c \in Nat /\ r + SectorBytes <= c /\ r + SectorBytes \in Nat
  BY Sizes
<1>2. k \in Nat /\ t \in 0 .. SectorBytes - 1 /\ r = k * SectorBytes + t
  BY Sizes, Divided
<1>3. offset \div SectorBytes <= k /\ offset \div SectorBytes \in Nat
  BY Sizes, Divided, DivideMono
<1>4. (r + SectorBytes) \div SectorBytes <= c \div SectorBytes /\ c \div SectorBytes \in Nat
  BY <1>1, Sizes, Divided, DivideMono
<1> HIDE DEF k, t, c
<1>5. (r + SectorBytes) \div SectorBytes = k + 1
  <2>1. k + 1 \in Nat /\ r + SectorBytes = (k + 1) * SectorBytes + t
    <3> DEFINE y == k * SectorBytes
               z == (k + 1) * SectorBytes
    <3>1. z = y + SectorBytes /\ y \in Nat
      BY <1>2, Sizes
    <3>2. r = y + t /\ t \in Nat
      BY <1>2, Sizes
    <3> HIDE DEF y, z
    <3>3. r + SectorBytes = z + t
      BY <3>1, <3>2, Sizes
    <3> QED BY <1>2, <3>3 DEF z
  <2> DEFINE q == k + 1
             x == r + SectorBytes
  <2>2. q \in Nat /\ x = q * SectorBytes + t
    BY <2>1
  <2> HIDE DEF q, x
  <2>3. x \div SectorBytes = q
    BY <1>2, <2>2, Sizes, DividedIs
  <2> QED BY <2>3 DEF q, x
<1>6. k \in offset \div SectorBytes .. (c \div SectorBytes) - 1
  BY <1>2, <1>3, <1>4, <1>5
<1> QED BY <1>6 DEF Mask, k, c

\* ... and no others.
LEMMA MaskTouches ==
  ASSUME NEW offset \in Nat, NEW len \in Nat \ {0}, NEW s \in Mask(offset, len)
  PROVE  \E r \in offset .. offset + len - 1 : r \div SectorBytes = s
<1> DEFINE first == s * SectorBytes
<1>1. /\ s \in Nat /\ first \in Nat /\ first < offset + len /\ offset < first + SectorBytes
  BY MaskBounds
<1>2. \A t \in 0 .. SectorBytes - 1 : (first + t) \div SectorBytes = s
  BY <1>1, Sizes, DividedIs
<1> HIDE DEF first
<1>3. CASE first >= offset
  <2>1. first \in offset .. offset + len - 1 /\ first + 0 = first /\ 0 \in 0 .. SectorBytes - 1
    BY <1>1, <1>3, Sizes
  <2> QED BY <1>2, <2>1
<1>4. CASE first < offset
  <2>1. /\ offset \in offset .. offset + len - 1 /\ first + (offset - first) = offset
        /\ offset - first \in 0 .. SectorBytes - 1
    BY <1>1, <1>4, Sizes
  <2> QED BY <1>2, <2>1
<1> QED BY <1>1, <1>3, <1>4

LEMMA MaskInBlock ==
  ASSUME NEW offset \in Nat, NEW len \in Nat, offset + len <= block_size
  PROVE  Mask(offset, len) \subseteq WholeMask
<1> SUFFICES ASSUME NEW s \in Mask(offset, len) PROVE s \in WholeMask
  OBVIOUS
<1>1. s \in Nat /\ s * SectorBytes \in Nat /\ s * SectorBytes < offset + len
  BY MaskBounds
<1>2. s * SectorBytes \in 0 .. block_size - 1
  BY <1>1, Sizes
<1>3. (s * SectorBytes) \div SectorBytes = s
  <2>1. 0 \in 0 .. SectorBytes - 1 /\ s * SectorBytes = s * SectorBytes + 0
    BY <1>1, Sizes
  <2> QED BY <1>1, <2>1, Sizes, DividedIs
<1>4. 0 \in Nat
  OBVIOUS
<1> QED BY <1>2, <1>3, <1>4, SectorIs

-----------------------------------------------------------------------------
(* The invariant                                                           *)

\* A clean sector of a cached block agrees with the disk, and a dirty one is
\* cached.
CacheOK ==
  /\ cached \subseteq Blocks
  /\ \A a \in Bytes : SectorOf(a) \in dirty => BlockOf(a) \in cached
  /\ \A a \in Bytes : BlockOf(a) \in cached => cache[a] = disk[a] \/ SectorOf(a) \in dirty

Calls ==
  [pc : {"idle", "read", "first", "whole"}, op : Updates \cup {"none", "read"},
   start : Nat, size : Nat, bb : Nat, be : Nat, offset : Nat, len : Nat, data : Nat,
   ret : BOOLEAN]

\* The byte of the device a call is at.
Position == call.bb * block_size + call.offset

\* How far a call is: data bytes of an update are done and len are left, as of
\* a read.
CallOK ==
  /\ call \in Calls
  /\ call.pc # "idle" => call.start \in Bytes /\ call.start + call.size <= NrBytes
  /\ call.pc = "read" =>
       /\ call.op = "read" /\ call.data = 0 /\ call.len <= call.size
       /\ \/ call.bb = call.be /\ call.len = 0
          \/ /\ call.offset < block_size /\ Position \in Bytes
             /\ Position = call.start + (call.size - call.len)
             /\ call.bb < call.be /\ call.be = EndBlock(Position, call.len)
  /\ call.pc = "first" =>
       /\ call.op \in Updates /\ call.data = 0 /\ call.len = call.size
       /\ call.offset < block_size /\ Position = call.start
  /\ call.pc = "whole" =>
       /\ call.op \in Updates /\ call.data + call.len = call.size
       /\ call.bb * block_size = call.start + call.data
       /\ call.be = call.bb + (call.len \div block_size)

\* The device when n bytes of the call are done.
Updated(n) ==
  [a \in Bytes |-> IF a - call.start \in 0 .. n - 1 THEN Data(a - call.start) ELSE before[a]]

Readout(n) == [i \in 1 .. n |-> before[call.start + i - 1]]

DataOK ==
  /\ before = [a \in Bytes |-> before[a]]
  /\ call.pc # "idle" => Content = Updated(call.data)
  /\ call.pc = "read" => out = Readout(call.size - call.len)

IInv == CacheOK /\ CallOK /\ DataOK

-----------------------------------------------------------------------------
(* The cache on its own                                                    *)

LEMMA WritebackKeeps ==
  ASSUME CacheOK, NEW b \in Blocks, writeback(b)
  PROVE  CacheOK' /\ Content' = Content /\ dirty' \subseteq dirty
<1>1. b \in Nat
  BY Sizes DEF Blocks
<1>2. \A a \in Bytes : SectorOf(a) \in SectorsOf(b) <=> BlockOf(a) = b
  BY <1>1, SectorInBlock
<1>3. cached' = cached /\ cache' = cache /\ dirty' = dirty \ SectorsOf(b)
  BY DEF writeback
<1>4. \A a \in Bytes : disk'[a] = IF SectorOf(a) \in SectorsOf(b) /\ SectorOf(a) \in dirty
                                  THEN cache[a] ELSE disk[a]
  BY DEF writeback
<1>5. CacheOK'
  BY <1>2, <1>3, <1>4 DEF CacheOK
<1>6. \A a \in Bytes : BlockOf(a) \notin cached => disk'[a] = disk[a]
  BY <1>4 DEF CacheOK
<1>7. Content' = Content
  BY <1>3, <1>6 DEF Content
<1> QED BY <1>3, <1>5, <1>7

LEMMA EvictKeeps ==
  ASSUME CacheOK, NEW b \in Blocks, evict(b)
  PROVE  CacheOK' /\ Content' = Content /\ dirty' = dirty
<1>1. b \in Nat
  BY Sizes DEF Blocks
<1>2. \A a \in Bytes : SectorOf(a) \in SectorsOf(b) <=> BlockOf(a) = b
  BY <1>1, SectorInBlock
<1>3. cached' = cached \ {b} /\ disk' = disk /\ dirty' = dirty
  BY DEF evict
<1>4. \A a \in Bytes : BlockOf(a) # b => cache'[a] = cache[a]
  BY DEF evict
<1>5. \A a \in Bytes : BlockOf(a) = b => SectorOf(a) \notin dirty /\ cache[a] = disk[a]
  BY <1>2 DEF evict, CacheOK
<1>6. CacheOK'
  BY <1>3, <1>4, <1>5 DEF CacheOK
<1>7. ASSUME NEW a \in Bytes
      PROVE  (IF BlockOf(a) \in cached' THEN cache'[a] ELSE disk'[a])
             = IF BlockOf(a) \in cached THEN cache[a] ELSE disk[a]
  BY <1>3, <1>4, <1>5
<1>8. Content' = Content
  BY <1>7 DEF Content
<1> QED BY <1>3, <1>6, <1>8

LEMMA PrefetchKeeps ==
  ASSUME CacheOK, NEW bb, NEW be, Prefetched(bb, be), bb .. be - 1 \subseteq Blocks
  PROVE  CacheOK' /\ Content' = Content /\ dirty' = dirty
<1>1. PICK some \in SUBSET ((bb .. be - 1) \ cached) :
         /\ cached' = cached \cup some
         /\ cache' = [a \in Bytes |-> IF BlockOf(a) \in some THEN disk[a] ELSE cache[a]]
  BY DEF Prefetched
<1>2. disk' = disk /\ dirty' = dirty
  BY DEF Prefetched
<1>3. \A a \in Bytes : cache'[a] = IF BlockOf(a) \in some THEN disk[a] ELSE cache[a]
  BY <1>1
<1>4. some \cap cached = {} /\ some \subseteq Blocks
  BY <1>1
<1>5. CacheOK'
  BY <1>1, <1>2, <1>3, <1>4 DEF CacheOK
<1>6. ASSUME NEW a \in Bytes
      PROVE  (IF BlockOf(a) \in cached' THEN cache'[a] ELSE disk'[a])
             = IF BlockOf(a) \in cached THEN cache[a] ELSE disk[a]
  BY <1>1, <1>2, <1>3, <1>4
<1>7. Content' = Content
  BY <1>6 DEF Content
<1> QED BY <1>2, <1>5, <1>7

-----------------------------------------------------------------------------
(* Getting a block                                                         *)

\* A get whose mask covers what the caller changes.
LEMMA GotKeeps ==
  ASSUME CacheOK, NEW b \in Blocks, NEW zeroed \in BOOLEAN, NEW mask \in SUBSET WholeMask,
         NEW from \in Nat, NEW to \in Nat, NEW value, Got(b, zeroed, mask, from, to, value),
         \A r \in 0 .. block_size - 1 : r \in from .. to - 1 => r \div SectorBytes \in mask,
         zeroed => from = 0 /\ to = block_size
  PROVE  /\ CacheOK'
         /\ Content' = [a \in Bytes |-> IF BlockOf(a) = b /\ a % block_size \in from .. to - 1
                                        THEN value[a] ELSE Content[a]]
         /\ dirty' = dirty \cup {b * BlockSectors + s : s \in mask}
<1> DEFINE changed(a) == BlockOf(a) = b /\ a % block_size \in from .. to - 1
<1>1. b \in Nat
  BY Sizes DEF Blocks
<1>2. /\ cached' = cached \cup {b} /\ disk' = disk
      /\ dirty' = dirty \cup {b * BlockSectors + s : s \in mask}
  BY DEF Got
<1>3. ASSUME NEW a \in Bytes
      PROVE  /\ SectorOf(a) = BlockOf(a) * BlockSectors + ((a % block_size) \div SectorBytes)
             /\ a % block_size \in 0 .. block_size - 1 /\ BlockOf(a) \in Nat
  BY ByteIs, SectorIs DEF Blocks
<1>4. \A a \in Bytes : changed(a) => SectorOf(a) \in dirty'
  BY <1>2, <1>3
<1>5. \A a \in Bytes : BlockOf(a) = b /\ zeroed => changed(a)
  BY <1>3, Sizes
<1>6. \A a \in Bytes :
        cache'[a] = IF changed(a) THEN value[a]
                    ELSE IF BlockOf(a) # b THEN cache[a]
                    ELSE IF BlockOf(a) \in cached THEN cache[a] ELSE disk[a]
  <2>1. \A a \in Bytes :
          cache'[a] = IF changed(a) THEN value[a]
                      ELSE IF BlockOf(a) # b THEN cache[a]
                      ELSE IF zeroed THEN ZeroByte ELSE Content[a]
    BY DEF Got
  <2> HIDE DEF changed
  <2> QED BY <1>5, <2>1 DEF Content
<1>7. \A a \in Bytes : SectorOf(a) \in dirty' => SectorOf(a) \in dirty \/ BlockOf(a) = b
  <2> SUFFICES ASSUME NEW a \in Bytes, NEW s \in mask, SectorOf(a) = b * BlockSectors + s
               PROVE  BlockOf(a) = b
    BY <1>2
  <2>1. b * BlockSectors + s \in SectorsOf(b)
    BY <1>1, SectorsIn
  <2> QED BY <1>1, <2>1, SectorInBlock
<1> HIDE DEF changed
<1>8. CacheOK'
  <2>1. cached' \subseteq Blocks
    BY <1>2 DEF CacheOK
  <2>2. \A a \in Bytes : SectorOf(a) \in dirty' => BlockOf(a) \in cached'
    BY <1>2, <1>7 DEF CacheOK
  <2>3. ASSUME NEW a \in Bytes, BlockOf(a) \in cached', SectorOf(a) \notin dirty'
        PROVE  cache'[a] = disk'[a]
    <3>1. ~changed(a) /\ SectorOf(a) \notin dirty
      BY <1>2, <1>4, <2>3
    <3> QED BY <1>2, <1>6, <2>3, <3>1 DEF CacheOK
  <2> QED BY <2>1, <2>2, <2>3 DEF CacheOK
<1>9. ASSUME NEW a \in Bytes
      PROVE  (IF BlockOf(a) \in cached' THEN cache'[a] ELSE disk'[a])
             = IF changed(a) THEN value[a] ELSE Content[a]
  <2>1. CASE BlockOf(a) = b
    BY <1>2, <1>6, <2>1 DEF Content
  <2>2. CASE BlockOf(a) # b
    <3>1. ~changed(a)
      BY <2>2 DEF changed
    <3> QED BY <1>2, <1>6, <2>2, <3>1 DEF Content
  <2> QED BY <2>1, <2>2
<1>10. Content' = [a \in Bytes |-> IF changed(a) THEN value[a] ELSE Content[a]]
  BY <1>9 DEF Content
<1> QED BY <1>2, <1>8, <1>10 DEF changed

LEMMA MaskOfRegion ==
  ASSUME NEW offset \in Nat, NEW len \in Nat, NEW mask, Mask(offset, len) \subseteq mask
  PROVE  \A r \in 0 .. block_size - 1 : r \in offset .. offset + len - 1 => r \div SectorBytes \in mask
<1> SUFFICES ASSUME NEW r \in Nat, r \in offset .. offset + len - 1 PROVE r \div SectorBytes \in mask
  BY Sizes
<1>1. offset <= r /\ r < offset + len
  OBVIOUS
<1> QED BY <1>1, MaskCovers

\* A region of the block a call is at.
LEMMA Region ==
  ASSUME NEW b \in Nat, NEW offset \in Nat, NEW len \in Nat, offset + len <= block_size,
         NEW start \in Nat, NEW n \in Nat, b * block_size + offset = start + n,
         NEW a \in Bytes
  PROVE  BlockOf(a) = b /\ a % block_size \in offset .. offset + len - 1
         <=> a - start \in n .. n + len - 1
<1> DEFINE base == b * block_size
<1>1. base \in Nat /\ a \in Nat /\ base + offset = start + n
  BY ByteIs, Sizes
<1>2. ASSUME BlockOf(a) = b, a % block_size \in offset .. offset + len - 1
      PROVE  a - start \in n .. n + len - 1
  <2>1. a = base + (a % block_size) /\ a % block_size \in Nat
    BY <1>2, ByteIs, Sizes
  <2> HIDE DEF base
  <2> QED BY <1>1, <1>2, <2>1
<1>3. ASSUME a - start \in n .. n + len - 1
      PROVE  BlockOf(a) = b /\ a % block_size \in offset .. offset + len - 1
  <2> DEFINE r == a - base
  <2>1. r \in offset .. offset + len - 1 /\ a = base + r
    <3> HIDE DEF base
    <3> QED BY <1>1, <1>3
  <2>2. r \in 0 .. block_size - 1
    <3> HIDE DEF r
    <3> QED BY <2>1, Sizes
  <2> HIDE DEF r
  <2> QED BY <2>1, <2>2, ByteAt
<1> QED BY <1>2, <1>3

\* A get that changes len more bytes of the range.
LEMMA Writes ==
  ASSUME CacheOK, call.bb \in Blocks, call.start \in Nat, call.data \in Nat,
         Content = Updated(call.data),
         NEW zeroed \in BOOLEAN, NEW mask \in SUBSET WholeMask,
         NEW offset \in Nat, NEW len \in Nat, offset + len <= block_size,
         Mask(offset, len) \subseteq mask, zeroed => offset = 0 /\ len = block_size,
         call.bb * block_size + offset = call.start + call.data,
         NEW value, \A a \in Bytes : value[a] = Data(a - call.start),
         Got(call.bb, zeroed, mask, offset, offset + len, value)
  PROVE  /\ CacheOK' /\ Content' = Updated(call.data + len)
         /\ dirty' = dirty \cup {call.bb * BlockSectors + s : s \in mask}
<1>1. \A r \in 0 .. block_size - 1 : r \in offset .. offset + len - 1 => r \div SectorBytes \in mask
  BY MaskOfRegion
<1>2. offset + len \in Nat /\ (zeroed => offset = 0 /\ offset + len = block_size)
  BY Sizes
<1>3. /\ CacheOK'
      /\ Content' = [a \in Bytes |-> IF BlockOf(a) = call.bb
                                        /\ a % block_size \in offset .. offset + len - 1
                                     THEN value[a] ELSE Content[a]]
      /\ dirty' = dirty \cup {call.bb * BlockSectors + s : s \in mask}
  <2> DEFINE to == offset + len
  <2>1. /\ to \in Nat /\ (zeroed => offset = 0 /\ to = block_size)
        /\ \A r \in 0 .. block_size - 1 : r \in offset .. to - 1 => r \div SectorBytes \in mask
        /\ Got(call.bb, zeroed, mask, offset, to, value)
    BY <1>1, <1>2
  <2> HIDE DEF to
  <2>2. /\ CacheOK'
        /\ Content' = [a \in Bytes |-> IF BlockOf(a) = call.bb
                                          /\ a % block_size \in offset .. to - 1
                                       THEN value[a] ELSE Content[a]]
        /\ dirty' = dirty \cup {call.bb * BlockSectors + s : s \in mask}
    BY <2>1, GotKeeps
  <2> QED BY <2>2 DEF to
<1>4. call.bb \in Nat
  BY Sizes DEF Blocks
<1>5. ASSUME NEW a \in Bytes
      PROVE  (IF BlockOf(a) = call.bb /\ a % block_size \in offset .. offset + len - 1
              THEN value[a] ELSE Content[a])
             = IF a - call.start \in 0 .. call.data + len - 1 THEN Data(a - call.start) ELSE before[a]
  <2>1. BlockOf(a) = call.bb /\ a % block_size \in offset .. offset + len - 1
        <=> a - call.start \in call.data .. call.data + len - 1
    BY <1>4, Region
  <2>2. Content[a] = IF a - call.start \in 0 .. call.data - 1 THEN Data(a - call.start) ELSE before[a]
    BY DEF Updated
  <2>3. a \in Nat
    BY ByteIs
  <2>4. a - call.start \in 0 .. call.data + len - 1
        <=> \/ a - call.start \in call.data .. call.data + len - 1
            \/ a - call.start \in 0 .. call.data - 1
    BY <2>3
  <2>5. value[a] = Data(a - call.start)
    OBVIOUS
  <2> QED BY <2>1, <2>2, <2>4, <2>5
<1>6. Content' = Updated(call.data + len)
  BY <1>3, <1>5 DEF Updated
<1> QED BY <1>3, <1>6

\* A get that changes nothing.
LEMMA Reads ==
  ASSUME CacheOK, NEW b \in Blocks, Got(b, FALSE, {}, 0, 0, << >>)
  PROVE  CacheOK' /\ Content' = Content /\ dirty' = dirty
<1>1. \A r : r \notin 0 .. 0 - 1
  OBVIOUS
<1>2. /\ CacheOK'
      /\ Content' = [a \in Bytes |-> IF BlockOf(a) = b /\ a % block_size \in 0 .. 0 - 1
                                     THEN << >>[a] ELSE Content[a]]
      /\ dirty' = dirty \cup {b * BlockSectors + s : s \in {}}
  <2>1. {} \in SUBSET WholeMask /\ 0 \in Nat
    OBVIOUS
  <2> QED BY <1>1, <2>1, GotKeeps
<1>3. Content' = Content
  BY <1>1, <1>2 DEF Content
<1> QED BY <1>2, <1>3

\* The sectors of an update that changes at least a byte.
Touched == {SectorOf(a) : a \in call.start .. call.start + call.size - 1}

LEMMA TouchedBy ==
  ASSUME NEW offset \in Nat, NEW len \in Nat \ {0}, offset + len <= block_size,
         call.bb \in Nat, call.start \in Nat, call.data \in Nat, call.size \in Nat,
         call.bb * block_size + offset = call.start + call.data,
         call.data + len <= call.size
  PROVE  {call.bb * BlockSectors + s : s \in Mask(offset, len)} \subseteq Touched
<1> SUFFICES ASSUME NEW s \in Mask(offset, len) PROVE call.bb * BlockSectors + s \in Touched
  OBVIOUS
<1>1. PICK r \in offset .. offset + len - 1 : r \div SectorBytes = s
  BY MaskTouches
<1>2. r \in 0 .. block_size - 1
  BY Sizes
<1> DEFINE base == call.bb * block_size
<1>3. SectorOf(base + r) = call.bb * BlockSectors + s
  BY <1>1, <1>2, SectorIs
<1>4. base \in Nat /\ base + offset = call.start + call.data
  BY Sizes
<1> HIDE DEF base
<1>5. base + r \in call.start .. call.start + call.size - 1
  BY <1>4
<1> QED BY <1>3, <1>5 DEF Touched

LEMMA MaskOfBlock == WholeMask = Mask(0, block_size)
<1>1. Mask(0, block_size) \subseteq WholeMask
  <2>1. 0 \in Nat /\ block_size \in Nat /\ 0 + block_size <= block_size
    BY Sizes
  <2> QED BY <2>1, MaskInBlock
<1>2. ASSUME NEW s \in WholeMask PROVE s \in Mask(0, block_size)
  <2> DEFINE r == s * SectorBytes
  <2>1. s \in Nat /\ s < BlockSectors
    BY <1>2, Sizes DEF WholeMask
  <2>2. r \in Nat /\ r + SectorBytes <= BlockSectors * SectorBytes
    BY <2>1, Sizes, TimesMore
  <2>3. BlockSectors * SectorBytes = block_size
    BY Sizes DEF block_size
  <2>4. r \div SectorBytes = s
    <3>1. 0 \in 0 .. SectorBytes - 1 /\ r = s * SectorBytes + 0
      BY <2>2, Sizes
    <3> HIDE DEF r
    <3> QED BY <2>1, <3>1, Sizes, DividedIs
  <2> HIDE DEF r
  <2>5. 0 <= r /\ r < 0 + block_size /\ 0 \in Nat /\ block_size \in Nat
    BY <2>2, <2>3, Sizes
  <2> QED BY <2>2, <2>4, <2>5, MaskCovers
<1> QED BY <1>1, <1>2

-----------------------------------------------------------------------------
(* The steps of a call                                                     *)

LEMMA IdleIs ==
  ASSUME NEW ret \in BOOLEAN
  PROVE  /\ Idle(ret) \in Calls /\ Idle(ret).pc = "idle" /\ Idle(ret).ret = ret
         /\ \A op \in Updates \cup {"none", "read"} :
              LET done == [Idle(ret) EXCEPT !.op = op]
              IN done \in Calls /\ done.pc = "idle" /\ done.ret = ret
  BY DEF Idle, Calls

\* A call that has returned.
LEMMA Returned ==
  ASSUME DataOK, call' \in Calls, call'.pc = "idle", before' = before, CacheOK'
  PROVE  IInv'
<1>1. CallOK'
  BY DEF CallOK
<1>2. DataOK'
  <2>1. before' = [a \in Bytes |-> before'[a]]
    BY DEF DataOK
  <2> QED BY <2>1 DEF DataOK
<1> QED BY <1>1, <1>2 DEF IInv

\* A get that fails after it has zeroed the block.
LEMMA ZeroedAll ==
  ASSUME NEW b \in Blocks, Got(b, TRUE, WholeMask, 0, 0, << >>)
  PROVE  Got(b, TRUE, WholeMask, 0, block_size, [a \in Bytes |-> ZeroByte])
<1> DEFINE value == [a \in Bytes |-> ZeroByte]
<1>1. ASSUME NEW a \in Bytes
      PROVE  /\ a % block_size \notin 0 .. 0 - 1 /\ a % block_size \in 0 .. block_size - 1
             /\ value[a] = ZeroByte
  BY ByteIs
<1> HIDE DEF value
<1>2. cache' = [a \in Bytes |->
                  IF BlockOf(a) = b /\ a % block_size \in 0 .. 0 - 1 THEN << >>[a]
                  ELSE IF BlockOf(a) # b THEN cache[a]
                  ELSE IF TRUE THEN ZeroByte ELSE Content[a]]
  BY DEF Got
<1>3. cache' = [a \in Bytes |->
                  IF BlockOf(a) = b /\ a % block_size \in 0 .. block_size - 1 THEN value[a]
                  ELSE IF BlockOf(a) # b THEN cache[a]
                  ELSE IF TRUE THEN ZeroByte ELSE Content[a]]
  BY <1>1, <1>2
<1> QED BY <1>3 DEF Got, value

LEMMA FailsStep ==
  ASSUME IInv, NEW b \in Blocks, NEW zeroed \in BOOLEAN, NEW mask \in SUBSET WholeMask,
         GetFails(b, zeroed, mask), zeroed => mask = WholeMask
  PROVE  /\ IInv' /\ call'.pc = "idle" /\ call'.ret = FALSE
         /\ dirty' \subseteq dirty \cup {b * BlockSectors + s : s \in mask}
         /\ ~zeroed => Content' = Content
         /\ \/ Content' = Content
            \/ Content' = [a \in Bytes |-> IF BlockOf(a) = b THEN ZeroByte ELSE Content[a]]
<1>1. call' \in Calls /\ call'.pc = "idle" /\ call'.ret = FALSE /\ before' = before
  BY IdleIs DEF GetFails
<1>2. CASE UNCHANGED <<disk, cached, cache, dirty, calls>>
  <2>1. CacheOK' /\ Content' = Content
    BY <1>2 DEF IInv, CacheOK, Content
  <2> QED BY <1>1, <1>2, <2>1, Returned DEF IInv
<1>3. ASSUME Got(b, zeroed, mask, 0, 0, << >>), ~zeroed
      PROVE  /\ CacheOK' /\ Content' = Content
             /\ dirty' = dirty \cup {b * BlockSectors + s : s \in mask}
  <2>1. \A r : r \notin 0 .. 0 - 1
    OBVIOUS
  <2>2. /\ CacheOK'
        /\ Content' = [a \in Bytes |-> IF BlockOf(a) = b /\ a % block_size \in 0 .. 0 - 1
                                       THEN << >>[a] ELSE Content[a]]
        /\ dirty' = dirty \cup {b * BlockSectors + s : s \in mask}
    <3>1. 0 \in Nat
      OBVIOUS
    <3> QED BY <1>3, <2>1, <3>1, GotKeeps DEF IInv
  <2>3. Content' = Content
    BY <2>1, <2>2 DEF Content
  <2> QED BY <2>2, <2>3
<1>4. ASSUME Got(b, zeroed, mask, 0, 0, << >>), zeroed
      PROVE  /\ CacheOK'
             /\ Content' = [a \in Bytes |-> IF BlockOf(a) = b THEN ZeroByte ELSE Content[a]]
             /\ dirty' = dirty \cup {b * BlockSectors + s : s \in mask}
  <2> DEFINE value == [a \in Bytes |-> ZeroByte]
  <2>1. Got(b, TRUE, WholeMask, 0, block_size, value)
    <3>1. zeroed = TRUE /\ mask = WholeMask
      BY <1>4
    <3> QED BY <1>4, <3>1, ZeroedAll
  <2>2. \A r \in 0 .. block_size - 1 : r \in 0 .. block_size - 1 => r \div SectorBytes \in WholeMask
    <3>1. ASSUME NEW r \in 0 .. block_size - 1 PROVE r \div SectorBytes \in WholeMask
      BY <3>1, SectorIs
    <3> QED BY <3>1
  <2>3. \A a \in Bytes : value[a] = ZeroByte
    OBVIOUS
  <2> HIDE DEF value
  <2>4. /\ CacheOK'
        /\ Content' = [a \in Bytes |-> IF BlockOf(a) = b /\ a % block_size \in 0 .. block_size - 1
                                       THEN value[a] ELSE Content[a]]
        /\ dirty' = dirty \cup {b * BlockSectors + s : s \in WholeMask}
    <3>1. 0 \in Nat /\ block_size \in Nat /\ WholeMask \in SUBSET WholeMask
      BY Sizes
    <3> QED BY <2>1, <2>2, <3>1, GotKeeps DEF IInv
  <2>5. \A a \in Bytes : a % block_size \in 0 .. block_size - 1
    BY ByteIs
  <2> QED BY <1>4, <2>3, <2>4, <2>5
<1>5. CASE Got(b, zeroed, mask, 0, 0, << >>)
  <2>1. CacheOK' /\ dirty' = dirty \cup {b * BlockSectors + s : s \in mask}
    BY <1>3, <1>4, <1>5
  <2>2. IInv'
    BY <1>1, <2>1, Returned DEF IInv
  <2> QED BY <1>1, <1>3, <1>4, <1>5, <2>1, <2>2
<1> QED BY <1>2, <1>5 DEF GetFails

\* What an update does in a step.
UpdateStep ==
  /\ IInv'
  /\ call.size > 0 => dirty' \ dirty \subseteq Touched
  /\ call'.pc = "idle" =>
       \/ \E n \in 0 .. call.size : (call'.ret => n = call.size) /\ Content' = Updated(n)
       \/ /\ ~call'.ret
          /\ \E n \in 0 .. call.size :
               /\ n + block_size <= call.size /\ (call.start + n) % block_size = 0
               /\ Content' = Changed(n, block_size)

\* An update that goes on.
LEMMA Goes ==
  ASSUME CacheOK', CallOK', DataOK, Content' = Updated(call'.data),
         call'.start = call.start, call'.op = call.op, before' = before,
         call'.pc \notin {"idle", "read"}
  PROVE  IInv'
<1>1. before' = [a \in Bytes |-> before'[a]]
  BY DEF DataOK
<1>2. Content' = Updated(call.data)'
  BY DEF Updated, Data
<1> QED BY <1>1, <1>2 DEF IInv, DataOK

\* The block of an update that has something left to do there.
LEMMA AtBlock ==
  ASSUME NEW b \in Nat, NEW r \in 0 .. block_size - 1, b * block_size + r \in Bytes
  PROVE  b \in Blocks
  BY ByteAt, ByteIs

LEMMA PartialUpdates ==
  ASSUME IInv, call.pc \in {"first", "whole"},
         NEW offset \in Nat, NEW len \in Nat, offset + len <= block_size, offset < block_size,
         call.bb * block_size + offset = call.start + call.data,
         call.bb * block_size + offset \in Bytes,
         call.data + len <= call.size,
         Partial(call.bb, offset, len)
  PROVE  /\ CacheOK' /\ Content' = Updated(call.data + len)
         /\ len > 0 => dirty' \ dirty \subseteq Touched
<1>1. /\ call.bb \in Nat /\ call.start \in Nat /\ call.data \in Nat /\ call.size \in Nat
      /\ CacheOK /\ Content = Updated(call.data)
  BY DEF IInv, CallOK, DataOK, Calls
<1>2. call.bb \in Blocks
  <2>1. offset \in 0 .. block_size - 1
    BY Sizes
  <2> QED BY <1>1, <2>1, AtBlock
<1> DEFINE at == call.bb * block_size + offset
           value == [a \in Bytes |-> Data(call.data + a - at)]
<1>3. Got(call.bb, FALSE, Mask(offset, len), offset, offset + len, value)
  BY DEF Partial
<1>4. \A a \in Bytes : value[a] = Data(a - call.start)
  <2>1. ASSUME NEW a \in Bytes PROVE call.data + a - at = a - call.start
    <3>1. a \in Nat /\ at = call.start + call.data
      BY ByteIs
    <3> HIDE DEF at
    <3> QED BY <1>1, <3>1
  <2> QED BY <2>1
<1> HIDE DEF value, at
<1>5. Mask(offset, len) \in SUBSET WholeMask
  BY MaskInBlock
<1>6. /\ CacheOK' /\ Content' = Updated(call.data + len)
      /\ dirty' = dirty \cup {call.bb * BlockSectors + s : s \in Mask(offset, len)}
  BY <1>1, <1>2, <1>3, <1>4, <1>5, Writes
<1>7. ASSUME len > 0 PROVE dirty' \ dirty \subseteq Touched
  <2>1. len \in Nat \ {0}
    BY <1>7
  <2>2. {call.bb * BlockSectors + s : s \in Mask(offset, len)} \subseteq Touched
    BY <1>1, <2>1, TouchedBy
  <2> QED BY <1>6, <2>2
<1> QED BY <1>6, <1>7

\* A partial block that cannot be got: the sectors it touches may be dirty.
LEMMA PartialFails ==
  ASSUME IInv, call.pc \in {"first", "whole"},
         NEW offset \in Nat, NEW len \in Nat, offset + len <= block_size, offset < block_size,
         call.bb * block_size + offset = call.start + call.data,
         call.bb * block_size + offset \in Bytes,
         call.data + len <= call.size, call.size > 0 => len > 0,
         GetFails(call.bb, FALSE, Mask(offset, len))
  PROVE  UpdateStep
<1>1. /\ call.bb \in Nat /\ call.start \in Nat /\ call.data \in Nat /\ call.size \in Nat
      /\ Content = Updated(call.data)
  BY DEF IInv, CallOK, DataOK, Calls
<1>2. call.bb \in Blocks
  <2>1. offset \in 0 .. block_size - 1
    BY Sizes
  <2> QED BY <1>1, <2>1, AtBlock
<1>3. Mask(offset, len) \in SUBSET WholeMask
  BY MaskInBlock
<1>4. /\ IInv' /\ call'.ret = FALSE /\ Content' = Content
      /\ dirty' \subseteq dirty \cup {call.bb * BlockSectors + s : s \in Mask(offset, len)}
  BY <1>2, <1>3, FailsStep
<1>5. ASSUME call.size > 0 PROVE dirty' \ dirty \subseteq Touched
  <2>1. len \in Nat \ {0}
    BY <1>5
  <2>2. {call.bb * BlockSectors + s : s \in Mask(offset, len)} \subseteq Touched
    BY <1>1, <2>1, TouchedBy
  <2> QED BY <1>4, <2>2
<1>6. call.data \in 0 .. call.size
  BY <1>1
<1> QED BY <1>1, <1>4, <1>5, <1>6 DEF UpdateStep

\* A whole block that cannot be got: it may be zeroed.
LEMMA WholeFails ==
  ASSUME IInv, call.pc = "whole", call.bb \in Blocks,
         call.bb * block_size = call.start + call.data,
         call.data + block_size <= call.size,
         GetFails(call.bb, TRUE, WholeMask)
  PROVE  UpdateStep
<1>1. /\ call.bb \in Nat /\ call.start \in Nat /\ call.data \in Nat /\ call.size \in Nat
      /\ Content = Updated(call.data)
  BY DEF IInv, CallOK, DataOK, Calls
<1>2. /\ IInv' /\ call'.ret = FALSE
      /\ dirty' \subseteq dirty \cup {call.bb * BlockSectors + s : s \in WholeMask}
      /\ \/ Content' = Content
         \/ Content' = [a \in Bytes |-> IF BlockOf(a) = call.bb THEN ZeroByte ELSE Content[a]]
  <2>1. WholeMask \in SUBSET WholeMask
    OBVIOUS
  <2> QED BY <2>1, FailsStep
<1>3. /\ 0 \in Nat /\ block_size \in Nat \ {0} /\ 0 + block_size <= block_size
      /\ call.bb * block_size + 0 = call.start + call.data
  BY <1>1, Sizes
<1>4. dirty' \ dirty \subseteq Touched
  <2>1. {call.bb * BlockSectors + s : s \in Mask(0, block_size)} \subseteq Touched
    BY <1>1, <1>3, TouchedBy
  <2> QED BY <1>2, <2>1, MaskOfBlock
<1>5. call.data \in 0 .. call.size
  BY <1>1, <1>3
<1>6. CASE Content' = Content
  BY <1>1, <1>2, <1>4, <1>5, <1>6 DEF UpdateStep
<1>7. CASE Content' = [a \in Bytes |-> IF BlockOf(a) = call.bb THEN ZeroByte ELSE Content[a]]
  <2>1. (call.start + call.data) % block_size = 0
    <3> DEFINE at == call.start + call.data
    <3>1. at = call.bb * block_size + 0 /\ 0 \in 0 .. block_size - 1
      BY <1>3, Sizes
    <3> DEFINE q == call.bb
               n == block_size
    <3>2. at = q * n + 0 /\ 0 \in 0 .. n - 1 /\ q \in Nat /\ n \in Nat \ {0}
      BY <1>1, <3>1, Sizes
    <3> HIDE DEF at, q, n
    <3>3. at % n = 0
      BY <3>2, DividedIs
    <3> QED BY <3>3 DEF at, n
  <2>2. ASSUME NEW a \in Bytes
        PROVE  (IF BlockOf(a) = call.bb THEN ZeroByte ELSE Content[a])
               = IF a - call.start \in 0 .. call.data - 1 THEN Data(a - call.start)
                 ELSE IF a - call.start \in call.data .. call.data + block_size - 1
                 THEN ZeroByte ELSE before[a]
    <3>1. BlockOf(a) = call.bb <=> a - call.start \in call.data .. call.data + block_size - 1
      <4>1. BlockOf(a) = call.bb /\ a % block_size \in 0 .. 0 + block_size - 1
            <=> a - call.start \in call.data .. call.data + block_size - 1
        <5> DEFINE size == block_size
        <5>1. /\ size \in Nat /\ 0 + size <= block_size
              /\ call.bb * block_size + 0 = call.start + call.data
          BY <1>3
        <5> HIDE DEF size
        <5>2. BlockOf(a) = call.bb /\ a % block_size \in 0 .. 0 + size - 1
              <=> a - call.start \in call.data .. call.data + size - 1
          BY <1>1, <5>1, Region
        <5> QED BY <5>2 DEF size
      <4>2. a % block_size \in 0 .. 0 + block_size - 1
        BY <1>3, ByteIs
      <4> QED BY <4>1, <4>2
    <3>2. Content[a] = IF a - call.start \in 0 .. call.data - 1
                       THEN Data(a - call.start) ELSE before[a]
      BY <1>1 DEF Updated
    <3>3. a \in Nat
      BY ByteIs
    <3>4. ~(/\ a - call.start \in 0 .. call.data - 1
            /\ a - call.start \in call.data .. call.data + block_size - 1)
      BY <1>1, <1>3, <3>3
    <3> QED BY <3>1, <3>2, <3>4
  <2>3. Content' = Changed(call.data, block_size)
    BY <1>7, <2>2 DEF Changed
  <2> QED BY <1>2, <1>4, <1>5, <2>1, <2>3 DEF UpdateStep
<1> QED BY <1>2, <1>6, <1>7

LEMMA FirstBlockStep ==
  ASSUME IInv, first_block
  PROVE  UpdateStep
<1> DEFINE blen == Least(block_size - call.offset, call.len)
<1>1. /\ call.pc = "first" /\ call.offset # 0 /\ call \in Calls /\ call.op \in Updates
      /\ call.data = 0 /\ call.len = call.size /\ call.offset < block_size
      /\ call.bb * block_size + call.offset = call.start
      /\ call.start \in Bytes /\ call.start + call.size <= NrBytes /\ DataOK
  BY DEF first_block, IInv, CallOK, Position
<1>2. /\ call.offset \in Nat /\ call.len \in Nat /\ call.bb \in Nat /\ call.size \in Nat
      /\ call.start \in Nat
  BY <1>1 DEF Calls
<1>3. blen \in Nat /\ blen <= call.len /\ call.offset + blen <= block_size
      /\ (blen = call.len \/ blen = block_size - call.offset)
  BY <1>1, <1>2, Sizes DEF Least
<1>4. CASE GetFails(call.bb, FALSE, Mask(call.offset, blen))
  <2> HIDE DEF blen
  <2>1. /\ call.bb * block_size + call.offset = call.start + call.data
        /\ call.bb * block_size + call.offset \in Bytes /\ call.data + blen <= call.size
        /\ call.size > 0 => blen > 0
    BY <1>1, <1>2, <1>3, Sizes
  <2> QED BY <1>1, <1>2, <1>3, <1>4, <2>1, PartialFails
<1>5. ASSUME Partial(call.bb, call.offset, blen), UNCHANGED <<out, before>>,
             call' = IF call.len = blen THEN [Idle(TRUE) EXCEPT !.op = call.op]
                     ELSE [After(blen) EXCEPT !.pc = "whole",
                             !.be = call.bb + 1 + ((call.len - blen) \div block_size)]
      PROVE  UpdateStep
  <2> HIDE DEF blen
  <2>1. /\ CacheOK' /\ Content' = Updated(blen) /\ before' = before
        /\ blen > 0 => dirty' \ dirty \subseteq Touched
    <3>1. /\ call.bb * block_size + call.offset = call.start + call.data
          /\ call.bb * block_size + call.offset \in Bytes /\ call.data + blen <= call.size
          /\ call.data + blen = blen
      BY <1>1, <1>2, <1>3
    <3> QED BY <1>1, <1>2, <1>3, <1>5, <3>1, PartialUpdates
  <2>2. call.size > 0 => blen > 0
    BY <1>1, <1>2, <1>3, Sizes
  <2>3. CASE call.len = blen
    <3>1. call' \in Calls /\ call'.pc = "idle" /\ call'.ret = TRUE
      BY <1>1, <1>5, <2>3, IdleIs
    <3>2. blen \in 0 .. call.size /\ blen = call.size
      BY <1>1, <1>2, <1>3, <2>3
    <3> QED BY <1>1, <2>1, <2>2, <3>1, <3>2, Returned DEF UpdateStep
  <2>4. CASE call.len # blen
    <3> DEFINE rest == call.len - blen
               be == call.bb + 1 + (rest \div block_size)
    <3>1. rest \in Nat /\ be \in Nat
      <4>1. rest \in Nat
        BY <1>2, <1>3
      <4> HIDE DEF rest
      <4>2. rest \div block_size \in Nat
        BY <4>1, Sizes, Divided
      <4> QED BY <1>2, <4>1, <4>2
    <3>2. /\ call' \in Calls /\ call'.pc = "whole" /\ call'.op = call.op /\ call'.be = be
          /\ call'.start = call.start /\ call'.size = call.size /\ call'.bb = call.bb + 1
          /\ call'.len = rest /\ call'.data = blen
      <4>1. call' = [After(blen) EXCEPT !.pc = "whole", !.be = be]
        BY <1>5, <2>4
      <4>2. After(blen) = [call EXCEPT !.bb = @ + 1, !.len = rest, !.data = @ + blen]
        BY DEF After
      <4>3. call.bb + 1 \in Nat /\ call.data + blen = blen
        BY <1>1, <1>2, <1>3
      <4> DEFINE r == After(blen)
      <4> HIDE DEF rest, be
      <4>4. r = [call EXCEPT !.bb = @ + 1, !.len = rest, !.data = @ + blen]
        BY <4>2
      <4>5. call' = [r EXCEPT !.pc = "whole", !.be = be]
        BY <4>1
      <4> HIDE DEF r
      <4>6. /\ r \in Calls /\ r.op = call.op /\ r.start = call.start /\ r.size = call.size
            /\ r.bb = call.bb + 1 /\ r.len = rest /\ r.data = blen
        <5>1. call.data + blen \in Nat
          BY <1>3, <4>3
        <5>2. /\ r \in Calls /\ r.op = call.op /\ r.start = call.start /\ r.size = call.size
              /\ r.bb = call.bb + 1 /\ r.len = rest /\ r.data = call.data + blen
          BY <1>1, <3>1, <4>3, <4>4, <5>1 DEF Calls
        <5> QED BY <4>3, <5>2
      <4> QED BY <3>1, <4>5, <4>6 DEF Calls
    <3>3. blen + rest = call.size
      BY <1>1, <1>2, <1>3
    <3>4. (call.bb + 1) * block_size = call.start + blen
      <4>1. (call.bb + 1) * block_size = call.bb * block_size + block_size
            /\ call.bb * block_size \in Nat
        BY <1>2, Sizes
      <4>2. call.offset + blen = block_size
        BY <1>2, <1>3, <2>4, Sizes
      <4> DEFINE y == call.bb * block_size
                 z == (call.bb + 1) * block_size
      <4>3. z = y + block_size /\ y \in Nat /\ y + call.offset = call.start
        BY <1>1, <4>1
      <4> HIDE DEF y, z
      <4>4. z = call.start + blen
        BY <1>2, <1>3, <4>2, <4>3, Sizes
      <4> QED BY <4>4 DEF z
    <3> HIDE DEF rest
    <3>5. CallOK'
      BY <1>1, <3>2, <3>3, <3>4 DEF CallOK
    <3>6. call'.pc \notin {"idle", "read"}
      BY <3>2
    <3>7. IInv'
      BY <1>1, <2>1, <3>2, <3>5, <3>6, Goes
    <3> QED BY <2>1, <2>2, <3>6, <3>7 DEF UpdateStep
  <2> QED BY <2>3, <2>4
<1> QED BY <1>4, <1>5 DEF first_block

LEMMA NoFirstBlockStep ==
  ASSUME IInv, no_first_block
  PROVE  UpdateStep
<1>1. /\ call.pc = "first" /\ call.offset = 0 /\ call \in Calls /\ call.op \in Updates
      /\ call.data = 0 /\ call.len = call.size
      /\ call.bb * block_size + call.offset = call.start
      /\ call.start \in Bytes /\ call.start + call.size <= NrBytes /\ DataOK /\ CacheOK
      /\ Content = Updated(0)
  BY DEF no_first_block, IInv, CallOK, Position, DataOK
<1>2. call.len \in Nat /\ call.bb \in Nat /\ call.size \in Nat /\ call.start \in Nat
  BY <1>1 DEF Calls
<1>3. call' = [call EXCEPT !.pc = "whole", !.be = call.bb + (call.len \div block_size)]
  BY DEF no_first_block
<1>4. call.bb + (call.len \div block_size) \in Nat
  <2>1. call.len \div block_size \in Nat
    BY <1>2, Sizes, Divided
  <2> QED BY <1>2, <2>1
<1>5. /\ call' \in Calls /\ call'.pc = "whole" /\ call'.op = call.op
      /\ call'.be = call.bb + (call.len \div block_size) /\ call'.bb = call.bb
      /\ call'.start = call.start /\ call'.size = call.size
      /\ call'.len = call.len /\ call'.data = 0
  BY <1>1, <1>2, <1>3, <1>4 DEF Calls
<1>6. call.bb * block_size = call.start + 0 /\ 0 + call.len = call.size
  <2>1. call.bb * block_size \in Nat
    BY <1>2, Sizes
  <2> QED BY <1>1, <1>2, <2>1
<1>7. CallOK'
  BY <1>1, <1>5, <1>6 DEF CallOK
<1>8. UNCHANGED <<disk, cached, cache, dirty, out, before, calls>>
  BY DEF no_first_block
<1>9. CacheOK' /\ Content' = Content
  BY <1>1, <1>8 DEF CacheOK, Content
<1>10. IInv'
  BY <1>1, <1>5, <1>7, <1>8, <1>9, Goes
<1> QED BY <1>5, <1>8, <1>10 DEF UpdateStep

LEMMA WholeBlockStep ==
  ASSUME IInv, whole_block
  PROVE  UpdateStep
<1>1. /\ call.pc = "whole" /\ call.bb # call.be /\ call \in Calls /\ call.op \in Updates
      /\ call.data + call.len = call.size /\ call.bb * block_size = call.start + call.data
      /\ call.be = call.bb + (call.len \div block_size)
      /\ call.start \in Bytes /\ call.start + call.size <= NrBytes /\ DataOK /\ CacheOK
      /\ Content = Updated(call.data)
  BY DEF whole_block, IInv, CallOK, DataOK
<1>2. /\ call.len \in Nat /\ call.bb \in Nat /\ call.size \in Nat /\ call.start \in Nat
      /\ call.data \in Nat
  BY <1>1 DEF Calls
<1> DEFINE k == call.len \div block_size
           rest == call.len - block_size
<1>3. /\ k \in Nat \ {0} /\ call.len = k * block_size + (call.len % block_size)
      /\ call.len % block_size \in 0 .. block_size - 1
  <2>1. /\ k \in Nat /\ call.len = k * block_size + (call.len % block_size)
        /\ call.len % block_size \in 0 .. block_size - 1
    BY <1>2, Sizes, Divided
  <2>2. k # 0
    BY <1>1, <1>2
  <2> QED BY <2>1, <2>2
<1>4. block_size <= call.len /\ rest \in Nat /\ rest \div block_size = k - 1
  <2> DEFINE m == k - 1
             t == call.len % block_size
  <2>1. m \in Nat /\ t \in 0 .. block_size - 1 /\ call.len = k * block_size + t /\ k = m + 1
    BY <1>3
  <2> HIDE DEF m, t, k
  <2>2. k * block_size = m * block_size + block_size /\ m * block_size \in Nat
    BY <2>1, Sizes
  <2>3. rest = m * block_size + t /\ block_size <= call.len /\ rest \in Nat
    <3> DEFINE y == m * block_size
               z == k * block_size
    <3>1. z = y + block_size /\ y \in Nat /\ call.len = z + t
      BY <2>1, <2>2
    <3> HIDE DEF y, z
    <3>2. rest = y + t /\ block_size <= call.len /\ rest \in Nat
      BY <1>2, <2>1, <3>1, Sizes
    <3> QED BY <3>2 DEF y
  <2> HIDE DEF rest
  <2>4. rest \div block_size = m
    BY <2>1, <2>3, Sizes, DividedIs
  <2> QED BY <2>3, <2>4 DEF m
<1> HIDE DEF k
<1>5. call.bb \in Blocks
  <2>1. call.start + call.data \in Bytes
    BY <1>1, <1>2, <1>4, Sizes DEF Bytes
  <2>2. call.bb * block_size + 0 = call.start + call.data /\ 0 \in 0 .. block_size - 1
    BY <1>1, <1>2, Sizes
  <2> QED BY <1>2, <2>1, <2>2, AtBlock
<1>6. CASE GetFails(call.bb, TRUE, WholeMask)
  <2>1. call.data + block_size <= call.size
    BY <1>1, <1>2, <1>4, Sizes
  <2> QED BY <1>1, <1>5, <1>6, <2>1, WholeFails
<1>7. ASSUME Got(call.bb, TRUE, WholeMask, 0, block_size,
                 [a \in Bytes |-> Data(call.data + a - call.bb * block_size)]),
             call' = After(block_size), UNCHANGED <<out, before>>
      PROVE  UpdateStep
  <2> DEFINE value == [a \in Bytes |-> Data(call.data + a - call.bb * block_size)]
  <2>1. \A a \in Bytes : value[a] = Data(a - call.start)
    <3>1. ASSUME NEW a \in Bytes PROVE call.data + a - call.bb * block_size = a - call.start
      <4>1. a \in Nat
        BY ByteIs
      <4> QED BY <1>1, <1>2, <4>1
    <3> QED BY <3>1
  <2>2. Got(call.bb, TRUE, WholeMask, 0, block_size, value)
    BY <1>7
  <2> HIDE DEF value
  <2>3. 0 + block_size = block_size /\ 0 \in Nat /\ block_size \in Nat
    BY Sizes
  <2>4. call.bb * block_size + 0 = call.start + call.data
    BY <1>1, <1>2
  <2>5. /\ CacheOK' /\ Content' = Updated(call.data + block_size)
        /\ dirty' = dirty \cup {call.bb * BlockSectors + s : s \in WholeMask}
    <3>1. Got(call.bb, TRUE, WholeMask, 0, 0 + block_size, value) /\ 0 + block_size <= block_size
      <4>1. 0 + block_size = block_size /\ block_size <= block_size
        BY <2>3
      <4> QED BY <2>2, <4>1
    <3>2. Mask(0, block_size) \subseteq WholeMask /\ WholeMask \in SUBSET WholeMask
      BY MaskOfBlock
    <3> QED BY <1>1, <1>2, <1>5, <2>1, <2>3, <2>4, <3>1, <3>2, Writes
  <2>6. dirty' \ dirty \subseteq Touched
    <3>1. block_size \in Nat \ {0} /\ call.data + block_size <= call.size /\ 0 + block_size <= block_size
      BY <1>1, <1>2, <1>4, Sizes
    <3>2. {call.bb * BlockSectors + s : s \in Mask(0, block_size)} \subseteq Touched
      BY <1>2, <2>3, <2>4, <3>1, TouchedBy
    <3> QED BY <2>5, <3>2, MaskOfBlock
  <2>7. /\ call' \in Calls /\ call'.pc = "whole" /\ call'.op = call.op /\ call'.be = call.be
        /\ call'.start = call.start /\ call'.size = call.size /\ call'.bb = call.bb + 1
        /\ call'.len = rest /\ call'.data = call.data + block_size
    <3>1. call' = [call EXCEPT !.bb = @ + 1, !.len = rest, !.data = @ + block_size]
      BY <1>7 DEF After
    <3>2. call.bb + 1 \in Nat /\ call.data + block_size \in Nat /\ rest \in Nat
      BY <1>2, <1>4, Sizes
    <3> HIDE DEF rest
    <3> QED BY <1>1, <3>1, <3>2 DEF Calls
  <2>8. (call.bb + 1) * block_size = call.start + (call.data + block_size)
    <3> DEFINE y == call.bb * block_size
               z == (call.bb + 1) * block_size
    <3>1. z = y + block_size /\ y \in Nat /\ y = call.start + call.data
      BY <1>1, <1>2, Sizes
    <3> HIDE DEF y, z
    <3>2. z = call.start + (call.data + block_size)
      BY <1>2, <3>1, Sizes
    <3> QED BY <3>2 DEF z
  <2>9. call.data + block_size + rest = call.size
    BY <1>1, <1>2, Sizes
  <2>10. call.be = call.bb + 1 + (rest \div block_size)
    <3>1. call.be = call.bb + k /\ rest \div block_size = k - 1
      BY <1>1, <1>4 DEF k
    <3> QED BY <1>2, <1>3, <3>1
  <2> HIDE DEF rest
  <2>11. CallOK'
    BY <1>1, <2>7, <2>8, <2>9, <2>10 DEF CallOK
  <2>12. IInv'
    BY <1>1, <1>7, <2>5, <2>7, <2>11, Goes
  <2> QED BY <2>6, <2>7, <2>12 DEF UpdateStep
<1> QED BY <1>6, <1>7 DEF whole_block

LEMMA LastBlockStep ==
  ASSUME IInv, last_block
  PROVE  UpdateStep
<1>1. /\ call.pc = "whole" /\ call.bb = call.be /\ call \in Calls /\ call.op \in Updates
      /\ call.data + call.len = call.size /\ call.bb * block_size = call.start + call.data
      /\ call.be = call.bb + (call.len \div block_size)
      /\ call.start \in Bytes /\ call.start + call.size <= NrBytes /\ DataOK /\ CacheOK
      /\ Content = Updated(call.data)
  BY DEF last_block, IInv, CallOK, DataOK
<1>2. /\ call.len \in Nat /\ call.bb \in Nat /\ call.size \in Nat /\ call.start \in Nat
      /\ call.data \in Nat
  BY <1>1 DEF Calls
<1>3. call.len < block_size
  <2> DEFINE k == call.len \div block_size
             t == call.len % block_size
  <2>1. k \in Nat /\ t \in 0 .. block_size - 1 /\ call.len = k * block_size + t
    BY <1>2, Sizes, Divided
  <2>2. call.be = call.bb + k
    BY <1>1
  <2> HIDE DEF k, t
  <2>3. k = 0
    BY <1>1, <1>2, <2>1, <2>2
  <2>4. call.len = t
    BY <2>1, <2>3, Sizes
  <2> QED BY <2>1, <2>4, Sizes
<1>4. [Idle(TRUE) EXCEPT !.op = call.op] \in Calls
      /\ [Idle(TRUE) EXCEPT !.op = call.op].pc = "idle"
  BY <1>1, IdleIs
<1>5. CASE call.len = 0
  <2>1. /\ call' = [Idle(TRUE) EXCEPT !.op = call.op]
        /\ UNCHANGED <<disk, cached, cache, dirty, out, before, calls>>
    BY <1>5 DEF last_block
  <2>2. CacheOK' /\ Content' = Content
    BY <1>1, <2>1 DEF CacheOK, Content
  <2>3. IInv'
    BY <1>1, <1>4, <2>1, <2>2, Returned
  <2>4. call.size = call.data /\ call.data \in 0 .. call.size
    BY <1>1, <1>2, <1>5
  <2> QED BY <1>1, <2>1, <2>2, <2>3, <2>4 DEF UpdateStep
<1>6. ASSUME call.len # 0
      PROVE  /\ 0 \in Nat /\ 0 + call.len <= block_size /\ 0 < block_size
             /\ call.bb * block_size + 0 = call.start + call.data
             /\ call.data + call.len <= call.size /\ call.len > 0
             /\ call.start + call.data \in Bytes
  <2>1. /\ 0 \in Nat /\ 0 + call.len <= block_size /\ 0 < block_size
        /\ call.bb * block_size + 0 = call.start + call.data
        /\ call.data + call.len <= call.size /\ call.len > 0
    BY <1>1, <1>2, <1>3, <1>6, Sizes
  <2>2. call.start + call.data \in Bytes
    <3>1. /\ call.start + call.data \in Nat /\ call.data < call.size
          /\ call.start + call.size <= NrBytes /\ NrBytes \in Nat
      BY <1>1, <1>2, <2>1, Sizes
    <3> QED BY <1>2, <3>1 DEF Bytes
  <2> QED BY <2>1, <2>2
<1>7. ASSUME call.len # 0, GetFails(call.bb, FALSE, Mask(0, call.len))
      PROVE  UpdateStep
  BY <1>1, <1>2, <1>6, <1>7, PartialFails
<1>8. ASSUME call.len # 0, Partial(call.bb, 0, call.len), UNCHANGED <<out, before>>,
             call' = [Idle(TRUE) EXCEPT !.op = call.op]
      PROVE  UpdateStep
  <2>3. /\ CacheOK' /\ Content' = Updated(call.data + call.len)
        /\ call.len > 0 => dirty' \ dirty \subseteq Touched
    BY <1>1, <1>2, <1>6, <1>8, PartialUpdates
  <2>4. call.len > 0 /\ call.data + call.len \in 0 .. call.size /\ call.data + call.len = call.size
    BY <1>1, <1>2, <1>8
  <2>5. IInv'
    BY <1>1, <1>4, <1>8, <2>3, Returned
  <2> QED BY <2>3, <2>4, <2>5 DEF UpdateStep
<1> QED BY <1>5, <1>7, <1>8 DEF last_block

-----------------------------------------------------------------------------
(* Reading *)

LEMMA NothingUpdated ==
  ASSUME DataOK
  PROVE  Updated(0) = before
<1>1. \A a \in Bytes : a - call.start \notin 0 .. 0 - 1
  OBVIOUS
<1>2. Updated(0) = [a \in Bytes |-> before[a]]
  BY <1>1 DEF Updated
<1> QED BY <1>2 DEF DataOK

\* A read of n bytes more.
LEMMA ReadsOn ==
  ASSUME NEW m \in Nat, NEW n \in Nat, NEW start \in Nat, NEW f, NEW s, NEW t,
         \A i \in 1 .. m + n : start + i - 1 \in Bytes,
         s = [i \in 1 .. m |-> f[start + i - 1]],
         t = [i \in 1 .. n |-> f[start + m + i - 1]]
  PROVE  s \o t = [i \in 1 .. m + n |-> f[start + i - 1]]
<1> DEFINE S == {f[a] : a \in Bytes}
<1>1. s \in Seq(S) /\ Len(s) = m
  <2>1. \A i \in 1 .. m : f[start + i - 1] \in S
    OBVIOUS
  <2> HIDE DEF S
  <2> QED BY <2>1
<1>2. t \in Seq(S) /\ Len(t) = n
  <2>1. \A i \in 1 .. n : f[start + m + i - 1] \in S
    <3>1. ASSUME NEW i \in 1 .. n PROVE f[start + m + i - 1] \in S
      <4>1. m + i \in 1 .. m + n /\ start + (m + i) - 1 = start + m + i - 1
        OBVIOUS
      <4> QED BY <4>1
    <3> QED BY <3>1
  <2> HIDE DEF S
  <2> QED BY <2>1
<1> DEFINE u == [i \in 1 .. m + n |-> f[start + i - 1]]
<1>3. u \in Seq(S) /\ Len(u) = m + n
  <2>1. \A i \in 1 .. m + n : f[start + i - 1] \in S
    OBVIOUS
  <2>2. m + n \in Nat
    OBVIOUS
  <2> HIDE DEF S
  <2> QED BY <2>1, <2>2
<1> HIDE DEF S
<1>4. /\ s \o t \in Seq(S) /\ Len(s \o t) = m + n
      /\ \A i \in 1 .. m + n : (s \o t)[i] = IF i <= m THEN s[i] ELSE t[i - m]
  BY <1>1, <1>2, ConcatProperties
<1>5. ASSUME NEW i \in 1 .. m + n PROVE (s \o t)[i] = u[i]
  <2>1. CASE i <= m
    <3>1. i \in 1 .. m
      BY <2>1
    <3> QED BY <1>4, <2>1, <3>1
  <2>2. CASE ~(i <= m)
    <3>1. i - m \in 1 .. n /\ start + m + (i - m) - 1 = start + i - 1
      BY <2>2
    <3> QED BY <1>4, <2>2, <3>1
  <2> QED BY <2>1, <2>2
<1> HIDE DEF u
<1>6. s \o t = u
  BY <1>3, <1>4, <1>5, SeqEqual
<1> QED BY <1>6 DEF u

ReadStep ==
  /\ IInv' /\ Content' = before /\ dirty' \subseteq dirty
  /\ call'.pc = "idle" /\ call'.ret => out = Readout(call.size)

LEMMA ReadDoneStep ==
  ASSUME IInv, read_done
  PROVE  ReadStep
<1>1. /\ call.pc = "read" /\ call.bb = call.be /\ call \in Calls /\ DataOK /\ CacheOK
      /\ call' = [Idle(TRUE) EXCEPT !.op = "read"]
      /\ UNCHANGED <<disk, cached, cache, dirty, out, before, calls>>
  BY DEF read_done, IInv, CallOK
<1>2. call.data = 0 /\ call.len = 0 /\ out = Readout(call.size - call.len)
  <2>1. call.bb \in Nat
    BY <1>1 DEF Calls
  <2> QED BY <1>1, <2>1 DEF IInv, CallOK, DataOK
<1>3. call.size - call.len = call.size
  <2>1. call.size \in Nat
    BY <1>1 DEF Calls
  <2> QED BY <1>2, <2>1
<1>4. CacheOK' /\ Content' = Content
  BY <1>1 DEF CacheOK, Content
<1>5. Content = before
  BY <1>1, <1>2, NothingUpdated DEF DataOK
<1>6. call' \in Calls /\ call'.pc = "idle"
  BY <1>1, IdleIs
<1>7. IInv'
  BY <1>1, <1>4, <1>6, Returned
<1> QED BY <1>1, <1>2, <1>3, <1>4, <1>5, <1>7 DEF ReadStep

LEMMA AtMost ==
  ASSUME NEW p \in Nat, NEW q \in Nat, p <= q
  PROVE  p * block_size <= q * block_size
<1>1. p * block_size \in Nat /\ q * block_size \in Nat
  BY Sizes
<1>2. CASE p = q
  BY <1>1, <1>2
<1>3. CASE p < q
  <2>1. p * block_size + block_size <= q * block_size
    BY <1>3, Sizes, TimesMore
  <2> QED BY <1>1, <2>1, Sizes
<1> QED BY <1>2, <1>3

\* The block after a range.
LEMMA EndIs ==
  ASSUME NEW start \in Nat, NEW len \in Nat
  PROVE  /\ EndBlock(start, len) \in Nat
         /\ \A q \in Nat : /\ start + len <= q * block_size => EndBlock(start, len) <= q
                           /\ q * block_size < start + len => q < EndBlock(start, len)
                           /\ q * block_size <= start + len => q <= EndBlock(start, len)
<1> DEFINE c == start + len + block_size - 1
           e == EndBlock(start, len)
           y == e * block_size
<1>1. e \in Nat /\ y \in Nat /\ y <= c /\ start + len <= y
  <2>1. c \in Nat /\ e = c \div block_size
    BY Sizes DEF EndBlock
  <2> HIDE DEF c, e
  <2> DEFINE t == c % block_size
  <2>2. e \in Nat /\ t \in 0 .. block_size - 1 /\ c = y + t
    BY <2>1, Sizes, Divided
  <2>3. y \in Nat
    BY <2>2, Sizes
  <2> HIDE DEF t, y
  <2>4. start + len <= y
    BY <2>2, <2>3, Sizes DEF c
  <2> QED BY <2>1, <2>2, <2>3, <2>4
<1> HIDE DEF e
<1>2. ASSUME NEW q \in Nat
      PROVE  /\ start + len <= q * block_size => e <= q
             /\ q * block_size < start + len => q < e
             /\ q * block_size <= start + len => q <= e
  <2> DEFINE z == q * block_size
  <2>1. z \in Nat
    BY Sizes
  <2>2. /\ q < e => z + block_size <= y
        /\ e < q => y + block_size <= z
        /\ e = q => y = z
    BY <1>1, Sizes, TimesMore
  <2> HIDE DEF y, z
  <2>3. start + len <= z => ~(q < e)
    BY <1>1, <2>1, <2>2, Sizes
  <2>4. z < start + len => ~(e < q) /\ e # q
    BY <1>1, <2>1, <2>2, Sizes
  <2>5. z <= start + len => ~(e < q)
    BY <1>1, <2>1, <2>2, Sizes
  <2> QED BY <1>1, <2>3, <2>4, <2>5 DEF z
<1> QED BY <1>1, <1>2 DEF e

LEMMA ReadBlockStep ==
  ASSUME IInv, read_block
  PROVE  ReadStep
<1> DEFINE blen == Least(block_size - call.offset, call.len)
           m == call.size - call.len
<1>1. /\ call.pc = "read" /\ call.bb # call.be /\ call \in Calls /\ call.op = "read"
      /\ call.data = 0 /\ call.len <= call.size
      /\ call.offset < block_size /\ Position \in Bytes /\ Position = call.start + m
      /\ call.bb < call.be /\ call.be = EndBlock(Position, call.len)
      /\ call.start \in Bytes /\ call.start + call.size <= NrBytes /\ DataOK /\ CacheOK
      /\ Content = Updated(0) /\ out = Readout(m)
  BY DEF read_block, IInv, CallOK, DataOK
<1>2. /\ call.offset \in Nat /\ call.len \in Nat /\ call.bb \in Nat /\ call.size \in Nat
      /\ call.start \in Nat /\ call.be \in Nat /\ m \in Nat
  BY <1>1 DEF Calls
<1>3. blen \in Nat /\ blen <= call.len /\ call.offset + blen <= block_size
      /\ (blen = call.len \/ blen = block_size - call.offset)
  BY <1>1, <1>2, Sizes DEF Least
<1>4. Content = before
  BY <1>1, NothingUpdated
<1>9. call.bb \in Blocks
  <2>1. call.offset \in 0 .. block_size - 1
    BY <1>1, <1>2, Sizes
  <2> QED BY <1>1, <1>2, <2>1, AtBlock DEF Position
<1>5. CASE GetFails(call.bb, FALSE, {})
  <2>1. /\ IInv' /\ call'.ret = FALSE /\ Content' = Content
        /\ dirty' \subseteq dirty \cup {call.bb * BlockSectors + s : s \in {}}
    <3>1. {} \in SUBSET WholeMask
      OBVIOUS
    <3> QED BY <1>5, <1>9, <3>1, FailsStep
  <2> QED BY <1>1, <1>4, <2>1 DEF ReadStep
<1>6. ASSUME Got(call.bb, FALSE, {}, 0, 0, << >>),
             out' = out \o [n \in 1 .. blen |-> Content[call.bb * block_size + call.offset + n - 1]],
             call' = [call EXCEPT !.bb = @ + 1, !.offset = NextOffset(@), !.len = @ - blen],
             UNCHANGED before
      PROVE  ReadStep
  <2> HIDE DEF blen
  <2>1. call.bb \in Blocks
    BY <1>9
  <2>2. CacheOK' /\ Content' = Content /\ dirty' = dirty
    BY <1>1, <1>6, <2>1, Reads
  <2> DEFINE rest == call.len - blen
  <2>3. rest \in Nat /\ m + blen = call.size - rest /\ m + blen <= call.size
    BY <1>1, <1>2, <1>3
  <2>4. /\ call' \in Calls /\ call'.pc = "read" /\ call'.op = "read" /\ call'.data = 0
        /\ call'.be = call.be /\ call'.start = call.start /\ call'.size = call.size
        /\ call'.bb = call.bb + 1 /\ call'.offset = 0 /\ call'.len = rest
    <3>1. call' = [call EXCEPT !.bb = @ + 1, !.offset = 0, !.len = rest]
      BY <1>6 DEF NextOffset
    <3>2. call.bb + 1 \in Nat
      BY <1>2
    <3> HIDE DEF rest
    <3> QED BY <1>1, <2>3, <3>1, <3>2 DEF Calls
  <2>5. out' = Readout(m + blen)
    <3> DEFINE t == [i \in 1 .. blen |-> before[call.start + m + i - 1]]
    <3>1. out' = out \o t
      <4>1. call.bb * block_size + call.offset = call.start + m
        BY <1>1 DEF Position
      <4> QED BY <1>4, <1>6, <4>1
    <3>2. \A i \in 1 .. m + blen : call.start + i - 1 \in Bytes
      <4>1. NrBytes \in Nat
        BY Sizes
      <4> HIDE DEF m
      <4> QED BY <1>1, <1>2, <1>3, <2>3, <4>1 DEF Bytes
    <3>3. out = [i \in 1 .. m |-> before[call.start + i - 1]]
      BY <1>1 DEF Readout
    <3>4. t = [i \in 1 .. blen |-> before[call.start + m + i - 1]]
      OBVIOUS
    <3> HIDE DEF t, m
    <3>5. out \o t = [i \in 1 .. m + blen |-> before[call.start + i - 1]]
      <4> DEFINE start == call.start
                 f == before
                 s == out
      <4>1. /\ m \in Nat /\ blen \in Nat /\ start \in Nat
            /\ \A i \in 1 .. m + blen : start + i - 1 \in Bytes
            /\ s = [i \in 1 .. m |-> f[start + i - 1]]
            /\ t = [i \in 1 .. blen |-> f[start + m + i - 1]]
        BY <1>2, <1>3, <3>2, <3>3, <3>4
      <4> HIDE DEF start, f, s
      <4>2. s \o t = [i \in 1 .. m + blen |-> f[start + i - 1]]
        BY <4>1, ReadsOn
      <4> QED BY <4>2 DEF start, f, s
    <3> QED BY <3>1, <3>5 DEF Readout
  <2> DEFINE next == (call.bb + 1) * block_size
  <2>6. next \in Nat /\ next = Position + (block_size - call.offset) /\ Position \in Nat
    <3> DEFINE y == call.bb * block_size
    <3>1. y \in Nat /\ next = y + block_size /\ Position = y + call.offset
      BY <1>2, Sizes DEF Position
    <3> HIDE DEF y, next
    <3> QED BY <1>2, <3>1, Sizes
  <2>7. CallOK'
    <3>1. CASE rest = 0
      <4>1. Position + call.len <= next
        BY <1>1, <1>2, <1>3, <2>6, <3>1, Sizes
      <4>2. call.be <= call.bb + 1
        <5> DEFINE q == call.bb + 1
        <5>1. q \in Nat /\ Position + call.len <= q * block_size
          BY <1>2, <4>1
        <5> HIDE DEF q
        <5>2. EndBlock(Position, call.len) <= q
          BY <1>2, <2>6, <5>1, EndIs
        <5> QED BY <1>1, <5>2 DEF q
      <4>3. call'.bb = call'.be /\ call'.len = 0
        BY <1>1, <1>2, <2>4, <3>1, <4>2
      <4>4. call'.len <= call'.size
        BY <1>2, <2>4, <4>3
      <4> QED BY <1>1, <2>4, <4>3, <4>4 DEF CallOK
    <3>2. CASE rest # 0
      <4>1. blen = block_size - call.offset /\ call.offset + blen = block_size
        BY <1>2, <1>3, <3>2, Sizes
      <4>2. next = Position + blen /\ next + rest = Position + call.len
            /\ next < Position + call.len
        <5> HIDE DEF next
        <5>1. next = Position + blen
          BY <1>3, <2>6, <4>1, Sizes
        <5> QED BY <1>2, <1>3, <2>3, <2>6, <3>2, <5>1
      <4>3. call.bb + 1 < call.be
        <5> DEFINE q == call.bb + 1
        <5>1. q \in Nat /\ q * block_size < Position + call.len
          BY <1>2, <4>2
        <5> HIDE DEF q
        <5>2. q < EndBlock(Position, call.len)
          BY <1>2, <2>6, <5>1, EndIs
        <5> QED BY <1>1, <5>2 DEF q
      <4>4. call.be = EndBlock(next, rest)
        BY <1>1, <4>2 DEF EndBlock
      <4>5. next = call.start + (call.size - rest)
        BY <1>1, <1>2, <1>3, <2>3, <4>2
      <4>6. next \in Bytes
        <5>1. next + rest <= NrBytes /\ NrBytes \in Nat
          BY <1>1, <1>2, <2>3, <4>5, Sizes
        <5> HIDE DEF next
        <5> QED BY <2>3, <2>6, <3>2, <5>1 DEF Bytes
      <4>7. Position' = next
        <5>1. Position' = call'.bb * block_size + call'.offset
          BY DEF Position, block_size
        <5>2. Position' = next + 0
          BY <2>4, <5>1
        <5> HIDE DEF next
        <5> QED BY <2>6, <5>2
      <4>8. rest <= call.size /\ 0 < block_size
        BY <1>1, <1>2, <1>3, <2>3, Sizes
      <4> HIDE DEF next, rest
      <4>9. /\ call'.offset < block_size /\ Position' \in Bytes
            /\ Position' = call'.start + (call'.size - call'.len)
            /\ call'.bb < call'.be /\ call'.be = EndBlock(Position', call'.len)
        BY <2>4, <4>3, <4>4, <4>5, <4>6, <4>7, <4>8
      <4>10. call'.start \in Bytes /\ call'.start + call'.size <= NrBytes
        BY <1>1, <2>4
      <4> QED BY <2>4, <4>8, <4>9, <4>10 DEF CallOK, Bytes, EndBlock, NrBytes, block_size
    <3> QED BY <3>1, <3>2
  <2>8. DataOK'
    <3>1. before' = before /\ before' = [a \in Bytes |-> before'[a]]
      BY <1>1, <1>6 DEF DataOK
    <3>2. Content' = Updated(call.data)'
      <4>1. Content' = Updated(0)
        BY <1>1, <2>2
      <4>2. \A a \in Bytes : a - call.start \notin 0 .. 0 - 1
        OBVIOUS
      <4> QED BY <2>4, <3>1, <4>1, <4>2 DEF Updated
    <3>3. out' = Readout(call.size - call.len)'
      <4>1. call'.size - call'.len = m + blen
        BY <2>3, <2>4
      <4> QED BY <2>4, <2>5, <3>1, <4>1 DEF Readout
    <3> QED BY <3>1, <3>2, <3>3 DEF DataOK
  <2> QED BY <1>4, <2>2, <2>4, <2>7, <2>8 DEF ReadStep, IInv
<1> QED BY <1>5, <1>6 DEF read_block

-----------------------------------------------------------------------------
(* The start of a call *)

LEMMA RangeFits ==
  ASSUME NEW start \in Bytes, NEW len \in 0 .. NrBytes - start
  PROVE  /\ start \in Nat /\ len \in Nat /\ start + len <= NrBytes
         /\ (start \div block_size) .. EndBlock(start, len) - 1 \subseteq Blocks
<1>1. start \in Nat /\ len \in Nat /\ start + len <= NrBytes
  <2>1. NrBytes \in Nat
    BY Sizes
  <2> QED BY <2>1, ByteIs
<1>2. EndBlock(start, len) \in Nat /\ EndBlock(start, len) <= NrBlocks
  <2>1. NrBlocks \in Nat /\ start + len <= NrBlocks * block_size
    BY <1>1, Sizes DEF NrBytes
  <2> QED BY <1>1, <2>1, EndIs
<1>3. start \div block_size \in Nat
  BY <1>1, Sizes, Divided
<1>4. \A b \in (start \div block_size) .. EndBlock(start, len) - 1 : b \in 0 .. NrBlocks - 1
  BY <1>2, <1>3, Sizes
<1> QED BY <1>1, <1>4 DEF Blocks

\* A call that has begun.
LEMMA Starts ==
  ASSUME IInv, NEW start \in Bytes, NEW len \in 0 .. NrBytes - start,
         NEW operation \in Updates \cup {"read"}, NEW first \in {"read", "first"},
         first = "read" <=> operation = "read",
         call' = Start(operation, first, start, len), CacheOK', Content' = Content,
         out' = << >>, before' = Content
  PROVE  IInv'
<1> DEFINE bb == start \div block_size
           offset == start % block_size
           be == EndBlock(start, len)
           base == bb * block_size
<1>1. start \in Nat /\ len \in Nat /\ start + len <= NrBytes
  BY RangeFits
<1>2. /\ bb \in Nat /\ offset \in 0 .. block_size - 1 /\ start = base + offset /\ base \in Nat
      /\ offset \in Nat /\ offset < block_size
  <2>1. bb \in Nat /\ offset \in 0 .. block_size - 1 /\ start = base + offset
    BY <1>1, Sizes, Divided
  <2> HIDE DEF bb
  <2>2. base \in Nat
    BY <2>1, Sizes
  <2> QED BY <2>1, <2>2, Sizes
<1>3. be \in Nat
  BY <1>1, EndIs
<1>4. \/ bb = be /\ len = 0
      \/ bb < be
  <2> HIDE DEF be, bb, offset
  <2>1. base <= start + len /\ (len # 0 \/ offset # 0 => base < start + len)
    <3> HIDE DEF base
    <3> QED BY <1>1, <1>2
  <2>2. bb <= be /\ (base < start + len => bb < be) /\ (start + len <= base => be <= bb)
    BY <1>1, <1>2, <2>1, EndIs DEF be
  <2>3. CASE len # 0 \/ offset # 0
    BY <2>1, <2>2, <2>3
  <2>4. CASE len = 0 /\ offset = 0
    <3>1. start + len <= base
      <4> HIDE DEF base
      <4> QED BY <1>1, <1>2, <2>4
    <3> QED BY <1>2, <1>3, <2>2, <2>4, <3>1
  <2> QED BY <2>3, <2>4
<1>5. /\ call'.pc = first /\ call'.op = operation /\ call'.start = start /\ call'.size = len
      /\ call'.bb = bb /\ call'.be = be /\ call'.offset = offset /\ call'.len = len
      /\ call'.data = 0
  BY DEF Start
<1>6. call' \in Calls
  <2> HIDE DEF bb, be, offset
  <2>1. call' = [pc |-> first, op |-> operation, start |-> start, size |-> len, bb |-> bb,
                 be |-> be, offset |-> offset, len |-> len, data |-> 0, ret |-> TRUE]
    BY DEF Start, bb, be, offset
  <2>2. operation \in Updates \cup {"none", "read"} /\ TRUE \in BOOLEAN
        /\ first \in {"idle", "read", "first", "whole"} /\ 0 \in Nat
    OBVIOUS
  <2>3. bb \in Nat /\ be \in Nat /\ offset \in Nat /\ start \in Nat /\ len \in Nat
    BY <1>1, <1>2, <1>3
  <2> QED BY <2>1, <2>2, <2>3 DEF Calls
<1>7. Position' = start
  <2>1. Position' = call'.bb * block_size + call'.offset
    BY DEF Position, block_size
  <2> HIDE DEF bb, offset
  <2> QED BY <1>2, <1>5, <2>1
<1> HIDE DEF bb, be, offset
<1>8. CallOK'
  <2>1. call'.pc # "idle" => call'.start \in Bytes /\ call'.start + call'.size <= NrBytes
    BY <1>1, <1>5
  <2>2. call'.pc = "read" =>
          /\ call'.op = "read" /\ call'.data = 0 /\ call'.len <= call'.size
          /\ \/ call'.bb = call'.be /\ call'.len = 0
             \/ /\ call'.offset < block_size /\ Position' \in Bytes
                /\ Position' = call'.start + (call'.size - call'.len)
                /\ call'.bb < call'.be /\ call'.be = EndBlock(Position', call'.len)
    <3>1. start = start + (len - len) /\ len <= len
      BY <1>1
    <3> QED BY <1>2, <1>4, <1>5, <1>7, <3>1 DEF be
  <2>3. call'.pc = "first" =>
          /\ call'.op \in Updates /\ call'.data = 0 /\ call'.len = call'.size
          /\ call'.offset < block_size /\ Position' = call'.start
    BY <1>2, <1>5, <1>7
  <2>4. call'.pc # "whole"
    BY <1>5
  <2> QED BY <1>6, <2>1, <2>2, <2>3, <2>4 DEF CallOK, Bytes, EndBlock, NrBytes, block_size
<1>9. DataOK'
  <2>1. before' = [a \in Bytes |-> before'[a]]
    BY DEF Content
  <2>2. Content' = Updated(call.data)'
    <3>1. \A a \in Bytes : a - start \notin 0 .. 0 - 1
      OBVIOUS
    <3>2. Content' = [a \in Bytes |-> before'[a]]
      BY <2>1
    <3> QED BY <1>5, <3>1, <3>2 DEF Updated
  <2>3. out' = Readout(call.size - call.len)'
    <3>1. call'.size - call'.len = 0 /\ 1 .. 0 = {}
      BY <1>1, <1>5
    <3>2. Readout(call.size - call.len)' = [i \in 1 .. 0 |-> before'[call'.start + i - 1]]
      BY <3>1 DEF Readout
    <3> QED BY <3>1, <3>2
  <2> QED BY <2>1, <2>2, <2>3 DEF DataOK
<1> QED BY <1>8, <1>9 DEF IInv

\* A step that leaves the call alone.
LEMMA CallKept ==
  ASSUME IInv, CacheOK', Content' = Content, UNCHANGED <<call, out, before>>
  PROVE  IInv'
<1>1. CallOK'
  BY DEF IInv, CallOK, Position, EndBlock, Bytes, NrBytes, block_size
<1>2. DataOK'
  BY DEF IInv, DataOK, Updated, Data, Readout
<1> QED BY <1>1, <1>2 DEF IInv

LEMMA CacheStep ==
  ASSUME IInv, Cache
  PROVE  IInv' /\ Content' = Content /\ dirty' \subseteq dirty /\ UNCHANGED call
<1>1. PICK b \in Blocks : writeback(b) \/ evict(b)
  BY DEF Cache
<1>2. CacheOK' /\ Content' = Content /\ dirty' \subseteq dirty
  BY <1>1, WritebackKeeps, EvictKeeps DEF IInv
<1>3. UNCHANGED <<call, out, before>>
  BY <1>1 DEF writeback, evict
<1> QED BY <1>2, <1>3, CallKept

LEMMA ClientStep ==
  ASSUME IInv, Client
  PROVE  IInv' /\ call.pc = "idle"
<1>0. PICK start \in Bytes : \E len \in 0 .. NrBytes - start :
         \/ io_prefetch_bytes(start, len)
         \/ io_read_bytes(start, len)
         \/ \E operation \in Updates : update_bytes(operation, start, len)
  BY DEF Client
<1>1. PICK len \in 0 .. NrBytes - start :
         \/ io_prefetch_bytes(start, len)
         \/ io_read_bytes(start, len)
         \/ \E operation \in Updates : update_bytes(operation, start, len)
  BY <1>0
<1>2. CASE io_prefetch_bytes(start, len)
  <2>1. /\ Prefetched(start \div block_size, EndBlock(start, len))
        /\ UNCHANGED <<call, out, before>> /\ call.pc = "idle"
    BY <1>2 DEF io_prefetch_bytes
  <2>2. CacheOK' /\ Content' = Content
    BY <2>1, RangeFits, PrefetchKeeps DEF IInv
  <2> QED BY <2>1, <2>2, CallKept
<1>3. CASE io_read_bytes(start, len)
  <2>1. /\ call' = Start("read", "read", start, len) /\ Prefetched(call'.bb, call'.be)
        /\ out' = << >> /\ before' = Content /\ call.pc = "idle"
    BY <1>3 DEF io_read_bytes
  <2>2. call'.bb = start \div block_size /\ call'.be = EndBlock(start, len)
    BY <2>1 DEF Start
  <2>3. CacheOK' /\ Content' = Content
    <3>1. Prefetched(start \div block_size, EndBlock(start, len))
      BY <2>1, <2>2 DEF Prefetched
    <3> QED BY <3>1, RangeFits, PrefetchKeeps DEF IInv
  <2> QED BY <2>1, <2>3, Starts
<1>4. CASE \E operation \in Updates : update_bytes(operation, start, len)
  <2>1. PICK operation \in Updates : update_bytes(operation, start, len)
    BY <1>4
  <2> DEFINE e == start + len
             b == e \div block_size
  <2>2. /\ call' = Start(operation, "first", start, len)
        /\ IF e % block_size # 0 THEN Prefetched(b, b + 1)
           ELSE UNCHANGED <<disk, cached, cache, dirty>>
        /\ out' = << >> /\ before' = Content /\ call.pc = "idle"
    BY <2>1 DEF update_bytes
  <2>3. CacheOK' /\ Content' = Content
    <3>1. CASE e % block_size # 0
      <4>1. e \in Nat /\ e <= NrBytes /\ NrBytes \in Nat
        BY RangeFits, Sizes
      <4>2. e # NrBytes
        <5>1. NrBytes = NrBlocks * block_size + 0 /\ 0 \in 0 .. block_size - 1 /\ NrBlocks \in Nat
          BY <4>1, Sizes DEF NrBytes
        <5> DEFINE n == NrBytes
        <5> HIDE DEF n
        <5>2. n = NrBlocks * block_size + 0
          BY <5>1 DEF n
        <5>3. n \div block_size = NrBlocks /\ n % block_size = 0
          BY <5>1, <5>2, Sizes, DividedIs
        <5> QED BY <3>1, <5>3 DEF n
      <4>3. e \in Bytes
        BY <4>1, <4>2 DEF Bytes
      <4>4. b \in Blocks
        BY <4>3, ByteIs DEF BlockOf
      <4> HIDE DEF b
      <4>5. b .. (b + 1) - 1 \subseteq Blocks
        <5>1. b \in Nat
          BY <4>4, Sizes DEF Blocks
        <5>2. b .. (b + 1) - 1 = {b}
          BY <5>1
        <5> QED BY <4>4, <5>2
      <4> QED BY <2>2, <3>1, <4>5, PrefetchKeeps DEF IInv
    <3>2. CASE ~(e % block_size # 0)
      <4>1. UNCHANGED <<disk, cached, cache, dirty>>
        BY <2>2, <3>2
      <4> QED BY <4>1 DEF IInv, CacheOK, Content
    <3> QED BY <3>1, <3>2
  <2>4. operation # "read"
    BY DEF Updates
  <2> QED BY <2>2, <2>3, <2>4, Starts
<1> QED BY <1>1, <1>2, <1>3, <1>4

-----------------------------------------------------------------------------
(* The theorems *)

LEMMA InitInv == Init => IInv
<1> SUFFICES ASSUME Init PROVE IInv
  OBVIOUS
<1>1. CacheOK
  <2>1. ASSUME NEW a \in Bytes PROVE BlockOf(a) \in Blocks /\ SectorOf(a) \in Sectors
    <3>1. BlockOf(a) \in Blocks /\ a % block_size \in 0 .. block_size - 1
          /\ a = BlockOf(a) * block_size + (a % block_size) /\ BlockOf(a) \in Nat
      BY ByteIs DEF Blocks
    <3> DEFINE b == BlockOf(a)
               s == (a % block_size) \div SectorBytes
    <3>2. SectorOf(a) = b * BlockSectors + s /\ s \in WholeMask
      BY <3>1, SectorIs
    <3>3. b \in Nat /\ b + 1 <= NrBlocks
      BY <3>1, Sizes DEF Blocks
    <3> HIDE DEF b, s
    <3>4. b * BlockSectors + BlockSectors <= NrBlocks * BlockSectors
      <4>1. b < NrBlocks
        BY <3>3, Sizes
      <4> QED BY <3>3, <4>1, Sizes, TimesMore
    <3>5. s \in Nat /\ s < BlockSectors
      BY <3>2, Sizes DEF WholeMask
    <3>6. b * BlockSectors \in Nat /\ NrBlocks * BlockSectors \in Nat
      BY <3>3, Sizes
    <3>7. b * BlockSectors + s \in 0 .. NrBlocks * BlockSectors - 1
      BY <3>4, <3>5, <3>6, Sizes
    <3> QED BY <3>1, <3>2, <3>7 DEF Sectors
  <2> QED BY <2>1 DEF Init, CacheOK
<1>2. CallOK
  BY IdleIs DEF Init, CallOK
<1>3. DataOK
  BY IdleIs DEF Init, DataOK
<1> QED BY <1>1, <1>2, <1>3 DEF IInv

\* What the steps of a call do.
LEMMA Steps ==
  ASSUME IInv, Step
  PROVE  \/ call.pc \in {"first", "whole"} /\ call.op \in Updates /\ UpdateStep
         \/ call.pc = "read" /\ call.op = "read" /\ ReadStep
<1>1. CASE read_block \/ read_done
  <2>1. call.pc = "read" /\ call.op = "read"
    BY <1>1 DEF read_block, read_done, IInv, CallOK
  <2> QED BY <1>1, <2>1, ReadBlockStep, ReadDoneStep
<1>2. CASE first_block \/ no_first_block \/ whole_block \/ last_block
  <2>1. call.pc \in {"first", "whole"} /\ call.op \in Updates
    BY <1>2 DEF first_block, no_first_block, whole_block, last_block, IInv, CallOK
  <2> QED BY <1>2, <2>1, FirstBlockStep, NoFirstBlockStep, WholeBlockStep, LastBlockStep
<1> QED BY <1>1, <1>2 DEF Step

LEMMA NextInv == IInv /\ [Next]_vars => IInv'
<1> SUFFICES ASSUME IInv, [Next]_vars PROVE IInv'
  OBVIOUS
<1>1. CASE Cache
  BY <1>1, CacheStep
<1>2. CASE Step
  BY <1>2, Steps DEF UpdateStep, ReadStep
<1>3. CASE Client
  BY <1>3, ClientStep
<1>4. CASE UNCHANGED vars
  <2>1. UNCHANGED <<disk, cached, cache, dirty, call, out, before>>
    BY <1>4 DEF vars
  <2>2. CacheOK' /\ Content' = Content
    BY <2>1 DEF IInv, CacheOK, Content
  <2> QED BY <2>1, <2>2, CallKept
<1> QED BY <1>1, <1>2, <1>3, <1>4 DEF Next

LEMMA Invariance == Spec => []IInv
<1>1. IInv /\ [Next]_vars => IInv'
  BY NextInv
<1> QED BY <1>1, InitInv, PTL DEF Spec

\* Writing back and evicting changes nothing a client can read: no sector that
\* an update has changed is left out of the mask of a get.
THEOREM CacheHides == Spec => CacheInvisible
<1>1. IInv /\ [Next]_vars => [Cache => Content' = Content]_vars
  BY CacheStep
<1> QED BY <1>1, Invariance, PTL DEF Spec, CacheInvisible

\* The masks have no sector that the range of the call does not touch.
THEOREM MasksAreTight == Spec => OnlyTouchedDirty
<1>1. IInv /\ [Next]_vars =>
        [call.pc # "idle" /\ call.size > 0 =>
           dirty' \ dirty \subseteq
             {SectorOf(a) : a \in call.start .. call.start + call.size - 1}]_vars
  <2> SUFFICES ASSUME IInv, Next, call.pc # "idle", call.size > 0
               PROVE  dirty' \ dirty \subseteq Touched
    BY DEF Touched
  <2>1. CASE Cache
    BY <2>1, CacheStep
  <2>2. CASE Step
    BY <2>2, Steps DEF UpdateStep, ReadStep
  <2>3. CASE Client
    BY <2>3, ClientStep
  <2> QED BY <2>1, <2>2, <2>3 DEF Next
<1> QED BY <1>1, Invariance, PTL DEF Spec, OnlyTouchedDirty

\* An update that succeeds has changed the bytes of its range and no others,
\* each to the right value; one that fails, a part of them from the start, and
\* at most the block after that is zeroed.
THEOREM UpdatesAreExact == Spec => UpdateExact
<1>1. IInv /\ [Next]_vars =>
        [Returns /\ call.op \in Updates =>
           \E n \in 0 .. call.size, lost \in {0, block_size} :
             /\ n + lost <= call.size
             /\ call'.ret => n = call.size
             /\ lost # 0 => (call.start + n) % block_size = 0
             /\ Content' = Changed(n, lost)]_vars
  <2> SUFFICES ASSUME IInv, Next, Returns, call.op \in Updates
               PROVE  \E n \in 0 .. call.size, lost \in {0, block_size} :
                        /\ n + lost <= call.size
                        /\ call'.ret => n = call.size
                        /\ lost # 0 => (call.start + n) % block_size = 0
                        /\ Content' = Changed(n, lost)
    OBVIOUS
  <2>1. call.pc # "idle" /\ call'.pc = "idle" /\ call.size \in Nat
    BY DEF Returns, IInv, CallOK, Calls
  <2>2. CASE Cache
    BY <2>1, <2>2, CacheStep
  <2>3. CASE Step
    <3>1. call.op # "read"
      BY DEF Updates
    <3>2. UpdateStep
      BY <2>3, <3>1, Steps
    <3>3. CASE \E n \in 0 .. call.size : (call'.ret => n = call.size) /\ Content' = Updated(n)
      <4>1. PICK n \in 0 .. call.size : (call'.ret => n = call.size) /\ Content' = Updated(n)
        BY <3>3
      <4>2. n + 0 <= call.size /\ \A i : i \notin n .. n + 0 - 1
        BY <2>1
      <4>3. Changed(n, 0) = Updated(n)
        BY <4>2 DEF Changed, Updated
      <4> QED BY <4>1, <4>2, <4>3
    <3>4. CASE /\ ~call'.ret
               /\ \E n \in 0 .. call.size :
                    /\ n + block_size <= call.size /\ (call.start + n) % block_size = 0
                    /\ Content' = Changed(n, block_size)
      BY <3>4
    <3> QED BY <2>1, <3>2, <3>3, <3>4 DEF UpdateStep
  <2>4. CASE Client
    BY <2>1, <2>4, ClientStep
  <2> QED BY <2>2, <2>3, <2>4 DEF Next
<1> QED BY <1>1, Invariance, PTL DEF Spec, UpdateExact

\* A read that succeeds returns the bytes of its range in order, and no read
\* changes anything.
THEOREM ReadsAreExact == Spec => ReadExact
<1>1. IInv /\ [Next]_vars =>
        [Returns /\ call.op = "read" =>
           /\ call'.ret => out = [n \in 1 .. call.size |-> before[call.start + n - 1]]
           /\ Content' = before]_vars
  <2> SUFFICES ASSUME IInv, Next, Returns, call.op = "read"
               PROVE  (call'.ret => out = Readout(call.size)) /\ Content' = before
    BY DEF Readout
  <2>1. call.pc # "idle" /\ call'.pc = "idle"
    BY DEF Returns
  <2>2. CASE Cache
    BY <2>1, <2>2, CacheStep
  <2>3. CASE Step
    <3>1. call.op \notin Updates
      BY DEF Updates
    <3> QED BY <2>1, <2>3, <3>1, Steps DEF ReadStep
  <2>4. CASE Client
    BY <2>1, <2>4, ClientStep
  <2> QED BY <2>2, <2>3, <2>4 DEF Next
<1> QED BY <1>1, Invariance, PTL DEF Spec, ReadExact
=============================================================================
