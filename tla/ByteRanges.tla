----------------------------- MODULE ByteRanges -----------------------------
(***************************************************************************)
(* Reading and updating ranges of bytes of a device, on top of the block   *)
(* cache (io/io-manager-utils.c).  A range is cut into a partial first     *)
(* block, whole blocks and a partial last block; partial blocks are read   *)
(* and marked dirty where they change, whole blocks are not read.          *)
(*                                                                         *)
(* Of the block cache, this module has what module BlockCache checks of    *)
(* it: a block that is got holds the device's last data; a block may be    *)
(* evicted at any time it is not held and not dirty; a writeback saves the *)
(* dirty sectors, and no others.  So bytes that are changed without their  *)
(* sectors being marked are lost when the block is evicted.                *)
(*                                                                         *)
(* A byte of a device is a number; every byte has its own value at first   *)
(* and every byte of the data written another, so that a byte that lands   *)
(* in the wrong place shows.                                               *)
(***************************************************************************)

EXTENDS Integers, Sequences

CONSTANTS
  SectorBytes, BlockSectors, NrBlocks,
  MaxCalls,               \* bound on the calls made
  Faults                  \* \subseteq {"get"}

ASSUME GeometryAssumption ==
  /\ SectorBytes \in Nat \ {0} /\ BlockSectors \in Nat \ {0} /\ NrBlocks \in Nat \ {0}
  /\ MaxCalls \in Nat /\ Faults \subseteq {"get"}

block_size == SectorBytes * BlockSectors
NrBytes == NrBlocks * block_size
Bytes == 0 .. NrBytes - 1
Sectors == 0 .. NrBlocks * BlockSectors - 1
Blocks == 0 .. NrBlocks - 1

BlockOf(a) == a \div block_size
SectorOf(a) == a \div SectorBytes
SectorsOf(b) == b * BlockSectors .. (b + 1) * BlockSectors - 1

VARIABLES
  disk,           \* the bytes of the device
  cached, cache,  \* the blocks in the cache, and what it has of every byte
  dirty,          \* the sectors marked dirty
  call,           \* the call in progress
  out,            \* what the call has read
  before,         \* the device's bytes when the call began
  calls           \* the calls made

vars == <<disk, cached, cache, dirty, call, out, before, calls>>

Updates == {"write", "zero", "set"}
ZeroByte == -1
SetByte == -2

\* Every cached block was updated earlier, and the disk has older data.
Current(a) == 100 + a
Older(a) == 200 + a

Idle(ret) ==
  [pc |-> "idle", op |-> "none", start |-> 0, size |-> 0, bb |-> 0, be |-> 0,
   offset |-> 0, len |-> 0, data |-> 0, ret |-> ret]

Init ==
  /\ disk = [a \in Bytes |-> Older(a)]
  /\ cached = Blocks
  /\ cache = [a \in Bytes |-> Current(a)]
  /\ dirty = Sectors
  /\ call = Idle(TRUE)
  /\ out = << >>
  /\ before = [a \in Bytes |-> Current(a)]
  /\ calls = 0

-----------------------------------------------------------------------------
(* The block cache *)

\* What a client reads at a byte of the device.
Content == [a \in Bytes |-> IF BlockOf(a) \in cached THEN cache[a] ELSE disk[a]]

\* A block gets from its dirty sectors to the disk.
writeback(b) ==
  /\ SectorsOf(b) \cap dirty # {}
  /\ disk' = [a \in Bytes |-> IF SectorOf(a) \in SectorsOf(b) \cap dirty
                              THEN cache[a] ELSE disk[a]]
  /\ dirty' = dirty \ SectorsOf(b)
  /\ UNCHANGED <<cached, cache, call, out, before, calls>>

evict(b) ==
  /\ b \in cached /\ SectorsOf(b) \cap dirty = {}
  /\ cached' = cached \ {b}
  /\ cache' = [a \in Bytes |-> IF BlockOf(a) = b THEN 0 ELSE cache[a]]
  /\ UNCHANGED <<disk, dirty, call, out, before, calls>>

\* A get of block b in which the caller changes the bytes in [from, to) of the
\* block to those of `value', and of which the sectors in `mask' are dirty.
\* When the block is zeroed, it is not read.
Got(b, zeroed, mask, from, to, value) ==
  LET changed(a) == BlockOf(a) = b /\ a % block_size \in from .. to - 1
  IN /\ cached' = cached \cup {b}
     /\ cache' = [a \in Bytes |->
                    IF changed(a) THEN value[a]
                    ELSE IF BlockOf(a) # b THEN cache[a]
                    ELSE IF zeroed THEN ZeroByte ELSE Content[a]]
     /\ dirty' = dirty \cup {b * BlockSectors + s : s \in mask}
     /\ UNCHANGED <<disk, calls>>

WholeMask == 0 .. BlockSectors - 1

\* A get that is refused, or of a block that cannot be read, has changed
\* nothing.  But io_get_block_mask looks at the error of a block last: when the
\* last writeback of a dirty block has failed, the sectors in `mask' are dirty
\* by then, and the block is zeroed if that was asked for.
GetFails(b, zeroed, mask) ==
  /\ "get" \in Faults
  /\ call' = Idle(FALSE)
  /\ \/ UNCHANGED <<disk, cached, cache, dirty, calls>>
     \/ SectorsOf(b) \cap dirty # {} /\ Got(b, zeroed, mask, 0, 0, << >>)
  /\ UNCHANGED <<out, before>>

\* Some of the blocks [bb, be) are prefetched: the cache may ignore it.
Prefetched(bb, be) ==
  /\ \E some \in SUBSET ((bb .. be - 1) \ cached) :
       /\ cached' = cached \cup some
       /\ cache' = [a \in Bytes |-> IF BlockOf(a) \in some THEN disk[a] ELSE cache[a]]
  /\ UNCHANGED <<disk, dirty>>

-----------------------------------------------------------------------------
(* The start of a call *)

\* byte_range_to_block_range
EndBlock(start, len) == (start + len + block_size - 1) \div block_size

Least(a, b) == IF b < a THEN b ELSE a

Start(operation, first, start, len) ==
  [pc |-> first, op |-> operation, start |-> start, size |-> len,
   bb |-> start \div block_size, be |-> EndBlock(start, len),
   offset |-> start % block_size, len |-> len, data |-> 0, ret |-> TRUE]

io_prefetch_bytes(start, len) ==
  /\ call.pc = "idle" /\ calls < MaxCalls
  /\ calls' = calls + 1
  /\ Prefetched(start \div block_size, EndBlock(start, len))
  /\ UNCHANGED <<call, out, before>>

io_read_bytes(start, len) ==
  /\ call.pc = "idle" /\ calls < MaxCalls
  /\ calls' = calls + 1
  /\ call' = Start("read", "read", start, len)
  /\ Prefetched(call'.bb, call'.be)
  /\ out' = << >> /\ before' = Content

\* io_write_bytes, io_zero_bytes, io_set_bytes: _update_bytes prefetches the
\* last block if it is partial.
update_bytes(operation, start, len) ==
  /\ call.pc = "idle" /\ calls < MaxCalls
  /\ calls' = calls + 1
  /\ call' = Start(operation, "first", start, len)
  /\ LET e == start + len
     IN IF e % block_size # 0
        THEN Prefetched(e \div block_size, e \div block_size + 1)
        ELSE UNCHANGED <<disk, cached, cache, dirty>>
  /\ out' = << >> /\ before' = Content

-----------------------------------------------------------------------------
(* io_read_bytes *)

NextOffset_kept(offset) == offset
NextOffset(offset) == 0

read_block ==
  LET blen == Least(block_size - call.offset, call.len)
      from == call.bb * block_size + call.offset
  IN /\ call.pc = "read" /\ call.bb # call.be
     /\ \/ /\ Got(call.bb, FALSE, {}, 0, 0, << >>)
           /\ out' = out \o [n \in 1 .. blen |-> Content[from + n - 1]]
           /\ call' = [call EXCEPT !.bb = @ + 1, !.offset = NextOffset(@),
                                   !.len = @ - blen]
           /\ UNCHANGED before
        \/ GetFails(call.bb, FALSE, {})

read_done ==
  /\ call.pc = "read" /\ call.bb = call.be
  /\ call' = [Idle(TRUE) EXCEPT !.op = "read"]
  /\ UNCHANGED <<disk, cached, cache, dirty, out, before, calls>>

-----------------------------------------------------------------------------
(* _update_bytes *)

\* The n-th byte of what the caller writes.
Data(n) == CASE call.op = "write" -> n
             [] call.op = "zero" -> ZeroByte
             [] call.op = "set" -> SetByte

\* _region_to_mask: the sectors of a block that the region touches.
Mask_rounded_down(offset, len) ==
  offset \div SectorBytes .. (offset + len) \div SectorBytes - 1
Mask_whole(offset, len) == WholeMask
Mask(offset, len) ==
  offset \div SectorBytes .. (offset + len + SectorBytes - 1) \div SectorBytes - 1

\* _write_partial, _zero_partial, _set_partial
Partial(b, offset, len) ==
  Got(b, FALSE, Mask(offset, len), offset, offset + len,
      [a \in Bytes |-> Data(call.data + a - (b * block_size + offset))])

\* What is left of a call when n bytes of it are done.
After_same_data(n) == [call EXCEPT !.bb = @ + 1, !.len = @ - n]
After(n) == [call EXCEPT !.bb = @ + 1, !.len = @ - n, !.data = @ + n]

\* The first block may be partial.
first_block ==
  LET blen == Least(block_size - call.offset, call.len)
  IN /\ call.pc = "first" /\ call.offset # 0
     /\ \/ /\ Partial(call.bb, call.offset, blen)
           /\ call' = IF call.len = blen THEN [Idle(TRUE) EXCEPT !.op = call.op]
                      ELSE [After(blen) EXCEPT !.pc = "whole",
                              !.be = call.bb + 1 + (call.len - blen) \div block_size]
           /\ UNCHANGED <<out, before>>
        \/ GetFails(call.bb, FALSE, Mask(call.offset, blen))

no_first_block ==
  /\ call.pc = "first" /\ call.offset = 0
  /\ call' = [call EXCEPT !.pc = "whole", !.be = call.bb + call.len \div block_size]
  /\ UNCHANGED <<disk, cached, cache, dirty, out, before, calls>>

\* _write_whole, _zero_whole, _set_whole: "we don't need to read the block
\* since we are overwriting it completely".
whole_block ==
  /\ call.pc = "whole" /\ call.bb # call.be
  /\ \/ /\ Got(call.bb, TRUE, WholeMask, 0, block_size,
               [a \in Bytes |-> Data(call.data + a - call.bb * block_size)])
        /\ call' = After(block_size)
        /\ UNCHANGED <<out, before>>
     \/ GetFails(call.bb, TRUE, WholeMask)

last_block ==
  /\ call.pc = "whole" /\ call.bb = call.be
  /\ IF call.len = 0
     THEN /\ call' = [Idle(TRUE) EXCEPT !.op = call.op]
          /\ UNCHANGED <<disk, cached, cache, dirty, out, before, calls>>
     ELSE \/ /\ Partial(call.bb, 0, call.len)
             /\ call' = [Idle(TRUE) EXCEPT !.op = call.op]
             /\ UNCHANGED <<out, before>>
          \/ GetFails(call.bb, FALSE, Mask(0, call.len))

-----------------------------------------------------------------------------
Cache == \E b \in Blocks : writeback(b) \/ evict(b)

Step ==
  \/ read_block \/ read_done
  \/ first_block \/ no_first_block \/ whole_block \/ last_block

Client ==
  \E start \in Bytes : \E len \in 0 .. NrBytes - start :
    \/ io_prefetch_bytes(start, len)
    \/ io_read_bytes(start, len)
    \/ \E operation \in Updates : update_bytes(operation, start, len)

Next == Cache \/ Step \/ Client

Spec == Init /\ [][Next]_vars

-----------------------------------------------------------------------------
(* Properties *)

Returns == call.pc # "idle" /\ call'.pc = "idle"

\* The device when the first n bytes of an update are done and the `lost' bytes
\* after them are zeroed.
Changed(n, lost) ==
  [a \in Bytes |-> LET i == a - call.start
                  IN IF i \in 0 .. n - 1 THEN Data(i)
                     ELSE IF i \in n .. n + lost - 1 THEN ZeroByte ELSE before[a]]

\* An update changes the bytes of its range, each to the right value, and no
\* others.  One that fails has changed the first n of them, and may have zeroed
\* the block that comes next, if all of it is in the range.
UpdateExact ==
  [][Returns /\ call.op \in Updates =>
       \E n \in 0 .. call.size, lost \in {0, block_size} :
         /\ n + lost <= call.size
         /\ call'.ret => n = call.size
         /\ lost # 0 => (call.start + n) % block_size = 0
         /\ Content' = Changed(n, lost)]_vars

\* A read returns the bytes of its range, in order, and changes nothing.
ReadExact ==
  [][Returns /\ call.op = "read" =>
       /\ call'.ret => out = [n \in 1 .. call.size |-> before[call.start + n - 1]]
       /\ Content' = before]_vars

\* Writing back and evicting never changes what a client reads: every sector
\* an update has changed is marked dirty.
CacheInvisible == [][Cache => Content' = Content]_vars

\* "The mask is used to specify which sectors should be written"
\* (io_get_block_mask): an update has no sector written but those it touches.
OnlyTouchedDirty ==
  [][call.pc # "idle" /\ call.size > 0 =>
       dirty' \ dirty \subseteq
         {SectorOf(a) : a \in call.start .. call.start + call.size - 1}]_vars
=============================================================================
