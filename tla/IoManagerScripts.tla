--------------------------- MODULE IoManagerScripts ---------------------------
(***************************************************************************)
(* The tests of unit-tests/io-manager_t.c as scripts: the calls of the io  *)
(* manager each makes, with the results it asserts, and between them the   *)
(* calls of the io engine it tells the mock engine to expect.  A script is *)
(* a sequence of steps; module IoManagerTests runs them.                   *)
(*                                                                         *)
(* Paths are numbered, and io_devs and blocks are named by the order the   *)
(* test uses them in.  A sector is 512 bytes; a block has 64 of them.      *)
(***************************************************************************)

EXTENDS Integers, SequencesExt

nr_sectors == 64
T_BLOCK_SIZE == nr_sectors * 512
SMALL_MAX_CACHE_DEVS == 4
nr_cache_blocks == 16

Whole == 0 .. nr_sectors - 1
AnyArgs == [match_args |-> FALSE]

-----------------------------------------------------------------------------
(* Expectations.  h is the io_dev whose fd is expected.                      *)

Expectation(method, args, issue, wait) ==
  [do |-> "expect",
   call |-> [m |-> method, args |-> args, issue_r |-> issue, wait_r |-> wait]]

_expect(method) == Expectation(method, AnyArgs, TRUE, TRUE)
_expect_open(flags) == Expectation("open", [flags |-> flags], TRUE, TRUE)
_expect_get_size(h, r) == Expectation("get_size", [h |-> h], r, TRUE)

\* Sectors sb up to se of the device.
Io(h, d, sb, se) ==
  [h |-> h, d |-> d, b |-> sb \div nr_sectors,
   secs |-> {s % nr_sectors : s \in sb .. se - 1}]
_set_block(h, d, b) == Io(h, d, b * nr_sectors, (b + 1) * nr_sectors)

_expect_read_any == _expect("issue")
_expect_read(h, b) == Expectation("issue", _set_block(h, "read", b), TRUE, TRUE)
_expect_write(h, b) == Expectation("issue", _set_block(h, "write", b), TRUE, TRUE)
_expect_partial_write(h, sb, se) ==
  Expectation("issue", Io(h, "write", sb, se), TRUE, TRUE)
_expect_read_bad_issue(h, b) ==
  Expectation("issue", _set_block(h, "read", b), FALSE, TRUE)
_expect_read_bad_wait(h, b) ==
  Expectation("issue", _set_block(h, "read", b), TRUE, FALSE)
_expect_write_bad_issue(h, b) ==
  Expectation("issue", _set_block(h, "write", b), FALSE, TRUE)
_expect_write_bad_wait(h, b) ==
  Expectation("issue", _set_block(h, "write", b), TRUE, FALSE)
_expect_partial_write_bad_issue(h, sb, se) ==
  Expectation("issue", Io(h, "write", sb, se), FALSE, TRUE)
_expect_partial_write_bad_wait(h, sb, se) ==
  Expectation("issue", Io(h, "write", sb, se), TRUE, FALSE)

_no_outstanding_expectations == [do |-> "none_outstanding"]

-----------------------------------------------------------------------------
(* Calls.  The last argument, where there is one, is the result asserted.    *)

EF(ro, excl) == [ro |-> ro, excl |-> excl]
None == EF(FALSE, FALSE)

GetDev(h, path, flags) == [do |-> "get_dev", h |-> h, path |-> path, flags |-> flags]
HasDev(h, ok) == [do |-> "has_dev", h |-> h, ok |-> ok]
PutDev(h) == [do |-> "put_dev", h |-> h]
GetMask(h, b, type, mask, ok) ==
  [do |-> "get", h |-> h, b |-> b, m |-> [type |-> type, mask |-> mask], ok |-> ok]
Get(h, b, type, ok) == GetMask(h, b, type, IF type = "read" THEN {} ELSE Whole, ok)
Put(h, b) == [do |-> "put", h |-> h, b |-> b]
Prefetch(h, b) == [do |-> "prefetch", h |-> h, b |-> b]
Flush(ok) == [do |-> "flush", ok |-> ok]
Invalidate(h, b, ok) == [do |-> "invalidate", h |-> h, b |-> b, ok |-> ok]
InvalidateDev(h) == [do |-> "invalidate_dev", h |-> h, b |-> 0]
DevSize(h, ok) == [do |-> "dev_size", h |-> h, ok |-> ok]
Create(sectors, frames, ok) ==
  [do |-> "create", sectors |-> sectors, frames |-> frames, ok |-> ok]

Times(n, steps) == FlattenSeq([i \in 1 .. n |-> steps])
Expected(n, method) == Times(n, <<_expect(method)>>)
GetPut(h, b, type) == <<Get(h, b, type, TRUE), Put(h, b)>>
ZeroMask(b, mask) == <<GetMask(0, b, "zero", mask, TRUE), Put(0, b)>>
ReadWait(h, b) == <<_expect_read(h, b), _expect("wait")>>

\* Most tests use one device, number 0.
Opens(h) == <<_expect("open"), GetDev(h, h, None)>>
Closes(h) == <<_expect("close"), PutDev(h)>>
OneDev(steps) == Opens(0) \o steps \o Closes(0)

\* io_zero_bytes and io_write_bytes: the calls _update_bytes makes.
_region_to_mask(offset, len) == offset \div 512 .. (offset + len + 511) \div 512 - 1
Partial(b, offset, len) ==
  IF len = 0 THEN << >>
  ELSE <<GetMask(0, b, "dirty", _region_to_mask(offset, len), TRUE), Put(0, b)>>
_update_bytes(start, len) ==
  LET bb == start \div T_BLOCK_SIZE
      be == (start + len) \div T_BLOCK_SIZE
      offset == start % T_BLOCK_SIZE
      rest == (start + len) % T_BLOCK_SIZE
      whole == IF offset = 0 THEN bb ELSE bb + 1
  IN (IF rest = 0 THEN << >> ELSE <<Prefetch(0, be)>>)
     \o (IF bb = be THEN Partial(bb, offset, len)
         ELSE (IF offset = 0 THEN << >> ELSE Partial(bb, offset, T_BLOCK_SIZE - offset))
              \o FlattenSeq([i \in 1 .. be - whole |-> GetPut(0, whole + i - 1, "zero")])
              \o Partial(be, 0, rest))

-----------------------------------------------------------------------------
(* io_manager_create *)

Good(sectors) == <<Create(sectors, 16, TRUE)>>
test_create == Good(8)
test_nr_cache_blocks_must_be_positive == <<Create(8, 0, FALSE)>>
test_block_size_must_be_positive == <<Create(0, 16, FALSE)>>
test_block_size_must_be_multiple_of_page_size ==
  FlattenSeq([i \in 1 .. 4 |-> <<Create(<<3, 9, 13, 63>>[i], 16, FALSE)>>])
  \o FlattenSeq([i \in 1 .. 7 |-> Good(8 * i)])

-----------------------------------------------------------------------------
(* Getting, evicting, prefetching *)

test_get_triggers_read ==
  OneDev(ReadWait(0, 0) \o GetPut(0, 0, "read")
         \o ReadWait(0, 1)
         \o <<Get(0, 1, "dirty", TRUE), _expect_write(0, 1), _expect("wait"), Put(0, 1)>>)

test_repeated_reads_are_cached ==
  OneDev(ReadWait(0, 0) \o Times(100, GetPut(0, 0, "read")))

\* The block that is evicted is the one read first.
test_block_gets_evicted_with_many_reads ==
  OneDev(FlattenSeq([i \in 1 .. nr_cache_blocks + 1 |->
                       ReadWait(0, i - 1) \o GetPut(0, i - 1, "read")])
         \o <<_expect_read_any, _expect("wait")>>
         \o FlattenSeq([i \in 1 .. nr_cache_blocks |->
                           GetPut(0, nr_cache_blocks - i, "read")]))

test_prefetch_issues_a_read ==
  OneDev(FlattenSeq([i \in 1 .. nr_cache_blocks |->
                       <<_expect_read(0, i - 1), Prefetch(0, i - 1)>>])
         \o <<_no_outstanding_expectations>>
         \o FlattenSeq([i \in 1 .. nr_cache_blocks |->
                           <<_expect("wait")>> \o GetPut(0, i - 1, "read")]))

test_too_many_prefetches_does_not_trigger_a_wait ==
  OneDev(FlattenSeq([i \in 1 .. 10 * nr_cache_blocks |->
                       (IF i <= nr_cache_blocks THEN <<_expect_read(0, i - 1)>> ELSE << >>)
                       \o <<Prefetch(0, i - 1)>>])
         \o Expected(nr_cache_blocks, "wait"))

test_dirty_data_gets_written_back ==
  Opens(0) \o ReadWait(0, 0) \o GetPut(0, 0, "dirty")
  \o <<_expect_write(0, 0), _expect("wait"), PutDev(0), _expect("close")>>

test_zeroed_data_counts_as_dirty ==
  OneDev(GetPut(0, 0, "zero") \o <<_expect_write(0, 0), _expect("wait")>>)

test_flush_waits_for_all_dirty ==
  OneDev(FlattenSeq([i \in 1 .. 16 |->
                       IF i % 2 = 0 THEN GetPut(0, i - 1, "zero")
                       ELSE ReadWait(0, i - 1) \o GetPut(0, i - 1, "read")])
         \o FlattenSeq([i \in 1 .. 8 |-> <<_expect_write(0, 2 * i - 1)>>])
         \o Expected(8, "wait")
         \o <<Flush(TRUE), _no_outstanding_expectations>>)

test_multiple_files ==
  FlattenSeq([i \in 1 .. 4 |->
                Opens(i) \o ReadWait(i, 0) \o GetPut(i, 0, "read") \o <<PutDev(i)>>])
  \o Expected(4, "close")

-----------------------------------------------------------------------------
(* Failures *)

BadIssue == <<_expect_read_bad_issue(0, 0), Get(0, 0, "read", FALSE)>>
BadWait == <<_expect_read_bad_wait(0, 0), _expect("wait"), Get(0, 0, "read", FALSE)>>
GoodRead == ReadWait(0, 0) \o GetPut(0, 0, "read")
GoodFlush == <<_expect_write(0, 0), _expect("wait"), Flush(TRUE)>>

test_read_bad_issue == OneDev(BadIssue)
test_read_bad_issue_intermittent == OneDev(BadIssue \o GoodRead)
test_read_bad_wait == OneDev(BadWait)
test_read_bad_wait_intermittent == OneDev(BadWait \o GoodRead)

test_write_bad_issue_stops_flush ==
  OneDev(<<Get(0, 0, "zero", TRUE), _expect_write_bad_issue(0, 0), Put(0, 0), Flush(FALSE)>>
         \o GoodFlush)

test_write_bad_io_stops_flush ==
  OneDev(<<Get(0, 0, "zero", TRUE), _expect_write_bad_wait(0, 0), _expect("wait"),
           Put(0, 0), Flush(FALSE)>>
         \o GoodFlush)

test_invalidate_not_present == OneDev(<<Invalidate(0, 0, TRUE)>>)
test_invalidate_present == OneDev(GoodRead \o <<Invalidate(0, 0, TRUE)>>)
test_invalidate_after_read_error == OneDev(BadIssue \o <<Invalidate(0, 0, TRUE)>>)

test_invalidate_after_write_error ==
  OneDev(GetPut(0, 0, "zero")
         \o <<_expect_write_bad_wait(0, 0), _expect("wait"), Invalidate(0, 0, FALSE)>>
         \o <<_expect_write(0, 0), _expect("wait"), Invalidate(0, 0, TRUE)>>
         \o GoodRead)

test_invalidate_held_block ==
  OneDev(<<Get(0, 0, "zero", TRUE), Invalidate(0, 0, FALSE),
           _expect_write(0, 0), _expect("wait"), Put(0, 0)>>)

-----------------------------------------------------------------------------
(* Devices *)

\* One open and one close for two holders.
Concurrent(flags) ==
  <<_expect("open"), GetDev(1, 0, flags), GetDev(2, 0, flags), _expect("close"),
    PutDev(1), PutDev(2)>>
test_concurrent_devs == Concurrent(None)
test_concurrent_devs_exclusive == Concurrent(EF(FALSE, TRUE))

OpenWith(flags) == <<_expect_open(flags), GetDev(0, 0, flags), HasDev(0, TRUE)>>
test_exclusive_flags_gets_passed_to_engine ==
  FlattenSeq([i \in 1 .. 3 |->
                OpenWith(<<EF(FALSE, TRUE), EF(TRUE, FALSE), EF(TRUE, TRUE)>>[i])
                \o Closes(0)])

test_reopen_exclusive_triggers_invalidate ==
  OpenWith(None) \o GoodRead \o <<PutDev(0), _no_outstanding_expectations,
                                  _expect("close")>>
  \o OpenWith(EF(FALSE, TRUE)) \o GoodRead \o Closes(0)

test_concurrent_reopen_excl_fails ==
  OpenWith(None) \o GoodRead
  \o <<_no_outstanding_expectations, GetDev(1, 0, EF(FALSE, TRUE)), HasDev(1, FALSE)>>
  \o Closes(0)

test_read_only_observed ==
  OpenWith(EF(TRUE, FALSE)) \o GoodRead
  \o <<_no_outstanding_expectations, Get(0, 0, "dirty", FALSE), Get(0, 0, "zero", FALSE)>>
  \o Closes(0)

\* The second open comes before the close.
test_upgrade_to_writeable ==
  OpenWith(EF(TRUE, FALSE)) \o GoodRead
  \o <<PutDev(0), _no_outstanding_expectations,
        _expect_open(None), _expect("close"), GetDev(0, 0, None),
        _no_outstanding_expectations, Get(0, 0, "dirty", TRUE),
        _no_outstanding_expectations, Put(0, 0),
        _expect_write(0, 0), _expect("wait")>>
  \o Closes(0)

test_get_size ==
  OpenWith(EF(TRUE, FALSE)) \o <<_expect_get_size(0, TRUE), DevSize(0, TRUE)>> \o Closes(0)
test_get_size_fail ==
  OpenWith(EF(TRUE, FALSE)) \o <<_expect_get_size(0, FALSE), DevSize(0, FALSE)>> \o Closes(0)

\* The test cycles through 16 devices of the 256 its fixture may have open;
\* here they are as many as the one of all tests may have open.
_cycle ==
  FlattenSeq([i \in 1 .. SMALL_MAX_CACHE_DEVS |->
                Opens(i) \o <<_expect_read(i, 0), Prefetch(i, 0), PutDev(i)>>])
  \o <<_no_outstanding_expectations>>
  \o FlattenSeq([i \in 1 .. SMALL_MAX_CACHE_DEVS |->
                    <<GetDev(i, i, None), _expect("wait")>> \o GetPut(i, 0, "read")
                    \o <<PutDev(i)>>])
  \o <<_no_outstanding_expectations>>

test_concurrent_reads_after_invalidate ==
  _cycle
  \o FlattenSeq([i \in 1 .. SMALL_MAX_CACHE_DEVS |->
                    <<GetDev(i, i, None), InvalidateDev(i)>> \o Closes(i)
                    \o <<_no_outstanding_expectations>>])
  \o _cycle
  \o Expected(SMALL_MAX_CACHE_DEVS, "close")

-----------------------------------------------------------------------------
(* Partial writes *)

_single_partial_write(mask, sb, se) ==
  OneDev(ZeroMask(0, mask) \o <<_expect_partial_write(0, sb, se), _expect("wait")>>)

test_partial_write_at_start == _single_partial_write({0}, 0, 1)
test_partial_write_at_end == _single_partial_write({63}, 63, 64)
test_partial_write_multiple_sectors_start == _single_partial_write(0 .. 2, 0, 3)
test_partial_write_multiple_sectors_end == _single_partial_write(61 .. 63, 61, 64)
test_partial_write_multiple_sectors_middle == _single_partial_write(1 .. 62, 1, 63)

TwoRuns == <<_expect_partial_write(0, 0, 1), _expect_partial_write(0, 63, 64)>>

test_partial_write_separate_writes ==
  OneDev(ZeroMask(0, {0}) \o ZeroMask(0, {63}) \o TwoRuns \o Expected(2, "wait"))

test_partial_write_overlapping_writes ==
  OneDev(ZeroMask(0, 8 .. 23) \o ZeroMask(0, 16 .. 31)
         \o <<_expect_partial_write(0, 8, 32), _expect("wait")>>)

test_partial_write_fail_bad_issue ==
  OneDev(ZeroMask(0, 8 .. 23) \o <<_expect_partial_write_bad_issue(0, 8, 24)>>)

test_partial_write_fail_bad_wait ==
  OneDev(ZeroMask(0, 8 .. 23)
         \o <<_expect_partial_write_bad_wait(0, 8, 24), _expect("wait"), Flush(FALSE),
               _expect_partial_write(0, 8, 24), _expect("wait"), Flush(TRUE)>>)

test_partial_write_one_bad_stops_all ==
  OneDev(ZeroMask(0, {0}) \o ZeroMask(0, {63})
         \o <<_expect_partial_write(0, 0, 1), _expect_partial_write_bad_wait(0, 63, 64)>>
         \o Expected(2, "wait") \o <<Flush(FALSE)>>
         \o TwoRuns \o Expected(2, "wait") \o <<Flush(TRUE)>>)

\* io_zero_bytes and io_write_bytes make the same calls of the block cache.
WithinSector ==
  OneDev(ReadWait(0, 0) \o _update_bytes(34, 433)
         \o <<_expect_partial_write(0, 0, 1), _expect("wait"), Flush(TRUE)>>)
SpanningSectors ==
  OneDev(ReadWait(0, 0) \o _update_bytes(700, 2345)
         \o <<_expect_partial_write(0, 1, 6), _expect("wait"), Flush(TRUE)>>)

\* "the last block is prefetched first if it's partial ..."
SpanningBlocks ==
  LET byte_start == T_BLOCK_SIZE + 700
      byte_len == 2 * T_BLOCK_SIZE + 2345
      end == byte_start + byte_len
      first == byte_start \div T_BLOCK_SIZE
      last == end \div T_BLOCK_SIZE
  IN OneDev(<<_expect_read(0, last), _expect_read(0, first)>> \o Expected(2, "wait")
            \o _update_bytes(byte_start, byte_len)
            \o <<_no_outstanding_expectations,
                  _expect_partial_write(0, byte_start \div 512, (first + 1) * nr_sectors),
                  _expect_write(0, 2),
                  _expect_partial_write(0, last * nr_sectors, (end + 511) \div 512)>>
            \o Expected(3, "wait") \o <<Flush(TRUE)>>)

test_zero_bytes_within_single_sector == WithinSector
test_zero_bytes_spanning_sectors == SpanningSectors
test_zero_bytes_spanning_blocks == SpanningBlocks
test_write_bytes_within_single_sector == WithinSector
test_write_bytes_spanning_sectors == SpanningSectors
test_write_bytes_spanning_blocks == SpanningBlocks

-----------------------------------------------------------------------------
(* Too many devices *)

OpenPrefetch(h) == Opens(h) \o <<_expect_read(h, 0), Prefetch(h, 0)>>
Prefetched(n) == FlattenSeq([i \in 1 .. n |-> OpenPrefetch(i - 1)])

test_unable_to_hold_max_files ==
  Prefetched(SMALL_MAX_CACHE_DEVS)
  \o <<_no_outstanding_expectations,
        GetDev(SMALL_MAX_CACHE_DEVS, SMALL_MAX_CACHE_DEVS, None),
        HasDev(SMALL_MAX_CACHE_DEVS, FALSE)>>
  \o Expected(SMALL_MAX_CACHE_DEVS, "wait")
  \o FlattenSeq([i \in 1 .. SMALL_MAX_CACHE_DEVS |-> Closes(i - 1)])

\* Device i takes the place of device i - SMALL_MAX_CACHE_DEVS.
test_rolling_max_files ==
  Prefetched(SMALL_MAX_CACHE_DEVS) \o <<_no_outstanding_expectations>>
  \o Expected(SMALL_MAX_CACHE_DEVS - 1, "wait")
  \o FlattenSeq([i \in 1 .. 64 - SMALL_MAX_CACHE_DEVS |->
                    <<_expect("wait")>> \o Closes(i - 1)
                    \o Opens(i - 1 + SMALL_MAX_CACHE_DEVS)
                    \o <<HasDev(i - 1 + SMALL_MAX_CACHE_DEVS, TRUE),
                          _expect_read(i - 1 + SMALL_MAX_CACHE_DEVS, 0),
                          Prefetch(i - 1 + SMALL_MAX_CACHE_DEVS, 0)>>])
  \o <<_expect("wait")>>
  \o FlattenSeq([i \in 1 .. SMALL_MAX_CACHE_DEVS |-> Closes(63 - SMALL_MAX_CACHE_DEVS + i)])

\* "getting a new dev should evict the second dev"
test_held_devs_are_not_evicted ==
  Prefetched(SMALL_MAX_CACHE_DEVS) \o <<_no_outstanding_expectations>>
  \o FlattenSeq([i \in 1 .. SMALL_MAX_CACHE_DEVS - 1 |-> <<_expect("wait"), PutDev(i)>>])
  \o <<_expect("wait"), _expect("close"), _expect("open"),
        GetDev(SMALL_MAX_CACHE_DEVS, SMALL_MAX_CACHE_DEVS, None),
        HasDev(SMALL_MAX_CACHE_DEVS, TRUE)>>
  \o Expected(SMALL_MAX_CACHE_DEVS, "close")
  \o <<PutDev(0), PutDev(SMALL_MAX_CACHE_DEVS)>>

=============================================================================
