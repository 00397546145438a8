-------------------------- MODULE MCIoManagerTests --------------------------
(* Constants for running the tests of the io manager on IoManager.           *)

EXTENDS IoManagerTests

\* One block of each of the 65 devices the tests use, and as many of the first
\* as they ask for.
MCPaths == 0 .. 64
MCKeys == (MCPaths \X {0}) \cup ({0} \X (1 .. 10 * nr_cache_blocks - 1))
MCDevOf == [k \in MCKeys |-> k[1]]
MCNoModes == {}

MCTests == [
  create |-> test_create,
  nr_cache_blocks_must_be_positive |-> test_nr_cache_blocks_must_be_positive,
  block_size_must_be_positive |-> test_block_size_must_be_positive,
  block_size_must_be_multiple_of_page_size |-> test_block_size_must_be_multiple_of_page_size,
  get_triggers_read |-> test_get_triggers_read,
  repeated_reads_are_cached |-> test_repeated_reads_are_cached,
  block_gets_evicted_with_many_reads |-> test_block_gets_evicted_with_many_reads,
  prefetch_issues_a_read |-> test_prefetch_issues_a_read,
  too_many_prefetches_does_not_trigger_a_wait |-> test_too_many_prefetches_does_not_trigger_a_wait,
  dirty_data_gets_written_back |-> test_dirty_data_gets_written_back,
  zeroed_data_counts_as_dirty |-> test_zeroed_data_counts_as_dirty,
  flush_waits_for_all_dirty |-> test_flush_waits_for_all_dirty,
  multiple_files |-> test_multiple_files,
  read_bad_issue |-> test_read_bad_issue,
  read_bad_issue_intermittent |-> test_read_bad_issue_intermittent,
  read_bad_wait |-> test_read_bad_wait,
  read_bad_wait_intermittent |-> test_read_bad_wait_intermittent,
  write_bad_issue_stops_flush |-> test_write_bad_issue_stops_flush,
  write_bad_io_stops_flush |-> test_write_bad_io_stops_flush,
  invalidate_not_present |-> test_invalidate_not_present,
  invalidate_present |-> test_invalidate_present,
  invalidate_after_read_error |-> test_invalidate_after_read_error,
  invalidate_after_write_error |-> test_invalidate_after_write_error,
  invalidate_held_block |-> test_invalidate_held_block,
  concurrent_devs |-> test_concurrent_devs,
  concurrent_devs_exclusive |-> test_concurrent_devs_exclusive,
  exclusive_flags_gets_passed_to_engine |-> test_exclusive_flags_gets_passed_to_engine,
  reopen_exclusive_triggers_invalidate |-> test_reopen_exclusive_triggers_invalidate,
  concurrent_reopen_excl_fails |-> test_concurrent_reopen_excl_fails,
  read_only_observed |-> test_read_only_observed,
  upgrade_to_writeable |-> test_upgrade_to_writeable,
  get_size |-> test_get_size,
  get_size_fail |-> test_get_size_fail,
  concurrent_reads_after_invalidate |-> test_concurrent_reads_after_invalidate,
  partial_write_at_start |-> test_partial_write_at_start,
  partial_write_at_end |-> test_partial_write_at_end,
  partial_write_multiple_sectors_start |-> test_partial_write_multiple_sectors_start,
  partial_write_multiple_sectors_end |-> test_partial_write_multiple_sectors_end,
  partial_write_multiple_sectors_middle |-> test_partial_write_multiple_sectors_middle,
  partial_write_separate_writes |-> test_partial_write_separate_writes,
  partial_write_overlapping_writes |-> test_partial_write_overlapping_writes,
  partial_write_fail_bad_issue |-> test_partial_write_fail_bad_issue,
  partial_write_fail_bad_wait |-> test_partial_write_fail_bad_wait,
  partial_write_one_bad_stops_all |-> test_partial_write_one_bad_stops_all,
  zero_bytes_within_single_sector |-> test_zero_bytes_within_single_sector,
  zero_bytes_spanning_sectors |-> test_zero_bytes_spanning_sectors,
  zero_bytes_spanning_blocks |-> test_zero_bytes_spanning_blocks,
  write_bytes_within_single_sector |-> test_write_bytes_within_single_sector,
  write_bytes_spanning_sectors |-> test_write_bytes_spanning_sectors,
  write_bytes_spanning_blocks |-> test_write_bytes_spanning_blocks,
  unable_to_hold_max_files |-> test_unable_to_hold_max_files,
  rolling_max_files |-> test_rolling_max_files,
  held_devs_are_not_evicted |-> test_held_devs_are_not_evicted]
=============================================================================
