---------------------------- MODULE IoManagerTests ----------------------------
(***************************************************************************)
(* The tests of unit-tests/io-manager_t.c run on the model: module         *)
(* IoManager takes the place of io/io-manager.c, IoManagerScripts has the  *)
(* tests, and here is their mock engine, which checks each call made of it *)
(* against a queue of expected calls, completes ios in the order they were *)
(* issued, one in each wait, and fails the ios it is told to.              *)
(*                                                                         *)
(* A test has one path through the model, or the mock engine would not     *)
(* know what to expect; a model that did what the code does not do would   *)
(* make another call, make it in another order, or return another result.  *)
(***************************************************************************)

EXTENDS IoManager, IoManagerScripts

CONSTANT Tests            \* the tests by name, a record of scripts

VARIABLES
  script,                 \* the rest of the test
  expected_calls, issued_io,
  want,                   \* the results the last call may have
  failed                  \* an assertion of the test or the mock engine failed

mock == <<expected_calls, issued_io>>
tvars == <<mvars, script, mock, want, failed>>

-----------------------------------------------------------------------------
(* Fixtures *)

_fixture_exit == <<_expect("destroy"), [do |-> "destroy"]>>

TInit ==
  /\ MInit
  /\ \E t \in DOMAIN Tests : script = Tests[t] \o _fixture_exit
  /\ expected_calls = << >> /\ issued_io = << >>
  /\ want = BOOLEAN
  /\ failed = FALSE

PathOf(h) == table.devs[handles[h].dev].path
KeyOf(h, b) == <<PathOf(h), b>>

\* _valid_block_size, and io_manager_create's check of nr_cache_blocks; a page
\* has 8 sectors.
Creates(sectors, frames) ==
  frames # 0 /\ sectors # 0 /\ sectors % 8 = 0 /\ sectors <= 64

-----------------------------------------------------------------------------
(* The mock engine *)

\* What io_get_fd gives the expectation, before the io_dev can be put.
Resolved(mc) ==
  IF mc.m # "issue" \/ mc.args = AnyArgs THEN mc
  ELSE [mc EXCEPT !.args = [dir |-> mc.args.d, key |-> KeyOf(mc.args.h, mc.args.b),
                            secs |-> mc.args.secs]]

Made(method, args) == [m |-> method, args |-> args]
Matches(mc, made) ==
  mc.m = made.m /\ (mc.args = AnyArgs \/ made.args = AnyArgs \/ mc.args = made.args)

\* _match_pop, for the calls one step makes.
_match_pop(made) ==
  LET n == Len(made)
  IN /\ expected_calls' = SubSeq(expected_calls, n + 1, Len(expected_calls))
     /\ failed' = ~ /\ n <= Len(expected_calls)
                    /\ \A i \in 1 .. n : Matches(expected_calls[i], made[i])

Close == Made("close", AnyArgs)
Open(flags) == Made("open", [flags |-> flags])
\* The io the next step of the cache issues, if it does: a read of a new
\* block, or the writeback of one that nobody holds.
Target ==
  CASE call.pc = "new_block" /\ MustRead(call.mode) -> call.f
    [] call.pc = "writeback" /\ call.left # 0 -> call.node
    [] call.pc = "flush" -> lists.n[dirty]
    [] call.pc = "invalidate" -> call.f
    [] call.pc = "writeback_v" /\ call.todo # {} -> rtree[CHOOSE k \in call.todo : TRUE]
    [] OTHER -> NoFrame

Attempts ==
  LET f == Target
      bits == blocks[f].dirty_bits
      first(r) == CHOOSE s \in r : \A t \in r : s <= t
      io(d, key, r) == [dir |-> d, key |-> key, secs |-> r]
  IN IF f \notin Frames THEN << >>
     ELSE IF call.pc = "new_block" THEN <<io("read", call.key, Sectors)>>
     ELSE IF bits = {} \/ ~Unused(f) \/ blocks[f].pending THEN << >>
     ELSE LET runs == SetToSortSeq(Runs(bits), LAMBDA q, r : first(q) < first(r))
          IN [i \in DOMAIN runs |-> io("write", blocks[f].key, runs[i])]

\* _mock_issue for each: the ios the test lets through are in flight after.
_mock_issue ==
  LET ios == Attempts
      passed == SelectSeq([i \in DOMAIN ios |-> i],
                          LAMBDA i : i <= Len(expected_calls) => expected_calls[i].issue_r)
      io(i) == [frame |-> Target, key |-> ios[i].key, dir |-> ios[i].dir,
                secs |-> ios[i].secs]
  IN /\ inflight' = inflight \cup {io(i) : i \in Range(passed)}
     /\ issued_io' = issued_io \o
          [n \in DOMAIN passed |->
             [io |-> io(passed[n]),
              r |-> passed[n] <= Len(expected_calls) => expected_calls[passed[n]].wait_r]]
     /\ _match_pop([i \in DOMAIN ios |-> Made("issue", ios[i])])

\* A wait completes the io that was issued first.
_mock_wait ==
  /\ Waiting
  /\ IF issued_io = << >> THEN failed' = TRUE /\ UNCHANGED <<mvars, mock>>
     ELSE /\ complete_io(Head(issued_io).io, Head(issued_io).r)
          /\ Counted
          /\ issued_io' = Tail(issued_io)
          /\ _match_pop(<<Made("wait", AnyArgs)>>)

-----------------------------------------------------------------------------
(* Steps of a call *)

\* The steps that are no completion; some close a device, as its last block
\* leaves the tree, and the last one closes all.
Quietly ==
  /\ BlockSteps /\ Counted /\ ~(InWait /\ Waiting)
  /\ IF Attempts # << >> THEN _mock_issue
     ELSE LET closes == [i \in 1 .. table.nr_open - table'.nr_open |-> Close]
          IN IF call'.pc = "destroyed"
             THEN /\ expected_calls' = << >> /\ UNCHANGED issued_io
                  /\ failed' = ~ /\ Len(expected_calls) = Len(closes) + 1
                                 /\ \A i \in DOMAIN closes : expected_calls[i].m = "close"
                                 /\ Last(expected_calls).m = "destroy"
                                 /\ issued_io = << >>
             ELSE inflight' = inflight /\ UNCHANGED issued_io /\ _match_pop(closes)

GetDevWaited ==
  /\ io_get_dev_opens
  /\ UNCHANGED issued_io
  /\ _match_pop(<<Close, Open(getting.flags)>>)

-----------------------------------------------------------------------------
(* Steps of a test *)

\* Calls of the block cache and of the device table, with the calls they make
\* of the engine before they first wait.
GetDevStep(s) ==
  LET d == table.dev_tree[s.path]
      calls == CASE table'.dev_tree[s.path] = NoDev -> << >>
                 [] d = NoDev -> <<Open(s.flags)>>
                 [] table'.devs[d].flags # table.devs[d].flags -> <<Open(s.flags), Close>>
                 [] OTHER -> << >>
  IN \/ io_get_dev(s.h, s.path, s.flags) /\ _match_pop(calls)
     \/ io_get_dev_waits(s.h, s.path, s.flags) /\ _match_pop(<< >>)

PutDevStep(s) ==
  /\ io_put_dev(s.h)
  /\ _match_pop([i \in 1 .. table.nr_open - table'.nr_open |-> Close])

BlockStep(s) ==
  LET k == KeyOf(s.h, s.b)
  IN CASE s.do = "get" -> io_get_block_mask(k, handles[s.h].flags.ro, s.m) /\ Counted
       [] s.do = "put" -> io_put_block(rtree[k]) /\ Counted
       [] s.do = "invalidate_dev" -> io_invalidate_dev(k) /\ Counted
       [] s.do = "prefetch" ->
            IF Cached(k) \/ nr_io_pending >= MaxIo THEN UNCHANGED mvars
            ELSE io_prefetch_block(k) /\ Counted
       [] s.do = "invalidate" ->
            IF Cached(k) THEN io_invalidate_block(k) /\ Counted
            ELSE /\ call' = Return(TRUE)
                 /\ UNCHANGED <<lists, blocks, rtree, nr_locked, nr_dirty, nr_io_pending,
                                inflight, ghosts, table, handles, getting>>

\* Assertions, which call nothing.
Asserted(s) ==
  CASE s.do = "none_outstanding" -> expected_calls = << >>
    [] s.do = "has_dev" -> (handles[s.h] # NoHandle) = s.ok
    [] s.do = "create" -> Creates(s.sectors, s.frames) = s.ok

TestStep ==
  LET s == Head(script) IN
  /\ call.pc = "idle" /\ script # << >>
  /\ script' = Tail(script)
  /\ want' = IF s.do \in {"get", "flush", "invalidate"} THEN {s.ok} ELSE BOOLEAN
  /\ CASE s.do = "expect" ->
            /\ expected_calls' = Append(expected_calls, Resolved(s.call))
            /\ UNCHANGED <<mvars, issued_io, failed>>
       [] s.do = "get_dev" -> GetDevStep(s) /\ UNCHANGED issued_io
       [] s.do = "put_dev" -> PutDevStep(s) /\ UNCHANGED issued_io
       [] s.do = "flush" -> io_flush /\ Counted /\ UNCHANGED <<mock, failed>>
       [] s.do = "destroy" -> io_manager_destroy /\ Counted /\ UNCHANGED <<mock, failed>>
       [] s.do = "dev_size" ->
            /\ expected_calls' = Tail(expected_calls)
            /\ failed' = (Head(expected_calls).m # "get_size"
                            \/ Head(expected_calls).issue_r # s.ok)
            /\ UNCHANGED <<mvars, issued_io>>
       [] s.do \in {"get", "put", "prefetch", "invalidate", "invalidate_dev"} ->
            BlockStep(s) /\ UNCHANGED <<mock, failed>>
       [] OTHER -> failed' = ~Asserted(s) /\ UNCHANGED <<mvars, mock>>

\* The model runs a call to its end before the test goes on.
CallStep == (_mock_wait \/ Quietly \/ GetDevWaited) /\ UNCHANGED <<script, want>>

TNext ==
  \/ ~failed /\ (TestStep \/ CallStep)
  \/ Destroyed /\ UNCHANGED tvars

TSpec == TInit /\ [][TNext]_tvars

-----------------------------------------------------------------------------
(* Properties *)

\* The model does in each test what io-manager.c does: it makes the calls of
\* the engine that the test expects, in their order and with their
\* arguments, returns the results that the test asserts, and fails no assert
\* of its own.
TestsPass ==
  /\ ~failed
  /\ NoAbort
  /\ call.pc = "idle" => call.ret \in want

=============================================================================
