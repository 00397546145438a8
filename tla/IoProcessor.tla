----------------------------- MODULE IoProcessor -----------------------------
(***************************************************************************)
(* The io processor of io/io-processor.c: jobs, each to read a range of    *)
(* bytes of a device, are executed in batches.  A batch first prefetches   *)
(* all its jobs and then reads each of them into the one buffer, which the *)
(* client's task callback gets; for a job that fails the error callback is *)
(* called.                                                                 *)
(*                                                                         *)
(* The callbacks may add jobs, to the list that may just be walked, and    *)
(* may make the buffer grow.  What the io manager does under the           *)
(* processor_ops is not modelled here, but for devices that cannot be had  *)
(* and ranges that cannot be read.                                         *)
(***************************************************************************)

EXTENDS Integers, SequencesExt

CONSTANTS
  Jobs, End,              \* the struct jobs; the head of a list they are on
  LenOf,                  \* the bytes each reads
  Covers,                 \* the blocks these are on, _blocks_covered
  batch_size,
  Faults                  \* \subseteq {"alloc", "get_dev", "read"}

ASSUME JobAssumption ==
  /\ End \notin Jobs
  /\ LenOf \in [Jobs -> Nat] /\ Covers \in [Jobs -> Nat]
  /\ batch_size \in Nat \ {0}
  /\ Faults \subseteq {"alloc", "get_dev", "read"}

VARIABLES
  jobs, batch,            \* the two lists
  buffer_size,
  call,                   \* the call in progress
  devs,                   \* devices got and not put
  accepted, tasks,        \* the jobs added, and those given to task, so far
  report                  \* what the client was told of each job

vars == <<jobs, batch, buffer_size, call, devs, accepted, tasks, report>>

Idle == [pc |-> "idle", walk |-> "jobs", j |-> End, tmp |-> End, count |-> 0]

Init ==
  /\ jobs = << >> /\ batch = << >>
  /\ buffer_size = 0
  /\ call = Idle
  /\ devs = 0
  /\ accepted = << >> /\ tasks = << >>
  /\ report = [j \in Jobs |-> "none"]

-----------------------------------------------------------------------------
(* Walking a list: list_iterate_items_safe takes the successor of an        *)
(* element before the body of the loop, which may remove the element.       *)

After(list, j) ==
  LET n == CHOOSE n \in DOMAIN list : list[n] = j
  IN IF n < Len(list) THEN list[n + 1] ELSE End

At(pc, walk, list, j, count) ==
  [pc |-> pc, walk |-> walk, j |-> j, count |-> count,
   tmp |-> IF j = End THEN End ELSE After(list, j)]
First(pc, walk, list, count) ==
  At(pc, walk, list, IF list = << >> THEN End ELSE Head(list), count)
Advance(pc, list, count) == At(pc, call.walk, list, call.tmp, count)

-----------------------------------------------------------------------------
(* The client *)

\* Client code runs between calls, and in the callbacks.
InClient == call.pc \in {"idle", "err", "task"}

\* _ensure_buffer takes bytes for sectors: the buffer is larger than needed.
BufferSize(len) == IF len * 512 <= buffer_size THEN buffer_size ELSE len * 512

Queued_first(j) == <<j>> \o jobs
Queued(j) == Append(jobs, j)

io_processor_add(j) ==
  /\ InClient
  /\ j \notin Range(accepted)
  /\ jobs' = Queued(j)
  /\ buffer_size' = BufferSize(LenOf[j])
  /\ accepted' = Append(accepted, j)
  /\ UNCHANGED <<batch, call, devs, tasks, report>>

\* The job or the buffer cannot be allocated: nothing has changed.
io_processor_add_fails(j) ==
  /\ InClient
  /\ j \notin Range(accepted)
  /\ "alloc" \in Faults
  /\ UNCHANGED vars

io_processor_exec ==
  /\ call.pc = "idle"
  /\ call' = [Idle EXCEPT !.pc = "batch"]
  /\ UNCHANGED <<jobs, batch, buffer_size, devs, accepted, tasks, report>>

\* Jobs that were not executed are freed; the context of none is reported.
io_processor_destroy ==
  /\ call.pc = "idle"
  /\ call' = [Idle EXCEPT !.pc = "destroyed"]
  /\ jobs' = << >>
  /\ UNCHANGED <<batch, buffer_size, devs, accepted, tasks, report>>

-----------------------------------------------------------------------------
(* _batch *)

\* The loop of io_processor_exec.
next_batch ==
  /\ call.pc = "batch"
  /\ call' = IF jobs = << >> THEN Idle
             ELSE First("prefetch", "jobs", jobs, batch_size)
  /\ UNCHANGED <<jobs, batch, buffer_size, devs, accepted, tasks, report>>

\* The first loop ends when enough blocks are on their way.
prefetched ==
  /\ call.pc = "prefetch"
  /\ call.count = 0 \/ call.j = End
  /\ call' = First("read", "batch", batch, 0)
  /\ UNCHANGED <<jobs, batch, buffer_size, devs, accepted, tasks, report>>

\* Both loops get the device of the job, or fail the job.
GetNext ==
  \/ call.pc = "prefetch" /\ call.count # 0
  \/ call.pc = "read"

get_dev ==
  /\ GetNext /\ call.j # End
  /\ call' = [call EXCEPT !.pc = IF @ = "prefetch" THEN "prefetch_dev" ELSE "read_dev"]
  /\ devs' = devs + 1
  /\ UNCHANGED <<jobs, batch, buffer_size, accepted, tasks, report>>

get_dev_fails ==
  /\ GetNext /\ call.j # End
  /\ "get_dev" \in Faults
  /\ call' = [call EXCEPT !.pc = "err"]
  /\ report' = [report EXCEPT ![call.j] = "failed"]
  /\ UNCHANGED <<jobs, batch, buffer_size, devs, accepted, tasks>>

\* count -= min(count, blocks_covered)
Left_jobs(count, j) == count - 1
Left(count, j) == IF Covers[j] <= count THEN count - Covers[j] ELSE 0

prefetch_bytes ==
  /\ call.pc = "prefetch_dev"
  /\ devs' = devs - 1
  /\ jobs' = RemoveFirst(jobs, call.j)
  /\ batch' = Append(batch, call.j)
  /\ call' = Advance("prefetch", jobs', Left(call.count, call.j))
  /\ UNCHANGED <<buffer_size, accepted, tasks, report>>

read_bytes ==
  /\ call.pc = "read_dev"
  /\ devs' = devs - 1
  /\ call' = [call EXCEPT !.pc = "task"]
  /\ tasks' = Append(tasks, call.j)
  /\ report' = [report EXCEPT ![call.j] = "done"]
  /\ UNCHANGED <<jobs, batch, buffer_size, accepted>>

\* The device is put on this path as well.
PutAfterFailure_missing == devs
PutAfterFailure == devs - 1

read_bytes_fails ==
  /\ call.pc = "read_dev"
  /\ "read" \in Faults
  /\ devs' = PutAfterFailure
  /\ call' = [call EXCEPT !.pc = "err"]
  /\ report' = [report EXCEPT ![call.j] = "failed"]
  /\ UNCHANGED <<jobs, batch, buffer_size, accepted, tasks>>

\* A callback returns; its job leaves the list it is on, and is freed.
Removed_kept(list, j) == list
Removed(list, j) == RemoveFirst(list, j)

returned ==
  /\ call.pc \in {"err", "task"}
  /\ IF call.walk = "jobs"
     THEN /\ jobs' = Removed(jobs, call.j)
          /\ call' = Advance("prefetch", jobs', call.count)
          /\ UNCHANGED batch
     ELSE /\ batch' = Removed(batch, call.j)
          /\ call' = Advance("read", batch', call.count)
          /\ UNCHANGED jobs
  /\ UNCHANGED <<buffer_size, devs, accepted, tasks, report>>

batch_done ==
  /\ call.pc = "read" /\ call.j = End
  /\ call' = [Idle EXCEPT !.pc = "batch"]
  /\ UNCHANGED <<jobs, batch, buffer_size, devs, accepted, tasks, report>>

Destroyed == call.pc = "destroyed" /\ UNCHANGED vars

-----------------------------------------------------------------------------
Client ==
  \/ \E j \in Jobs : io_processor_add(j) \/ io_processor_add_fails(j)
  \/ io_processor_exec \/ io_processor_destroy

Step ==
  \/ next_batch \/ prefetched \/ get_dev \/ get_dev_fails \/ prefetch_bytes
  \/ read_bytes \/ read_bytes_fails \/ returned \/ batch_done

Next == Client \/ Step \/ Destroyed

\* exec runs on, and callbacks return.
Spec == Init /\ [][Next]_vars /\ WF_vars(Step)

-----------------------------------------------------------------------------
(* Properties *)

\* Tasks are called in the order in which the jobs were added, whatever
\* fails and whoever adds jobs.
InOrder ==
  \A m, n \in DOMAIN tasks : m < n =>
    \E a, b \in DOMAIN accepted :
      a < b /\ accepted[a] = tasks[m] /\ accepted[b] = tasks[n]

\* The blocks the jobs of a list are on.
BlocksOf(list) ==
  LET sum[n \in 0 .. Len(list)] == IF n = 0 THEN 0 ELSE sum[n - 1] + Covers[list[n]]
  IN sum[Len(list)]

\* A batch has fewer than batch_size blocks on their way when it prefetches
\* one more job: only the last job of a batch exceeds what the io manager can
\* have in flight.
PrefetchBudget ==
  call.pc = "prefetch_dev" => BlocksOf(batch) < batch_size

\* Whatever is read fits the buffer, which callbacks may replace; and client code
\* never runs while the processor holds a device, which it could not open
\* exclusively then.
ResourcesOK ==
  /\ call.pc \in {"read_dev", "task"} => LenOf[call.j] <= buffer_size
  /\ InClient => devs = 0

\* Every job added is reported once, to one of the callbacks, and exec returns
\* when none is left: the processor implements JobQueue.
Queue == INSTANCE JobQueue WITH
  todo <- {j \in Range(jobs) \cup Range(batch) : report[j] = "none"},
  running <- call.pc \notin {"idle", "destroyed"}
ImplementsJobQueue == Queue!Spec
=============================================================================
