------------------------- MODULE IoProcessorProofs -------------------------
(***************************************************************************)
(* Theorems about the io processor, for any number of jobs, any sizes, and *)
(* any of the failures the model has.                                      *)
(***************************************************************************)

EXTENDS IoProcessor, ListProofs, SequenceTheorems

-----------------------------------------------------------------------------
(* The inductive invariant                                                 *)

Pcs == {"idle", "batch", "prefetch", "prefetch_dev", "read", "read_dev",
        "err", "task", "destroyed"}
Walks == {"prefetch", "prefetch_dev", "read", "read_dev", "err", "task"}

TypeOK ==
  /\ jobs \in Seq(Jobs) /\ batch \in Seq(Jobs)
  /\ accepted \in Seq(Jobs) /\ tasks \in Seq(Jobs)
  /\ buffer_size \in Nat /\ devs \in Int
  /\ report \in [Jobs -> {"none", "done", "failed"}]
  /\ call \in [pc : Pcs, walk : {"jobs", "batch"}, j : Jobs \cup {End},
               tmp : Jobs \cup {End}, count : Nat]

\* The walk is at the first job of its list, for those before it have left,
\* and has the second at hand.  Jobs may have been added to iop->jobs since.
AtFirst(list) ==
  IF call.j = End
  THEN call.walk = "batch" => list = << >>
  ELSE /\ list # << >> /\ call.j = list[1]
       /\ call.tmp = End => (call.walk = "batch" => Len(list) = 1)
       /\ call.tmp # End => Len(list) > 1 /\ call.tmp = list[2]

PlaceOK ==
  /\ call.pc \notin Walks => batch = << >>
  /\ call.pc \in {"prefetch", "prefetch_dev"} => call.walk = "jobs"
  /\ call.pc \in {"read", "read_dev", "task"} => call.walk = "batch"
  /\ call.pc \in {"prefetch_dev", "read_dev", "err", "task"} => call.j # End
  /\ call.pc \in Walks => AtFirst(IF call.walk = "jobs" THEN jobs ELSE batch)

\* The place of a walk whose callback runs.
Current(walk, n) == call.pc \in {"err", "task"} /\ call.walk = walk /\ n = 1

\* Jobs go from iop->jobs over the batch to the task in the order they came.
\* (q: the jobs added so far)
Before(q, x, y) == \E a, b \in DOMAIN q : a < b /\ q[a] = x /\ q[b] = y
AllBefore(q, s, t) == \A m \in DOMAIN s, n \in DOMAIN t : Before(q, s[m], t[n])
Ordered(q, s) == \A m, n \in DOMAIN s : m < n => Before(q, s[m], s[n])
Added(q, s) == \A n \in DOMAIN s : \E a \in DOMAIN q : q[a] = s[n]

OrderOK ==
  /\ \A a, b \in DOMAIN accepted : accepted[a] = accepted[b] => a = b
  /\ Added(accepted, jobs) /\ Added(accepted, batch) /\ Added(accepted, tasks)
  /\ Ordered(accepted, jobs) /\ Ordered(accepted, batch) /\ Ordered(accepted, tasks)
  /\ AllBefore(accepted, batch, jobs) /\ AllBefore(accepted, tasks, jobs)
  /\ \A m \in DOMAIN tasks, n \in DOMAIN batch :
       Before(accepted, tasks[m], batch[n]) \/ (call.pc = "task" /\ n = 1)

\* A job on a list has not been reported, unless its callback runs.
ReportOK ==
  /\ \A j \in Jobs : (\A a \in DOMAIN accepted : accepted[a] # j) => report[j] = "none"
  /\ \A n \in DOMAIN jobs : report[jobs[n]] = "none" \/ Current("jobs", n)
  /\ \A n \in DOMAIN batch : report[batch[n]] = "none" \/ Current("batch", n)
  /\ call.pc \in {"err", "task"} => report[call.j] # "none"

\* The buffer is as large as any job needs.
Fit(list) == \A n \in DOMAIN list : LenOf[list[n]] <= buffer_size

\* One device is open, between get_dev and put_dev.
DevsOK == devs = IF call.pc \in {"prefetch_dev", "read_dev"} THEN 1 ELSE 0

\* count is what is left of batch_size.
BudgetOK ==
  /\ call.pc \in {"prefetch", "prefetch_dev"} \/ (call.pc = "err" /\ call.walk = "jobs") =>
       call.count = IF BlocksOf(batch) < batch_size THEN batch_size - BlocksOf(batch) ELSE 0
  /\ call.pc = "prefetch_dev" => call.count # 0

IInv ==
  /\ TypeOK /\ PlaceOK /\ OrderOK /\ ReportOK
  /\ Fit(jobs) /\ Fit(batch) /\ DevsOK /\ BudgetOK

-----------------------------------------------------------------------------
(* Lemmas about lists of jobs                                              *)

\* Removing the first element.
LEMMA RemoveHead ==
  ASSUME NEW S, NEW s \in Seq(S), s # << >>
  PROVE  /\ RemoveFirst(s, s[1]) \in Seq(S)
         /\ Len(RemoveFirst(s, s[1])) = Len(s) - 1
         /\ \A n \in 1 .. Len(s) - 1 : RemoveFirst(s, s[1])[n] = s[n + 1]
<1>1. Len(s) \in Nat \ {0}
  BY EmptySeq
<1> DEFINE I == {i \in 1 .. Len(s) : s[i] = s[1]}
<1>2. Min(I) = 1
  <2>1. 1 \in I /\ \A y \in I : 1 <= y
    BY <1>1
  <2>2. \A x \in I : (\A y \in I : x <= y) => x = 1
    BY <2>1
  <2> HIDE DEF I
  <2> QED BY <2>1, <2>2 DEF Min
<1>3. RemoveFirst(s, s[1]) = RemoveAt(s, Min(I))
  BY <1>1 DEF RemoveFirst, SelectInSeq
<1>4. RemoveAt(s, 1) = SubSeq(s, 1, 0) \o SubSeq(s, 2, Len(s))
  <2>1. 1 - 1 = 0 /\ 1 + 1 = 2
    OBVIOUS
  <2> QED BY <2>1 DEF RemoveAt
<1>5. SubSeq(s, 1, 0) = << >> /\ SubSeq(s, 2, Len(s)) = Tail(s)
  BY SubSeqEmpty, TailIsSubSeq
<1>6. Tail(s) \in Seq(S) /\ << >> \o Tail(s) = Tail(s)
  BY HeadTailProperties, ConcatEmptySeq
<1>7. RemoveFirst(s, s[1]) = Tail(s)
  <2> HIDE DEF I
  <2> QED BY <1>2, <1>3, <1>4, <1>5, <1>6
<1>8. Len(Tail(s)) = Len(s) - 1 /\ \A n \in 1 .. Len(Tail(s)) : Tail(s)[n] = s[n + 1]
  BY HeadTailProperties
<1> QED BY <1>6, <1>7, <1>8

\* A sum of blocks, and one job more.
Sums(s, g) == g = [n \in 0 .. Len(s) |-> IF n = 0 THEN 0 ELSE g[n - 1] + Covers[s[n]]]

LEMMA SumsExist ==
  ASSUME NEW s \in Seq(Jobs)
  PROVE  \E g : Sums(s, g)
<1> DEFINE P(k, g) == g = [n \in 0 .. k |-> IF n = 0 THEN 0 ELSE g[n - 1] + Covers[s[n]]]
           A == {k \in Nat : \E g : P(k, g)}
<1>1. 0 \in A
  <2>1. P(0, [n \in 0 .. 0 |-> 0])
    OBVIOUS
  <2> HIDE DEF P
  <2> QED BY <2>1
<1>2. ASSUME NEW k \in Nat, k \in A PROVE k + 1 \in A
  <2>1. PICK g : P(k, g)
    BY <1>2
  <2> DEFINE g2 == [n \in 0 .. k + 1 |-> IF n = 0 THEN 0 ELSE g[n - 1] + Covers[s[n]]]
  <2>2. ASSUME NEW n \in 0 .. k + 1, n # 0 PROVE g2[n - 1] = g[n - 1]
    <3>1. n - 1 \in 0 .. k /\ n - 1 \in 0 .. k + 1
      BY <2>2
    <3>2. g[n - 1] = IF n - 1 = 0 THEN 0 ELSE g[(n - 1) - 1] + Covers[s[n - 1]]
      BY <2>1, <3>1
    <3> QED BY <3>1, <3>2
  <2>3. g2 = [n \in 0 .. k + 1 |-> IF n = 0 THEN 0 ELSE g2[n - 1] + Covers[s[n]]]
    BY <2>2
  <2>4. P(k + 1, g2)
    <3> HIDE DEF g2
    <3> QED BY <2>3
  <2> HIDE DEF g2, P
  <2> QED BY <2>4
<1>3. 0 .. Len(s) \subseteq A
  <2>1. \A i \in 0 .. Len(s) : i \in A /\ i < Len(s) => i + 1 \in A
    BY <1>2
  <2> HIDE DEF A
  <2> QED BY <1>1, <2>1, UpTo
<1>4. Len(s) \in A
  BY <1>3
<1> QED BY <1>4 DEF Sums

LEMMA BlocksOfIs ==
  ASSUME NEW s \in Seq(Jobs)
  PROVE  \E g : Sums(s, g) /\ BlocksOf(s) = g[Len(s)]
<1> DEFINE sum == CHOOSE g : Sums(s, g)
<1>1. Sums(s, sum)
  BY SumsExist
<1>2. BlocksOf(s) = sum[Len(s)]
  BY DEF BlocksOf, Sums
<1> HIDE DEF sum
<1> QED BY <1>1, <1>2

LEMMA NoBlocks == BlocksOf(<< >>) = 0
<1>1. PICK g : Sums(<< >>, g) /\ BlocksOf(<< >>) = g[Len(<< >>)]
  BY BlocksOfIs, EmptySeq
<1>2. g[0] = 0
  BY <1>1 DEF Sums
<1> QED BY <1>1, <1>2

LEMMA BlocksNat ==
  ASSUME NEW s \in Seq(Jobs)
  PROVE  BlocksOf(s) \in Nat
<1>1. PICK g : Sums(s, g) /\ BlocksOf(s) = g[Len(s)]
  BY BlocksOfIs
<1>2. Len(s) \in Nat /\ \A n \in 1 .. Len(s) : Covers[s[n]] \in Nat
  <2>1. \A n \in 1 .. Len(s) : s[n] \in Jobs
    BY ElementOfSeq
  <2> QED BY <2>1, JobAssumption, LenProperties
<1> DEFINE A == {i \in 0 .. Len(s) : g[i] \in Nat}
<1>3. 0 .. Len(s) \subseteq A
  <2>1. 0 \in A
    BY <1>1, <1>2 DEF Sums
  <2>2. ASSUME NEW i \in 0 .. Len(s), i \in A, i < Len(s) PROVE i + 1 \in A
    <3>1. i + 1 \in 1 .. Len(s) /\ i + 1 \in 0 .. Len(s) /\ i + 1 # 0 /\ (i + 1) - 1 = i
      BY <1>2, <2>2
    <3>2. g[i + 1] = g[i] + Covers[s[i + 1]]
      BY <1>1, <3>1 DEF Sums
    <3> QED BY <1>2, <2>2, <3>1, <3>2
  <2> HIDE DEF A
  <2> QED BY <1>2, <2>1, <2>2, UpTo
<1> QED BY <1>1, <1>2, <1>3

LEMMA OneMore ==
  ASSUME NEW s \in Seq(Jobs), NEW j \in Jobs
  PROVE  BlocksOf(Append(s, j)) = BlocksOf(s) + Covers[j]
<1> DEFINE t == Append(s, j)
           m == Len(s)
<1>0. m \in Nat /\ t \in Seq(Jobs) /\ Len(t) = m + 1 /\ t[m + 1] = j
      /\ \A i \in 1 .. m : t[i] = s[i]
  OBVIOUS
<1>1. PICK g : Sums(s, g) /\ BlocksOf(s) = g[Len(s)]
  BY BlocksOfIs
<1>2. PICK h : Sums(t, h) /\ BlocksOf(t) = h[Len(t)]
  BY <1>0, BlocksOfIs
<1> HIDE DEF t
<1>3. /\ g[0] = 0 /\ h[0] = 0
      /\ \A i \in 0 .. m : i < m => g[i + 1] = g[i] + Covers[s[i + 1]]
      /\ \A i \in 0 .. m : h[i + 1] = h[i] + Covers[t[i + 1]]
  <2>1. g[0] = 0 /\ h[0] = 0
    BY <1>0, <1>1, <1>2 DEF Sums
  <2>2. ASSUME NEW i \in 0 .. m, i < m PROVE g[i + 1] = g[i] + Covers[s[i + 1]]
    <3>1. i + 1 \in 0 .. m /\ i + 1 # 0 /\ (i + 1) - 1 = i
      BY <2>2
    <3> QED BY <1>1, <3>1 DEF Sums
  <2>3. ASSUME NEW i \in 0 .. m PROVE h[i + 1] = h[i] + Covers[t[i + 1]]
    <3>1. i + 1 \in 0 .. m + 1 /\ i + 1 # 0 /\ (i + 1) - 1 = i
      BY <1>0
    <3> QED BY <1>0, <1>2, <3>1 DEF Sums
  <2> QED BY <2>1, <2>2, <2>3
<1> DEFINE A == {i \in 0 .. m : g[i] = h[i]}
<1>4. 0 .. m \subseteq A
  <2>1. 0 \in A
    BY <1>0, <1>3
  <2>2. ASSUME NEW i \in 0 .. m, i \in A, i < m PROVE i + 1 \in A
    <3>1. i + 1 \in 1 .. m /\ i + 1 \in 0 .. m
      BY <1>0, <2>2
    <3>2. s[i + 1] = t[i + 1]
      BY <1>0, <3>1
    <3> QED BY <1>3, <2>2, <3>1, <3>2
  <2> HIDE DEF A
  <2> QED BY <1>0, <2>1, <2>2, UpTo
<1>5. g[m] = h[m] /\ h[m + 1] = h[m] + Covers[t[m + 1]]
  BY <1>0, <1>3, <1>4
<1> QED BY <1>0, <1>1, <1>2, <1>5 DEF t

\* The second element follows the first.
LEMMA AfterFirst ==
  ASSUME NEW s \in Seq(Jobs), s # << >>, \A m, n \in DOMAIN s : s[m] = s[n] => m = n
  PROVE  After(s, s[1]) = IF Len(s) > 1 THEN s[2] ELSE End
<1>1. Len(s) \in Nat \ {0} /\ DOMAIN s = 1 .. Len(s)
  BY EmptySeq, LenProperties
<1>2. (CHOOSE n \in DOMAIN s : s[n] = s[1]) = 1
  BY <1>1
<1> QED BY <1>1, <1>2 DEF After

\* No two places of a list hold the same job, nor do both lists.
LEMMA NoTwice ==
  ASSUME TypeOK, OrderOK
  PROVE  /\ \A m, n \in DOMAIN jobs : jobs[m] = jobs[n] => m = n
         /\ \A m, n \in DOMAIN batch : batch[m] = batch[n] => m = n
         /\ \A m \in DOMAIN batch, n \in DOMAIN jobs : batch[m] # jobs[n]
<1>1. \A x : ~Before(accepted, x, x)
  <2> SUFFICES ASSUME NEW a \in DOMAIN accepted, NEW b \in DOMAIN accepted, a < b,
                      accepted[a] = accepted[b]
               PROVE  FALSE
    BY DEF Before
  <2>1. a = b /\ a \in Nat
    BY LenProperties DEF TypeOK, OrderOK
  <2> QED BY <2>1
<1>2. ASSUME NEW s \in Seq(Jobs), Ordered(accepted, s), NEW m \in DOMAIN s, NEW n \in DOMAIN s, s[m] = s[n]
      PROVE  m = n
  <2>1. m \in Nat /\ n \in Nat
    BY LenProperties
  <2> QED BY <1>1, <1>2, <2>1 DEF Ordered
<1>3. \A m \in DOMAIN batch, n \in DOMAIN jobs : batch[m] # jobs[n]
  BY <1>1 DEF OrderOK, AllBefore
<1> QED BY <1>2, <1>3 DEF TypeOK, OrderOK

-----------------------------------------------------------------------------
(* Steps                                                                   *)

LEMMA InitInv == Init => IInv
<1> SUFFICES ASSUME Init PROVE IInv
  OBVIOUS
<1>1. TypeOK
  BY EmptySeq DEF Init, TypeOK, Idle, Pcs
<1>2. PlaceOK /\ DevsOK
  BY DEF Init, PlaceOK, DevsOK, Idle, Walks
<1>3. DOMAIN jobs = {} /\ DOMAIN batch = {} /\ DOMAIN accepted = {} /\ DOMAIN tasks = {}
  BY DEF Init
<1>4. OrderOK /\ ReportOK /\ Fit(jobs) /\ Fit(batch)
  BY <1>3 DEF OrderOK, ReportOK, Fit, Added, Ordered, AllBefore, Init, Idle
<1>5. BudgetOK
  BY NoBlocks DEF Init, BudgetOK, Idle
<1> QED BY <1>1, <1>2, <1>4, <1>5 DEF IInv

\* A step that leaves the lists alone.
LEMMA SameLists ==
  ASSUME IInv, UNCHANGED <<jobs, batch, buffer_size, accepted, tasks>>, call.pc # "task"
  PROVE  OrderOK' /\ Fit(jobs)' /\ Fit(batch)'
  BY DEF IInv, OrderOK, Fit

\* A job comes last, wherever the walk is.
LEMMA AddInv ==
  ASSUME IInv, NEW j \in Jobs, io_processor_add(j)
  PROVE  IInv'
<1>1. /\ InClient /\ jobs' = Append(jobs, j) /\ accepted' = Append(accepted, j)
      /\ UNCHANGED <<batch, call, devs, tasks, report>>
      /\ \A a \in DOMAIN accepted : accepted[a] # j
  BY DEF io_processor_add, Queued, Range
<1>2. TypeOK /\ Len(jobs) \in Nat /\ Len(accepted) \in Nat
  BY LenProperties DEF IInv, TypeOK
<1>3. /\ jobs' \in Seq(Jobs) /\ DOMAIN jobs = 1 .. Len(jobs) /\ DOMAIN jobs' = 1 .. Len(jobs) + 1
      /\ jobs'[Len(jobs) + 1] = j /\ \A n \in DOMAIN jobs : jobs'[n] = jobs[n]
  BY <1>1, <1>2 DEF TypeOK
<1>4. /\ accepted' \in Seq(Jobs)
      /\ DOMAIN accepted = 1 .. Len(accepted) /\ DOMAIN accepted' = 1 .. Len(accepted) + 1
      /\ accepted'[Len(accepted) + 1] = j
      /\ \A n \in DOMAIN accepted : accepted'[n] = accepted[n]
  BY <1>1, <1>2 DEF TypeOK
<1>5. /\ buffer_size' \in Nat /\ buffer_size <= buffer_size' /\ LenOf[j] <= buffer_size'
  <2>1. LenOf[j] \in Nat /\ buffer_size' = BufferSize(LenOf[j])
    BY JobAssumption DEF io_processor_add
  <2>2. LenOf[j] * 512 \in Nat /\ LenOf[j] <= LenOf[j] * 512
    BY <2>1
  <2> QED BY <1>2, <2>1, <2>2 DEF BufferSize, TypeOK
<1>6. TypeOK'
  BY <1>1, <1>2, <1>3, <1>4, <1>5 DEF TypeOK
<1>7. PlaceOK'
  <2>1. \A n \in DOMAIN jobs : n \in DOMAIN jobs'
    BY <1>2, <1>3
  <2>2. jobs # << >> => /\ jobs' # << >> /\ jobs'[1] = jobs[1]
    <3> SUFFICES ASSUME jobs # << >> PROVE jobs' # << >> /\ jobs'[1] = jobs[1]
      OBVIOUS
    <3>1. 1 \in DOMAIN jobs
      BY <1>2, <1>3, EmptySeq DEF TypeOK
    <3> QED BY <1>3, <2>1, <3>1
  <2>3. Len(jobs) > 1 => Len(jobs') > 1 /\ jobs'[2] = jobs[2]
    BY <1>1, <1>2, <1>3 DEF TypeOK
  <2> QED BY <1>1, <2>2, <2>3 DEF IInv, PlaceOK, AtFirst
<1>8. OrderOK'
  <2> DEFINE q == accepted'
  <2>1. \A x, y : Before(accepted, x, y) => Before(q, x, y)
    BY <1>2, <1>4 DEF Before
  <2>2. ASSUME NEW a \in DOMAIN accepted PROVE Before(q, accepted[a], j)
    <3>1. a < Len(accepted) + 1 /\ a \in DOMAIN accepted' /\ Len(accepted) + 1 \in DOMAIN accepted'
      BY <1>2, <1>4
    <3> QED BY <1>4, <3>1 DEF Before
  <2>3. ASSUME NEW s, Added(accepted, s), NEW n \in DOMAIN s PROVE Before(q, s[n], j)
    BY <2>2, <2>3 DEF Added
  <2>4. \A a, b \in DOMAIN q : q[a] = q[b] => a = b
    BY <1>1, <1>2, <1>4 DEF IInv, OrderOK
  <2>5. Added(q, jobs') /\ Added(q, batch) /\ Added(q, tasks)
    <3>1. \A s : Added(accepted, s) => Added(q, s)
      BY <1>2, <1>4 DEF Added
    <3>2. Added(accepted, jobs) /\ Added(accepted, batch) /\ Added(accepted, tasks)
      BY <1>1 DEF IInv, OrderOK
    <3>3. Added(q, jobs')
      BY <1>2, <1>3, <1>4, <3>2 DEF Added
    <3> QED BY <3>1, <3>2, <3>3
  <2>6. Ordered(q, jobs')
    <3> SUFFICES ASSUME NEW m \in DOMAIN jobs', NEW n \in DOMAIN jobs', m < n
                 PROVE  Before(q, jobs'[m], jobs'[n])
      BY DEF Ordered
    <3>1. m \in DOMAIN jobs
      BY <1>2, <1>3
    <3>2. CASE n \in DOMAIN jobs
      BY <1>3, <2>1, <3>1, <3>2 DEF IInv, OrderOK, Ordered
    <3>3. CASE n \notin DOMAIN jobs
      <4>1. n = Len(jobs) + 1
        BY <1>2, <1>3, <3>3
      <4> QED BY <1>3, <2>3, <3>1, <4>1 DEF IInv, OrderOK
    <3> QED BY <3>2, <3>3
  <2>7. ASSUME NEW s, AllBefore(accepted, s, jobs), Added(accepted, s),
               NEW m \in DOMAIN s, NEW n \in DOMAIN jobs'
        PROVE  Before(q, s[m], jobs'[n])
    <3>1. CASE n \in DOMAIN jobs
      BY <1>3, <2>1, <2>7, <3>1 DEF AllBefore
    <3>2. CASE n \notin DOMAIN jobs
      <4>1. n = Len(jobs) + 1
        BY <1>2, <1>3, <3>2
      <4> QED BY <1>3, <2>3, <2>7, <4>1
    <3> QED BY <3>1, <3>2
  <2>8. AllBefore(q, batch, jobs') /\ AllBefore(q, tasks, jobs')
    BY <2>7 DEF IInv, OrderOK, AllBefore
  <2>9. Ordered(q, batch) /\ Ordered(q, tasks)
    BY <2>1 DEF IInv, OrderOK, Ordered
  <2>10. \A m \in DOMAIN tasks, n \in DOMAIN batch :
           Before(q, tasks[m], batch[n]) \/ (call.pc = "task" /\ n = 1)
    BY <2>1 DEF IInv, OrderOK
  <2> QED BY <1>1, <2>4, <2>5, <2>6, <2>8, <2>9, <2>10 DEF OrderOK
<1>9. ReportOK'
  <2>1. report[j] = "none"
    BY <1>1 DEF IInv, ReportOK
  <2>2. \A i \in Jobs : (\A a \in DOMAIN accepted' : accepted'[a] # i) => report[i] = "none"
    BY <1>2, <1>4 DEF IInv, ReportOK
  <2>3. \A n \in DOMAIN jobs' : report[jobs'[n]] = "none" \/ Current("jobs", n)
    BY <1>2, <1>3, <2>1 DEF IInv, ReportOK
  <2> QED BY <1>1, <2>2, <2>3 DEF IInv, ReportOK, Current
<1>10. Fit(jobs)' /\ Fit(batch)'
  <2>1. \A n \in DOMAIN jobs : jobs[n] \in Jobs
    BY ElementOfSeq, LenProperties, <1>2 DEF TypeOK
  <2>2. \A n \in DOMAIN batch : batch[n] \in Jobs
    BY ElementOfSeq, LenProperties, <1>2 DEF TypeOK
  <2>3. \A i \in Jobs : LenOf[i] \in Nat
    BY JobAssumption
  <2>4. \A i \in Jobs : LenOf[i] <= buffer_size => LenOf[i] <= buffer_size'
    BY <1>2, <1>5, <2>3 DEF TypeOK
  <2>5. ASSUME NEW n \in DOMAIN jobs' PROVE LenOf[jobs'[n]] <= buffer_size'
    <3>1. CASE n \in DOMAIN jobs
      BY <1>3, <2>1, <2>4, <3>1 DEF IInv, Fit
    <3>2. CASE n \notin DOMAIN jobs
      <4>1. n = Len(jobs) + 1
        BY <1>2, <1>3, <3>2
      <4> QED BY <1>3, <1>5, <4>1
    <3> QED BY <3>1, <3>2
  <2> QED BY <1>1, <2>2, <2>4, <2>5 DEF IInv, Fit
<1>11. DevsOK' /\ BudgetOK'
  BY <1>1 DEF IInv, DevsOK, BudgetOK
<1> QED BY <1>6, <1>7, <1>8, <1>9, <1>10, <1>11 DEF IInv

\* A walk begins at the first job of its list.
LEMMA FirstIs ==
  ASSUME NEW s \in Seq(Jobs), \A m, n \in DOMAIN s : s[m] = s[n] => m = n,
         NEW pc, NEW walk, NEW count
  PROVE  First(pc, walk, s, count) =
           [pc |-> pc, walk |-> walk, count |-> count,
            j |-> IF s = << >> THEN End ELSE s[1],
            tmp |-> IF Len(s) > 1 THEN s[2] ELSE End]
<1>1. CASE s = << >>
  BY <1>1 DEF First, At
<1>2. CASE s # << >>
  <2>1. s[1] \in Jobs /\ Head(s) = s[1]
    BY <1>2, EmptySeq, ElementOfSeq, LenProperties, HeadTailProperties
  <2>2. s[1] # End
    BY <2>1, JobAssumption
  <2> QED BY <1>2, <2>1, <2>2, AfterFirst DEF First, At
<1> QED BY <1>1, <1>2

\* The list a walk is on, and the job it is at.
LEMMA WalkStarts ==
  ASSUME NEW s \in Seq(Jobs), \A m, n \in DOMAIN s : s[m] = s[n] => m = n,
         NEW pc \in Pcs, NEW walk \in {"jobs", "batch"}, NEW count \in Nat,
         call' = First(pc, walk, s, count)
  PROVE  /\ call' \in [pc : Pcs, walk : {"jobs", "batch"}, j : Jobs \cup {End},
                       tmp : Jobs \cup {End}, count : Nat]
         /\ call'.pc = pc /\ call'.walk = walk /\ call'.count = count
         /\ IF call'.j = End THEN s = << >>
            ELSE /\ s # << >> /\ call'.j = s[1]
                 /\ call'.tmp = End => Len(s) = 1
                 /\ call'.tmp # End => Len(s) > 1 /\ call'.tmp = s[2]
<1>1. call' = [pc |-> pc, walk |-> walk, count |-> count,
               j |-> IF s = << >> THEN End ELSE s[1],
               tmp |-> IF Len(s) > 1 THEN s[2] ELSE End]
  BY FirstIs
<1>2. Len(s) \in Nat /\ (s # << >> => Len(s) # 0) /\ (s = << >> => Len(s) = 0)
  BY EmptySeq, LenProperties
<1>3. \A n \in 1 .. Len(s) : s[n] \in Jobs /\ s[n] # End
  BY ElementOfSeq, JobAssumption
<1>4. s # << >> => s[1] \in Jobs /\ s[1] # End
  BY <1>2, <1>3
<1>5. Len(s) > 1 => s[2] \in Jobs /\ s[2] # End
  BY <1>2, <1>3
<1> HIDE DEF Pcs
<1> QED BY <1>1, <1>2, <1>4, <1>5

\* The calls that leave all but the place in the program alone.
LEMMA ExecInv ==
  ASSUME IInv, io_processor_exec \/ batch_done
  PROVE  IInv'
<1>1. /\ call' = [Idle EXCEPT !.pc = "batch"]
      /\ UNCHANGED <<jobs, batch, buffer_size, devs, accepted, tasks, report>>
      /\ call.pc \in {"idle", "read"}
  BY DEF io_processor_exec, batch_done
<1>2. batch = << >>
  BY DEF io_processor_exec, batch_done, IInv, PlaceOK, AtFirst, Walks
<1>3. OrderOK' /\ Fit(jobs)' /\ Fit(batch)'
  BY <1>1, SameLists
<1>4. TypeOK'
  BY <1>1 DEF IInv, TypeOK, Idle, Pcs
<1>5. PlaceOK' /\ DevsOK' /\ BudgetOK'
  BY <1>1, <1>2 DEF IInv, PlaceOK, DevsOK, BudgetOK, Idle, Walks
<1>6. ReportOK'
  BY <1>1 DEF IInv, ReportOK, Current, Idle
<1> QED BY <1>3, <1>4, <1>5, <1>6 DEF IInv

LEMMA DestroyInv ==
  ASSUME IInv, io_processor_destroy
  PROVE  IInv'
<1>1. /\ call' = [Idle EXCEPT !.pc = "destroyed"] /\ call.pc = "idle" /\ jobs' = << >>
      /\ UNCHANGED <<batch, buffer_size, devs, accepted, tasks, report>>
  BY DEF io_processor_destroy
<1>2. batch = << >> /\ DOMAIN jobs' = {} /\ DOMAIN batch = {}
  BY <1>1 DEF IInv, PlaceOK, Walks
<1>3. TypeOK'
  BY <1>1, EmptySeq DEF IInv, TypeOK, Idle, Pcs
<1>4. PlaceOK' /\ DevsOK' /\ BudgetOK'
  BY <1>1, <1>2 DEF IInv, PlaceOK, DevsOK, BudgetOK, Idle, Walks
<1>5. OrderOK' /\ ReportOK' /\ Fit(jobs)' /\ Fit(batch)'
  BY <1>1, <1>2 DEF IInv, OrderOK, ReportOK, Fit, Added, Ordered, AllBefore, Idle, Current
<1> QED BY <1>3, <1>4, <1>5 DEF IInv

LEMMA NextBatchInv ==
  ASSUME IInv, next_batch
  PROVE  IInv'
<1>1. /\ call.pc = "batch" /\ batch = << >>
      /\ call' = IF jobs = << >> THEN Idle ELSE First("prefetch", "jobs", jobs, batch_size)
      /\ UNCHANGED <<jobs, batch, buffer_size, devs, accepted, tasks, report>>
  BY DEF next_batch, IInv, PlaceOK, Walks
<1>2. OrderOK' /\ Fit(jobs)' /\ Fit(batch)'
  BY <1>1, SameLists
<1>3. CASE jobs = << >>
  <2>1. TypeOK'
    BY <1>1, <1>3 DEF IInv, TypeOK, Idle, Pcs
  <2>2. PlaceOK' /\ DevsOK' /\ BudgetOK'
    BY <1>1, <1>3 DEF IInv, PlaceOK, DevsOK, BudgetOK, Idle, Walks
  <2>3. ReportOK'
    BY <1>1, <1>3 DEF IInv, ReportOK, Current, Idle
  <2> QED BY <1>2, <2>1, <2>2, <2>3 DEF IInv
<1>4. CASE jobs # << >>
  <2>1. /\ call' \in [pc : Pcs, walk : {"jobs", "batch"}, j : Jobs \cup {End},
                      tmp : Jobs \cup {End}, count : Nat]
        /\ call'.pc = "prefetch" /\ call'.walk = "jobs" /\ call'.count = batch_size
        /\ IF call'.j = End THEN jobs = << >>
           ELSE /\ jobs # << >> /\ call'.j = jobs[1]
                /\ call'.tmp = End => Len(jobs) = 1
                /\ call'.tmp # End => Len(jobs) > 1 /\ call'.tmp = jobs[2]
    BY <1>1, <1>4, WalkStarts, NoTwice, JobAssumption DEF IInv, TypeOK, Pcs
  <2>2. TypeOK'
    BY <1>1, <2>1 DEF IInv, TypeOK
  <2>3. PlaceOK' /\ DevsOK'
    BY <1>1, <2>1 DEF IInv, PlaceOK, DevsOK, AtFirst, Walks
  <2>4. BudgetOK'
    BY <1>1, <2>1, NoBlocks, JobAssumption DEF BudgetOK
  <2>5. ReportOK'
    BY <1>1, <2>1 DEF IInv, ReportOK, Current
  <2> QED BY <1>2, <2>2, <2>3, <2>4, <2>5 DEF IInv
<1> QED BY <1>3, <1>4

LEMMA PrefetchedInv ==
  ASSUME IInv, prefetched
  PROVE  IInv'
<1>1. /\ call.pc = "prefetch" /\ call' = First("read", "batch", batch, 0)
      /\ UNCHANGED <<jobs, batch, buffer_size, devs, accepted, tasks, report>>
  BY DEF prefetched
<1>2. OrderOK' /\ Fit(jobs)' /\ Fit(batch)'
  BY <1>1, SameLists
<1>3. /\ call' \in [pc : Pcs, walk : {"jobs", "batch"}, j : Jobs \cup {End},
                    tmp : Jobs \cup {End}, count : Nat]
      /\ call'.pc = "read" /\ call'.walk = "batch" /\ call'.count = 0
      /\ IF call'.j = End THEN batch = << >>
         ELSE /\ batch # << >> /\ call'.j = batch[1]
              /\ call'.tmp = End => Len(batch) = 1
              /\ call'.tmp # End => Len(batch) > 1 /\ call'.tmp = batch[2]
  BY <1>1, WalkStarts, NoTwice DEF IInv, TypeOK, Pcs
<1>4. TypeOK'
  BY <1>1, <1>3 DEF IInv, TypeOK
<1>5. PlaceOK' /\ DevsOK' /\ BudgetOK'
  BY <1>1, <1>3 DEF IInv, PlaceOK, DevsOK, BudgetOK, AtFirst, Walks
<1>6. ReportOK'
  BY <1>1, <1>3 DEF IInv, ReportOK, Current
<1> QED BY <1>2, <1>4, <1>5, <1>6 DEF IInv

LEMMA GetDevInv ==
  ASSUME IInv, get_dev
  PROVE  IInv'
<1>1. /\ call' = [call EXCEPT !.pc = IF @ = "prefetch" THEN "prefetch_dev" ELSE "read_dev"]
      /\ devs' = devs + 1 /\ call.j # End
      /\ (call.pc = "prefetch" /\ call.count # 0) \/ call.pc = "read"
      /\ UNCHANGED <<jobs, batch, buffer_size, accepted, tasks, report>>
  BY DEF get_dev, GetNext
<1>2. OrderOK' /\ Fit(jobs)' /\ Fit(batch)'
  BY <1>1, SameLists
<1>3. /\ call'.pc = IF call.pc = "prefetch" THEN "prefetch_dev" ELSE "read_dev"
      /\ call'.walk = call.walk /\ call'.j = call.j /\ call'.tmp = call.tmp
      /\ call'.count = call.count
  BY <1>1 DEF IInv, TypeOK
<1>4. TypeOK'
  <2>1. call' \in [pc : Pcs, walk : {"jobs", "batch"}, j : Jobs \cup {End},
                  tmp : Jobs \cup {End}, count : Nat]
    <3> DEFINE pc == IF call.pc = "prefetch" THEN "prefetch_dev" ELSE "read_dev"
    <3>1. pc \in Pcs /\ call' = [call EXCEPT !.pc = pc]
      BY <1>1 DEF Pcs
    <3> HIDE DEF pc
    <3> QED BY <3>1 DEF IInv, TypeOK
  <2> QED BY <1>1, <2>1 DEF IInv, TypeOK
<1>5. PlaceOK' /\ DevsOK' /\ BudgetOK'
  BY <1>1, <1>3 DEF IInv, PlaceOK, DevsOK, BudgetOK, AtFirst, Walks
<1>6. ReportOK'
  BY <1>1, <1>3 DEF IInv, ReportOK, Current
<1> QED BY <1>2, <1>4, <1>5, <1>6 DEF IInv

\* What changes with one report.
LEMMA Reported ==
  ASSUME IInv, call.pc \in Walks, call.j # End,
         NEW r \in {"done", "failed"}, report' = [report EXCEPT ![call.j] = r],
         UNCHANGED <<jobs, batch, accepted>>,
         call'.pc \in {"err", "task"}, call'.walk = call.walk, call'.j = call.j
  PROVE  ReportOK'
<1> DEFINE list == IF call.walk = "jobs" THEN jobs ELSE batch
<1>1. list # << >> /\ call.j = list[1] /\ list \in Seq(Jobs)
  BY DEF IInv, PlaceOK, AtFirst, TypeOK
<1>2. 1 \in DOMAIN list /\ call.j \in Jobs
  BY <1>1, EmptySeq, LenProperties, ElementOfSeq
<1>3. report'[call.j] = r /\ r # "none" /\ \A i \in Jobs \ {call.j} : report'[i] = report[i]
  BY <1>2 DEF IInv, TypeOK
<1>4. \E a \in DOMAIN accepted : accepted[a] = call.j
  BY <1>1, <1>2 DEF IInv, OrderOK, Added
<1>5. \A i \in Jobs : (\A a \in DOMAIN accepted : accepted[a] # i) => report'[i] = "none"
  BY <1>3, <1>4 DEF IInv, ReportOK
<1>6. /\ \A n \in DOMAIN jobs : jobs[n] \in Jobs
      /\ \A n \in DOMAIN batch : batch[n] \in Jobs
  BY ElementOfSeq, LenProperties DEF IInv, TypeOK
<1>7. call.walk \in {"jobs", "batch"}
  BY DEF IInv, TypeOK
<1>8. ASSUME NEW n \in DOMAIN jobs
      PROVE  report'[jobs[n]] = "none" \/ (call.walk = "jobs" /\ n = 1)
  <2>1. jobs[n] = call.j => call.walk = "jobs" /\ n = 1
    BY <1>1, <1>2, <1>7, NoTwice DEF IInv
  <2>2. jobs[n] # call.j => report'[jobs[n]] = report[jobs[n]]
    BY <1>3, <1>6
  <2> QED BY <2>1, <2>2 DEF IInv, ReportOK, Current
<1>9. ASSUME NEW n \in DOMAIN batch
      PROVE  report'[batch[n]] = "none" \/ (call.walk = "batch" /\ n = 1)
  <2>1. batch[n] = call.j => call.walk = "batch" /\ n = 1
    BY <1>1, <1>2, <1>7, NoTwice DEF IInv
  <2>2. batch[n] # call.j => report'[batch[n]] = report[batch[n]]
    BY <1>3, <1>6
  <2> QED BY <2>1, <2>2 DEF IInv, ReportOK, Current
<1> QED BY <1>3, <1>5, <1>8, <1>9 DEF ReportOK, Current

LEMMA FailsInv ==
  ASSUME IInv, get_dev_fails \/ read_bytes_fails
  PROVE  IInv'
<1>1. /\ call' = [call EXCEPT !.pc = "err"] /\ call.j # End
      /\ report' = [report EXCEPT ![call.j] = "failed"]
      /\ \/ call.pc \in {"prefetch", "read"} /\ devs' = devs
         \/ call.pc = "read_dev" /\ devs' = devs - 1
      /\ UNCHANGED <<jobs, batch, buffer_size, accepted, tasks>>
  BY DEF get_dev_fails, GetNext, read_bytes_fails, PutAfterFailure, IInv, PlaceOK
<1>2. OrderOK' /\ Fit(jobs)' /\ Fit(batch)'
  BY <1>1, SameLists
<1>3. /\ call'.pc = "err" /\ call'.walk = call.walk /\ call'.j = call.j
      /\ call'.tmp = call.tmp /\ call'.count = call.count
  BY <1>1 DEF IInv, TypeOK
<1>4. TypeOK'
  <2>1. report' \in [Jobs -> {"none", "done", "failed"}]
    BY <1>1 DEF IInv, TypeOK
  <2>2. call' \in [pc : Pcs, walk : {"jobs", "batch"}, j : Jobs \cup {End},
                  tmp : Jobs \cup {End}, count : Nat]
    BY <1>1 DEF IInv, TypeOK, Pcs
  <2>3. devs' \in Int
    BY <1>1 DEF IInv, TypeOK
  <2> QED BY <1>1, <2>1, <2>2, <2>3 DEF IInv, TypeOK
<1>5. PlaceOK' /\ DevsOK' /\ BudgetOK'
  BY <1>1, <1>3 DEF IInv, PlaceOK, DevsOK, BudgetOK, AtFirst, Walks
<1>6. ReportOK'
  BY <1>1, <1>3, Reported DEF Walks
<1> QED BY <1>2, <1>4, <1>5, <1>6 DEF IInv

\* The job whose bytes were read comes after those of all the tasks before.
LEMMA ReadBytesInv ==
  ASSUME IInv, read_bytes
  PROVE  IInv'
<1>1. /\ call' = [call EXCEPT !.pc = "task"] /\ call.pc = "read_dev"
      /\ report' = [report EXCEPT ![call.j] = "done"]
      /\ tasks' = Append(tasks, call.j) /\ devs' = devs - 1
      /\ UNCHANGED <<jobs, batch, buffer_size, accepted>>
  BY DEF read_bytes
<1>2. /\ call'.pc = "task" /\ call'.walk = call.walk /\ call'.j = call.j
      /\ call'.tmp = call.tmp /\ call'.count = call.count
  BY <1>1 DEF IInv, TypeOK
<1>3. /\ call.walk = "batch" /\ call.j # End /\ batch # << >> /\ call.j = batch[1]
      /\ batch \in Seq(Jobs) /\ jobs \in Seq(Jobs)
  BY <1>1 DEF IInv, PlaceOK, AtFirst, TypeOK, Walks
<1>4. 1 \in DOMAIN batch /\ call.j \in Jobs /\ \A n \in DOMAIN batch : n \in Nat /\ n >= 1
  BY <1>3, EmptySeq, LenProperties, ElementOfSeq
<1>5. /\ tasks \in Seq(Jobs) /\ tasks' \in Seq(Jobs) /\ Len(tasks) \in Nat
      /\ DOMAIN tasks = 1 .. Len(tasks) /\ DOMAIN tasks' = 1 .. Len(tasks) + 1
      /\ tasks'[Len(tasks) + 1] = call.j /\ \A n \in DOMAIN tasks : tasks'[n] = tasks[n]
  <2>1. tasks \in Seq(Jobs)
    BY DEF IInv, TypeOK
  <2> QED BY <1>1, <1>4, <2>1, LenProperties
<1>6. TypeOK'
  <2>1. report' \in [Jobs -> {"none", "done", "failed"}]
    BY <1>1 DEF IInv, TypeOK
  <2>2. call' \in [pc : Pcs, walk : {"jobs", "batch"}, j : Jobs \cup {End},
                  tmp : Jobs \cup {End}, count : Nat]
    BY <1>1 DEF IInv, TypeOK, Pcs
  <2>3. devs' \in Int
    BY <1>1 DEF IInv, TypeOK
  <2> QED BY <1>1, <1>5, <2>1, <2>2, <2>3 DEF IInv, TypeOK
<1>7. PlaceOK' /\ DevsOK' /\ BudgetOK'
  BY <1>1, <1>2 DEF IInv, PlaceOK, DevsOK, BudgetOK, AtFirst, Walks
<1>8. ReportOK'
  BY <1>1, <1>2, <1>3, Reported DEF Walks
<1>9. OrderOK'
  <2>1. \A m \in DOMAIN tasks : Before(accepted, tasks[m], call.j)
    BY <1>1, <1>3, <1>4 DEF IInv, OrderOK
  <2>2. Added(accepted, tasks')
    <3> SUFFICES ASSUME NEW n \in DOMAIN tasks'
                 PROVE  \E a \in DOMAIN accepted : accepted[a] = tasks'[n]
      BY DEF Added
    <3>1. n \in DOMAIN tasks \/ n = Len(tasks) + 1
      BY <1>5
    <3> QED BY <1>3, <1>4, <1>5, <3>1 DEF IInv, OrderOK, Added
  <2>3. Ordered(accepted, tasks')
    <3> SUFFICES ASSUME NEW m \in DOMAIN tasks', NEW n \in DOMAIN tasks', m < n
                 PROVE  Before(accepted, tasks'[m], tasks'[n])
      BY DEF Ordered
    <3>1. m \in DOMAIN tasks /\ (n \in DOMAIN tasks \/ n = Len(tasks) + 1)
      BY <1>5
    <3> QED BY <1>5, <2>1, <3>1 DEF IInv, OrderOK, Ordered
  <2>4. AllBefore(accepted, tasks', jobs)
    <3> SUFFICES ASSUME NEW m \in DOMAIN tasks', NEW n \in DOMAIN jobs
                 PROVE  Before(accepted, tasks'[m], jobs[n])
      BY DEF AllBefore
    <3>1. m \in DOMAIN tasks \/ m = Len(tasks) + 1
      BY <1>5
    <3> QED BY <1>3, <1>4, <1>5, <3>1 DEF IInv, OrderOK, AllBefore
  <2>5. \A m \in DOMAIN tasks', n \in DOMAIN batch : Before(accepted, tasks'[m], batch[n]) \/ n = 1
    <3> SUFFICES ASSUME NEW m \in DOMAIN tasks', NEW n \in DOMAIN batch, n # 1
                 PROVE  Before(accepted, tasks'[m], batch[n])
      OBVIOUS
    <3>1. m \in DOMAIN tasks \/ m = Len(tasks) + 1
      BY <1>5
    <3>2. 1 < n
      BY <1>4
    <3> QED BY <1>1, <1>3, <1>4, <1>5, <3>1, <3>2 DEF IInv, OrderOK, Ordered
  <2> QED BY <1>1, <1>2, <2>2, <2>3, <2>4, <2>5 DEF IInv, OrderOK
<1>10. Fit(jobs)' /\ Fit(batch)'
  BY <1>1 DEF IInv, Fit
<1> QED BY <1>6, <1>7, <1>8, <1>9, <1>10 DEF IInv

-----------------------------------------------------------------------------
(* Steps that take the first job off a list                                *)

FirstLeft(s, t) == Len(t) = Len(s) - 1 /\ \A n \in 1 .. Len(s) - 1 : t[n] = s[n + 1]

LEMMA Shorter ==
  ASSUME NEW q, NEW s \in Seq(Jobs), NEW t \in Seq(Jobs), FirstLeft(s, t)
  PROVE  /\ \A n \in DOMAIN t : n + 1 \in DOMAIN s /\ n + 1 # 1 /\ 1 < n + 1 /\ t[n] = s[n + 1]
         /\ Added(q, s) => Added(q, t)
         /\ Ordered(q, s) => Ordered(q, t)
<1>1. /\ DOMAIN s = 1 .. Len(s) /\ DOMAIN t = 1 .. Len(t) /\ Len(s) \in Nat /\ Len(t) \in Nat
  BY LenProperties
<1>2. \A n \in DOMAIN t : n + 1 \in DOMAIN s /\ n + 1 # 1 /\ 1 < n + 1 /\ t[n] = s[n + 1]
  BY <1>1 DEF FirstLeft
<1>3. Added(q, s) => Added(q, t)
  BY <1>2 DEF Added
<1>4. ASSUME Ordered(q, s), NEW m \in DOMAIN t, NEW n \in DOMAIN t, m < n
      PROVE  Before(q, t[m], t[n])
  <2>1. m + 1 < n + 1
    BY <1>1, <1>4
  <2> QED BY <1>2, <1>4, <2>1 DEF Ordered
<1> QED BY <1>2, <1>3, <1>4 DEF Ordered

\* The walk goes on to the job it had at hand, which is the first now.
LEMMA WalkGoesOn ==
  ASSUME TypeOK, NEW s \in Seq(Jobs), NEW t \in Seq(Jobs), FirstLeft(s, t), s # << >>,
         \A m, n \in DOMAIN s : s[m] = s[n] => m = n,
         call.tmp = End => (call.walk = "batch" => Len(s) = 1),
         call.tmp # End => Len(s) > 1 /\ call.tmp = s[2],
         NEW pc \in Pcs, NEW count \in Nat, call' = Advance(pc, t, count)
  PROVE  /\ call' \in [pc : Pcs, walk : {"jobs", "batch"}, j : Jobs \cup {End},
                       tmp : Jobs \cup {End}, count : Nat]
         /\ call'.pc = pc /\ call'.walk = call.walk /\ call'.count = count
         /\ IF call'.j = End THEN call.walk = "batch" => t = << >>
            ELSE /\ t # << >> /\ call'.j = t[1]
                 /\ call'.tmp = End => Len(t) = 1
                 /\ call'.tmp # End => Len(t) > 1 /\ call'.tmp = t[2]
<1>1. Len(s) \in Nat /\ Len(t) \in Nat /\ (t # << >> => Len(t) # 0) /\ (t = << >> => Len(t) = 0)
  BY EmptySeq, LenProperties
<1>2. call.walk \in {"jobs", "batch"}
  BY DEF TypeOK
<1>3. CASE call.tmp = End
  <2>1. call' = [pc |-> pc, walk |-> call.walk, j |-> End, count |-> count, tmp |-> End]
    BY <1>3 DEF Advance, At
  <2>2. call.walk = "batch" => t = << >>
    BY <1>1, <1>3 DEF FirstLeft
  <2> HIDE DEF Pcs
  <2> QED BY <1>2, <2>1, <2>2
<1>4. CASE call.tmp # End
  <2>1. t # << >> /\ call.tmp = t[1]
    BY <1>1, <1>4 DEF FirstLeft
  <2>2. Head(t) = t[1]
    BY <2>1, HeadTailProperties
  <2>3. call' = First(pc, call.walk, t, count)
    BY <2>1, <2>2 DEF Advance, First
  <2>4. \A m, n \in DOMAIN t : t[m] = t[n] => m = n
    <3> TAKE m \in DOMAIN t, n \in DOMAIN t
    <3>1. m \in Nat /\ n \in Nat
      BY LenProperties
    <3>2. \A i \in DOMAIN t : i + 1 \in DOMAIN s /\ t[i] = s[i + 1]
      BY Shorter
    <3>3. t[m] = t[n] => m + 1 = n + 1
      BY <3>2
    <3> QED BY <3>1, <3>3
  <2> QED BY <1>2, <2>1, <2>3, <2>4, WalkStarts
<1> QED BY <1>3, <1>4

LEMMA PrefetchBytesInv ==
  ASSUME IInv, prefetch_bytes
  PROVE  IInv'
<1>1. /\ call.pc = "prefetch_dev" /\ devs' = devs - 1
      /\ jobs' = RemoveFirst(jobs, call.j) /\ batch' = Append(batch, call.j)
      /\ call' = Advance("prefetch", jobs', Left(call.count, call.j))
      /\ UNCHANGED <<buffer_size, accepted, tasks, report>>
  BY DEF prefetch_bytes
<1>2. /\ call.walk = "jobs" /\ call.j # End /\ jobs # << >> /\ call.j = jobs[1]
      /\ call.tmp # End => Len(jobs) > 1 /\ call.tmp = jobs[2]
      /\ jobs \in Seq(Jobs) /\ batch \in Seq(Jobs)
  BY <1>1 DEF IInv, PlaceOK, AtFirst, TypeOK, Walks
<1>3. jobs' \in Seq(Jobs) /\ FirstLeft(jobs, jobs')
  <2>1. jobs' = RemoveFirst(jobs, jobs[1])
    BY <1>1, <1>2
  <2> QED BY <1>2, <2>1, RemoveHead DEF FirstLeft
<1>4. 1 \in DOMAIN jobs /\ call.j \in Jobs
  BY <1>2, EmptySeq, LenProperties, ElementOfSeq
<1>5. /\ batch' \in Seq(Jobs) /\ Len(batch) \in Nat
      /\ DOMAIN batch = 1 .. Len(batch) /\ DOMAIN batch' = 1 .. Len(batch) + 1
      /\ batch'[Len(batch) + 1] = call.j /\ \A n \in DOMAIN batch : batch'[n] = batch[n]
  BY <1>1, <1>2, <1>4, LenProperties
<1>6. \A n \in DOMAIN jobs' : n + 1 \in DOMAIN jobs /\ n + 1 # 1 /\ 1 < n + 1 /\ jobs'[n] = jobs[n + 1]
  BY <1>2, <1>3, Shorter
<1>7. Covers[call.j] \in Nat /\ call.count \in Nat /\ Left(call.count, call.j) \in Nat
  <2>1. Covers[call.j] \in Nat /\ call.count \in Nat
    BY <1>4, JobAssumption DEF IInv, TypeOK
  <2> QED BY <2>1 DEF Left
<1>8. /\ call' \in [pc : Pcs, walk : {"jobs", "batch"}, j : Jobs \cup {End},
                    tmp : Jobs \cup {End}, count : Nat]
      /\ call'.pc = "prefetch" /\ call'.walk = "jobs"
      /\ call'.count = Left(call.count, call.j)
      /\ call'.j # End => jobs' # << >> /\ call'.j = jobs'[1]
      /\ (call'.j # End /\ call'.tmp # End) => Len(jobs') > 1 /\ call'.tmp = jobs'[2]
  <2>1. "prefetch" \in Pcs
    BY DEF Pcs
  <2>2. TypeOK /\ \A m, n \in DOMAIN jobs : jobs[m] = jobs[n] => m = n
    BY NoTwice DEF IInv
  <2>3. call.tmp = End => (call.walk = "batch" => Len(jobs) = 1)
    BY <1>2
  <2> QED BY <1>1, <1>2, <1>3, <1>7, <2>1, <2>2, <2>3, WalkGoesOn
<1>9. TypeOK'
  BY <1>1, <1>3, <1>5, <1>8 DEF IInv, TypeOK
<1>10. PlaceOK' /\ DevsOK'
  BY <1>1, <1>8 DEF IInv, PlaceOK, DevsOK, AtFirst, Walks
<1>11. OrderOK'
  <2>1. \A n \in DOMAIN batch : Before(accepted, batch[n], call.j)
    BY <1>2, <1>4 DEF IInv, OrderOK, AllBefore
  <2>2. \A n \in DOMAIN jobs' : Before(accepted, call.j, jobs'[n])
    BY <1>2, <1>4, <1>6 DEF IInv, OrderOK, Ordered
  <2>3. \A m \in DOMAIN tasks : Before(accepted, tasks[m], call.j)
    BY <1>2, <1>4 DEF IInv, OrderOK, AllBefore
  <2>4. \A n \in DOMAIN batch' : n \in DOMAIN batch \/ n = Len(batch) + 1
    BY <1>5
  <2>5. Added(accepted, jobs') /\ Ordered(accepted, jobs')
    BY <1>2, <1>3, Shorter DEF IInv, OrderOK
  <2>6. Added(accepted, batch')
    BY <1>2, <1>4, <1>5, <2>4 DEF IInv, OrderOK, Added
  <2>7. Ordered(accepted, batch')
    <3> SUFFICES ASSUME NEW m \in DOMAIN batch', NEW n \in DOMAIN batch', m < n
                 PROVE  Before(accepted, batch'[m], batch'[n])
      BY DEF Ordered
    <3>1. m \in DOMAIN batch
      BY <1>5
    <3> QED BY <1>5, <2>1, <2>4, <3>1 DEF IInv, OrderOK, Ordered
  <2>8. AllBefore(accepted, batch', jobs')
    <3> SUFFICES ASSUME NEW m \in DOMAIN batch', NEW n \in DOMAIN jobs'
                 PROVE  Before(accepted, batch'[m], jobs'[n])
      BY DEF AllBefore
    <3>1. CASE m \in DOMAIN batch
      BY <1>5, <1>6, <3>1 DEF IInv, OrderOK, AllBefore
    <3> QED BY <1>5, <2>2, <2>4, <3>1
  <2>9. AllBefore(accepted, tasks, jobs')
    BY <1>6 DEF IInv, OrderOK, AllBefore
  <2>10. \A m \in DOMAIN tasks, n \in DOMAIN batch' : Before(accepted, tasks[m], batch'[n])
    <3> TAKE m \in DOMAIN tasks, n \in DOMAIN batch'
    <3>1. CASE n \in DOMAIN batch
      BY <1>1, <1>5, <3>1 DEF IInv, OrderOK
    <3> QED BY <1>5, <2>3, <2>4, <3>1
  <2> QED BY <1>1, <2>5, <2>6, <2>7, <2>8, <2>9, <2>10 DEF IInv, OrderOK
<1>12. ReportOK'
  <2>1. /\ \A n \in DOMAIN jobs : report[jobs[n]] = "none"
        /\ \A n \in DOMAIN batch : report[batch[n]] = "none"
    BY <1>1 DEF IInv, ReportOK, Current
  <2>2. \A n \in DOMAIN jobs' : report[jobs'[n]] = "none"
    BY <1>6, <2>1
  <2>3. \A n \in DOMAIN batch' : report[batch'[n]] = "none"
    <3> TAKE n \in DOMAIN batch'
    <3>1. n \in DOMAIN batch \/ n = Len(batch) + 1
      BY <1>5
    <3> QED BY <1>2, <1>4, <1>5, <2>1, <3>1
  <2> QED BY <1>1, <1>8, <2>2, <2>3 DEF IInv, ReportOK, Current
<1>13. Fit(jobs)' /\ Fit(batch)'
  <2>1. \A n \in DOMAIN jobs' : LenOf[jobs'[n]] <= buffer_size
    BY <1>6 DEF IInv, Fit
  <2>2. \A n \in DOMAIN batch' : LenOf[batch'[n]] <= buffer_size
    <3> TAKE n \in DOMAIN batch'
    <3>1. n \in DOMAIN batch \/ n = Len(batch) + 1
      BY <1>5
    <3> QED BY <1>2, <1>4, <1>5, <3>1 DEF IInv, Fit
  <2> QED BY <1>1, <2>1, <2>2 DEF Fit
<1>14. BudgetOK'
  <2>1. BlocksOf(batch') = BlocksOf(batch) + Covers[call.j] /\ BlocksOf(batch) \in Nat
    BY <1>1, <1>2, <1>4, OneMore, BlocksNat
  <2>2. BlocksOf(batch) < batch_size /\ call.count = batch_size - BlocksOf(batch)
    BY <1>1 DEF IInv, BudgetOK
  <2>3. Left(call.count, call.j)
          = IF BlocksOf(batch') < batch_size THEN batch_size - BlocksOf(batch') ELSE 0
    BY <1>7, <2>1, <2>2, JobAssumption DEF Left
  <2> QED BY <1>8, <2>3 DEF BudgetOK
<1> QED BY <1>9, <1>10, <1>11, <1>12, <1>13, <1>14 DEF IInv

LEMMA ReturnedInv ==
  ASSUME IInv, returned
  PROVE  IInv'
<1>1. call.pc \in {"err", "task"} /\ call.j # End /\ UNCHANGED <<buffer_size, devs, accepted, tasks, report>>
  BY DEF returned, IInv, PlaceOK
<1>2. jobs \in Seq(Jobs) /\ batch \in Seq(Jobs) /\ TypeOK /\ call.count \in Nat
  BY DEF IInv, TypeOK
<1>3. CASE call.walk = "jobs"
  <2>1. jobs' = RemoveFirst(jobs, call.j) /\ batch' = batch /\ call' = Advance("prefetch", jobs', call.count)
    BY <1>3 DEF returned, Removed
  <2>2. call.pc = "err" /\ jobs # << >> /\ call.j = jobs[1]
    BY <1>1, <1>3 DEF IInv, PlaceOK, AtFirst, Walks
  <2>3. jobs' \in Seq(Jobs) /\ FirstLeft(jobs, jobs')
    BY <1>2, <2>1, <2>2, RemoveHead DEF FirstLeft
  <2>4. \A n \in DOMAIN jobs' : n + 1 \in DOMAIN jobs /\ n + 1 # 1 /\ jobs'[n] = jobs[n + 1]
    BY <1>2, <2>3, Shorter
  <2>5. /\ call' \in [pc : Pcs, walk : {"jobs", "batch"}, j : Jobs \cup {End},
                      tmp : Jobs \cup {End}, count : Nat]
        /\ call'.pc = "prefetch" /\ call'.walk = "jobs" /\ call'.count = call.count
        /\ call'.j # End => jobs' # << >> /\ call'.j = jobs'[1]
        /\ (call'.j # End /\ call'.tmp # End) => Len(jobs') > 1 /\ call'.tmp = jobs'[2]
    <3>1. "prefetch" \in Pcs
      BY DEF Pcs
    <3>2. call.tmp # End => Len(jobs) > 1 /\ call.tmp = jobs[2]
      BY <1>1, <1>3 DEF IInv, PlaceOK, AtFirst, Walks
    <3> QED BY <1>2, <1>3, <2>1, <2>2, <2>3, <3>1, <3>2, WalkGoesOn, NoTwice DEF IInv
  <2>6. TypeOK'
    BY <1>1, <1>2, <2>1, <2>3, <2>5 DEF TypeOK
  <2>7. PlaceOK' /\ DevsOK' /\ BudgetOK'
    BY <1>1, <1>3, <2>1, <2>2, <2>5 DEF IInv, PlaceOK, DevsOK, BudgetOK, AtFirst, Walks
  <2>8. OrderOK'
    <3>1. Added(accepted, jobs') /\ Ordered(accepted, jobs')
      BY <1>2, <2>3, Shorter DEF IInv, OrderOK
    <3>2. AllBefore(accepted, batch, jobs') /\ AllBefore(accepted, tasks, jobs')
      BY <2>4 DEF IInv, OrderOK, AllBefore
    <3>3. \A m \in DOMAIN tasks, n \in DOMAIN batch : Before(accepted, tasks[m], batch[n])
      BY <2>2 DEF IInv, OrderOK
    <3> QED BY <1>1, <2>1, <3>1, <3>2, <3>3 DEF IInv, OrderOK
  <2>9. ReportOK'
    <3>1. \A n \in DOMAIN jobs' : report[jobs'[n]] = "none"
      BY <2>4 DEF IInv, ReportOK, Current
    <3>2. \A n \in DOMAIN batch : report[batch[n]] = "none"
      BY <1>3 DEF IInv, ReportOK, Current
    <3> QED BY <1>1, <2>1, <2>5, <3>1, <3>2 DEF IInv, ReportOK, Current
  <2>10. Fit(jobs)' /\ Fit(batch)'
    BY <1>1, <2>1, <2>4 DEF IInv, Fit
  <2> QED BY <2>6, <2>7, <2>8, <2>9, <2>10 DEF IInv
<1>4. CASE call.walk # "jobs"
  <2>1. /\ batch' = RemoveFirst(batch, call.j) /\ jobs' = jobs
        /\ call' = Advance("read", batch', call.count) /\ call.walk = "batch"
    BY <1>2, <1>4 DEF returned, Removed, TypeOK
  <2>2. batch # << >> /\ call.j = batch[1]
    BY <1>1, <1>4 DEF IInv, PlaceOK, AtFirst, Walks
  <2>3. batch' \in Seq(Jobs) /\ FirstLeft(batch, batch')
    BY <1>2, <2>1, <2>2, RemoveHead DEF FirstLeft
  <2>4. \A n \in DOMAIN batch' : n + 1 \in DOMAIN batch /\ n + 1 # 1 /\ batch'[n] = batch[n + 1]
    BY <1>2, <2>3, Shorter
  <2>5. /\ call' \in [pc : Pcs, walk : {"jobs", "batch"}, j : Jobs \cup {End},
                      tmp : Jobs \cup {End}, count : Nat]
        /\ call'.pc = "read" /\ call'.walk = "batch" /\ call'.count = call.count
        /\ IF call'.j = End THEN batch' = << >>
           ELSE /\ batch' # << >> /\ call'.j = batch'[1]
                /\ call'.tmp = End => Len(batch') = 1
                /\ call'.tmp # End => Len(batch') > 1 /\ call'.tmp = batch'[2]
    <3>1. "read" \in Pcs
      BY DEF Pcs
    <3>2. /\ call.tmp = End => (call.walk = "batch" => Len(batch) = 1)
          /\ call.tmp # End => Len(batch) > 1 /\ call.tmp = batch[2]
      BY <1>1, <2>1 DEF IInv, PlaceOK, AtFirst, Walks
    <3> QED BY <1>2, <2>1, <2>2, <2>3, <3>1, <3>2, WalkGoesOn, NoTwice DEF IInv
  <2>6. TypeOK'
    BY <1>1, <1>2, <2>1, <2>3, <2>5 DEF TypeOK
  <2>7. PlaceOK' /\ DevsOK' /\ BudgetOK'
    BY <1>1, <2>1, <2>5 DEF IInv, PlaceOK, DevsOK, BudgetOK, AtFirst, Walks
  <2>8. OrderOK'
    <3>1. Added(accepted, batch') /\ Ordered(accepted, batch')
      BY <1>2, <2>3, Shorter DEF IInv, OrderOK
    <3>2. AllBefore(accepted, batch', jobs)
      BY <2>4 DEF IInv, OrderOK, AllBefore
    <3>3. \A m \in DOMAIN tasks, n \in DOMAIN batch' : Before(accepted, tasks[m], batch'[n])
      BY <2>4 DEF IInv, OrderOK
    <3> QED BY <1>1, <2>1, <3>1, <3>2, <3>3 DEF IInv, OrderOK
  <2>9. ReportOK'
    <3>1. \A n \in DOMAIN batch' : report[batch'[n]] = "none"
      BY <2>4 DEF IInv, ReportOK, Current
    <3>2. \A n \in DOMAIN jobs : report[jobs[n]] = "none"
      BY <1>4 DEF IInv, ReportOK, Current
    <3> QED BY <1>1, <2>1, <2>5, <3>1, <3>2 DEF IInv, ReportOK, Current
  <2>10. Fit(jobs)' /\ Fit(batch)'
    BY <1>1, <2>1, <2>4 DEF IInv, Fit
  <2> QED BY <2>6, <2>7, <2>8, <2>9, <2>10 DEF IInv
<1> QED BY <1>3, <1>4

\* A step that changes nothing.
LEMMA StutterInv ==
  ASSUME IInv, UNCHANGED vars
  PROVE  IInv'
<1> USE DEF vars
<1>1. TypeOK' /\ PlaceOK'
  BY DEF IInv, TypeOK, PlaceOK, AtFirst
<1>2. OrderOK' /\ ReportOK'
  BY DEF IInv, OrderOK, ReportOK, Current
<1>3. Fit(jobs)' /\ Fit(batch)' /\ DevsOK' /\ BudgetOK'
  BY DEF IInv, Fit, DevsOK, BudgetOK
<1> QED BY <1>1, <1>2, <1>3 DEF IInv

LEMMA Invariance == Spec => []IInv
<1>1. IInv /\ [Next]_vars => IInv'
  <2> SUFFICES ASSUME IInv, [Next]_vars PROVE IInv'
    OBVIOUS
  <2>1. CASE Client
    <3>1. ASSUME NEW j \in Jobs, io_processor_add(j) \/ io_processor_add_fails(j) PROVE IInv'
      BY <3>1, AddInv, StutterInv DEF io_processor_add_fails
    <3> QED BY <2>1, <3>1, ExecInv, DestroyInv DEF Client
  <2>2. CASE Step
    BY <2>2, ExecInv, NextBatchInv, PrefetchedInv, GetDevInv, FailsInv, PrefetchBytesInv,
       ReadBytesInv, ReturnedInv DEF Step
  <2>3. CASE Destroyed \/ UNCHANGED vars
    BY <2>3, StutterInv DEF Destroyed
  <2> QED BY <2>1, <2>2, <2>3 DEF Next
<1> QED BY <1>1, InitInv, PTL DEF Spec

-----------------------------------------------------------------------------
(* Theorems                                                                *)

\* _batch calls the tasks in the order io_processor_add took the jobs, whatever
\* fails, however many batches they take, and whatever the callbacks add.
THEOREM TasksInOrder == Spec => []InOrder
<1>1. IInv => InOrder
  BY DEF IInv, OrderOK, Ordered, Before, InOrder
<1> QED BY <1>1, Invariance, PTL

\* The count of _batch is what is left of batch_size: a job is prefetched only
\* while the blocks before it in the batch are fewer.
THEOREM BudgetKept == Spec => []PrefetchBudget
<1>1. IInv => PrefetchBudget
  <2> SUFFICES ASSUME IInv, call.pc = "prefetch_dev" PROVE BlocksOf(batch) < batch_size
    BY DEF PrefetchBudget
  <2>1. call.count # 0
        /\ call.count = IF BlocksOf(batch) < batch_size THEN batch_size - BlocksOf(batch) ELSE 0
    BY DEF IInv, BudgetOK
  <2> QED BY <2>1
<1> QED BY <1>1, Invariance, PTL

\* The buffer of the processor fits the job that is read into it, though
\* callbacks may replace it, and no callback runs while a device is open.
THEOREM ResourcesKept == Spec => []ResourcesOK
<1>1. IInv => ResourcesOK
  <2> SUFFICES ASSUME IInv PROVE ResourcesOK
    OBVIOUS
  <2>1. ASSUME call.pc \in {"read_dev", "task"} PROVE LenOf[call.j] <= buffer_size
    <3>1. call.j = batch[1] /\ batch # << >> /\ batch \in Seq(Jobs)
      BY <2>1 DEF IInv, PlaceOK, AtFirst, Walks, TypeOK
    <3>2. 1 \in DOMAIN batch
      BY <3>1, EmptySeq, LenProperties
    <3> QED BY <3>1, <3>2 DEF IInv, Fit
  <2>2. InClient => devs = 0
    BY DEF InClient, IInv, DevsOK
  <2> QED BY <2>1, <2>2 DEF ResourcesOK
<1> QED BY <1>1, Invariance, PTL

-----------------------------------------------------------------------------
(* The processor implements JobQueue, step by step                         *)

Todo == {j \in Range(jobs) \cup Range(batch) : report[j] = "none"}
Running == call.pc \notin {"idle", "destroyed"}

\* What the list a walk is on loses with its first job.
LEMMA RangeShorter ==
  ASSUME NEW s \in Seq(Jobs), NEW t \in Seq(Jobs), FirstLeft(s, t), s # << >>
  PROVE  Range(s) = Range(t) \cup {s[1]}
<1>1. DOMAIN s = 1 .. Len(s) /\ DOMAIN t = 1 .. Len(t) /\ Len(s) \in Nat \ {0} /\ Len(t) = Len(s) - 1
  BY LenProperties, EmptySeq DEF FirstLeft
<1>2. \A n \in DOMAIN s : n = 1 \/ (n - 1 \in DOMAIN t /\ t[n - 1] = s[n])
  BY <1>1 DEF FirstLeft
<1>3. \A n \in DOMAIN t : n + 1 \in DOMAIN s /\ t[n] = s[n + 1]
  BY <1>1 DEF FirstLeft
<1>4. 1 \in DOMAIN s
  BY <1>1
<1> QED BY <1>2, <1>3, <1>4 DEF Range

LEMMA ReportStep ==
  ASSUME IInv, call.pc \in {"prefetch", "read", "read_dev"}, call.j # End,
         NEW r \in {"done", "failed"}, report' = [report EXCEPT ![call.j] = r],
         UNCHANGED <<jobs, batch>>, call'.pc \in {"err", "task"}
  PROVE  \E j \in Jobs : Queue!Report(j)
<1> DEFINE list == IF call.walk = "jobs" THEN jobs ELSE batch
<1>1. list # << >> /\ call.j = list[1] /\ list \in Seq(Jobs)
  BY DEF IInv, PlaceOK, AtFirst, TypeOK, Walks
<1>2. 1 \in DOMAIN list /\ call.j \in Jobs
  BY <1>1, EmptySeq, LenProperties, ElementOfSeq
<1>3. \A n \in DOMAIN list : report[list[n]] = "none"
  BY DEF IInv, ReportOK, Current
<1>4. call.j \in Todo
  BY <1>1, <1>2, <1>3 DEF Todo, Range
<1>5. Range(jobs) \cup Range(batch) \subseteq Jobs
  BY ElementOfSeq, LenProperties DEF IInv, TypeOK, Range
<1>6. Todo' = Todo \ {call.j}
  <2>1. r # "none" /\ report \in [Jobs -> {"none", "done", "failed"}]
    BY DEF IInv, TypeOK
  <2> QED BY <1>2, <1>5, <2>1 DEF Todo
<1>7. Running /\ Running'
  BY DEF Running
<1>8. PICK j \in Jobs : j = call.j
  BY <1>2
<1>9. Queue!Report(j)
  BY <1>4, <1>6, <1>7, <1>8 DEF Queue!Report, Todo, Running
<1> QED BY <1>9

\* Every step of the processor is one of JobQueue or leaves it alone: no job is
\* reported twice, and exec does not return while a job is left.
THEOREM ImplementsQueueSteps == Spec => Queue!Init /\ [][Queue!Next]_(Queue!queue)
<1>1. Init => Queue!Init
  <2> SUFFICES ASSUME Init PROVE Queue!Init
    OBVIOUS
  <2>1. Range(jobs) = {} /\ Range(batch) = {} /\ call.pc = "idle"
    BY DEF Init, Range, Idle
  <2> QED BY <2>1 DEF Init, Queue!Init
<1>2. IInv /\ [Next]_vars => [Queue!Next]_(Queue!queue)
  <2> SUFFICES ASSUME IInv, [Next]_vars
               PROVE  Queue!Next \/ (UNCHANGED <<Todo, report, Running>>)
    BY DEF Queue!queue, Todo, Running
  <2>1. jobs \in Seq(Jobs) /\ batch \in Seq(Jobs)
    BY DEF IInv, TypeOK
  <2>2. ASSUME NEW j \in Jobs, io_processor_add(j) PROVE Queue!Accept(j)
    <3>1. /\ j \notin Range(accepted) /\ jobs' = Append(jobs, j)
          /\ UNCHANGED <<batch, call, report>>
      BY <2>2 DEF io_processor_add, Queued
    <3>2. Range(jobs') = Range(jobs) \cup {j}
      <4>1. /\ Len(jobs) \in Nat /\ DOMAIN jobs = 1 .. Len(jobs)
            /\ DOMAIN jobs' = 1 .. Len(jobs) + 1 /\ jobs'[Len(jobs) + 1] = j
            /\ \A n \in DOMAIN jobs : jobs'[n] = jobs[n]
        BY <2>1, <3>1, LenProperties
      <4>2. \A n \in DOMAIN jobs' : n \in DOMAIN jobs \/ n = Len(jobs) + 1
        BY <4>1
      <4>3. Len(jobs) + 1 \in DOMAIN jobs' /\ DOMAIN jobs \subseteq DOMAIN jobs'
        BY <4>1
      <4> QED BY <4>1, <4>2, <4>3 DEF Range
    <3>3. report[j] = "none" /\ j \notin Range(jobs) \cup Range(batch)
      BY <3>1 DEF IInv, OrderOK, ReportOK, Added, Range
    <3>4. Todo' = Todo \cup {j} /\ j \notin Todo
      BY <3>1, <3>2, <3>3 DEF Todo
    <3>5. UNCHANGED Running
      BY <3>1 DEF Running
    <3> QED BY <3>1, <3>3, <3>4, <3>5 DEF Queue!Accept, Todo, Running
  <2>3. ASSUME io_processor_exec PROVE Queue!Exec
    <3>1. ~Running /\ Running' /\ UNCHANGED <<Todo, report>>
      BY <2>3 DEF io_processor_exec, Running, Idle, Todo
    <3> QED BY <3>1 DEF Queue!Exec, Todo, Running
  <2>4. ASSUME io_processor_destroy PROVE Queue!Destroy
    <3>1. ~Running /\ ~Running' /\ jobs' = << >> /\ batch' = << >> /\ UNCHANGED report
      BY <2>4 DEF io_processor_destroy, Running, Idle, IInv, PlaceOK, Walks
    <3>2. Todo' = {}
      BY <3>1 DEF Todo, Range
    <3> QED BY <3>1, <3>2 DEF Queue!Destroy, Todo, Running
  <2>5. ASSUME next_batch PROVE Queue!Return \/ UNCHANGED <<Todo, report, Running>>
    <3>1. UNCHANGED <<Todo, report>> /\ Running
      BY <2>5 DEF next_batch, Todo, Running
    <3>2. CASE jobs = << >>
      <4>1. Todo = {}
        BY <2>5, <3>2 DEF next_batch, IInv, PlaceOK, Walks, Todo, Range
      <4>2. ~Running'
        BY <2>5, <3>2 DEF next_batch, Running, Idle
      <4> QED BY <3>1, <4>1, <4>2 DEF Queue!Return, Todo, Running
    <3>3. CASE jobs # << >>
      BY <2>5, <3>1, <3>3 DEF next_batch, First, At, Running
    <3> QED BY <3>2, <3>3
  <2>6. ASSUME prefetched \/ get_dev \/ batch_done PROVE UNCHANGED <<Todo, report, Running>>
    <3>1. UNCHANGED <<jobs, batch, report>> /\ Running
      BY <2>6 DEF prefetched, get_dev, GetNext, batch_done, Running
    <3>2. Running'
      <4>1. CASE prefetched \/ batch_done
        BY <4>1 DEF prefetched, First, At, batch_done, Idle, Running
      <4>2. CASE get_dev
        BY <4>2 DEF get_dev, IInv, TypeOK, Running
      <4> QED BY <2>6, <4>1, <4>2
    <3> QED BY <3>1, <3>2 DEF Todo
  <2>7. ASSUME get_dev_fails \/ read_bytes_fails \/ read_bytes
        PROVE  \E j \in Jobs : Queue!Report(j)
    <3>1. /\ call.pc \in {"prefetch", "read", "read_dev"} /\ call.j # End
          /\ UNCHANGED <<jobs, batch>>
          /\ \E r \in {"done", "failed"} : report' = [report EXCEPT ![call.j] = r]
      BY <2>7 DEF get_dev_fails, GetNext, read_bytes_fails, read_bytes, IInv, PlaceOK
    <3>2. call'.pc \in {"err", "task"}
      BY <2>7 DEF get_dev_fails, read_bytes_fails, read_bytes, IInv, TypeOK
    <3> QED BY <3>1, <3>2, ReportStep
  <2>8. ASSUME prefetch_bytes PROVE UNCHANGED <<Todo, report, Running>>
    <3>1. /\ jobs' = RemoveFirst(jobs, call.j) /\ batch' = Append(batch, call.j)
          /\ report' = report /\ Running /\ Running'
      BY <2>8 DEF prefetch_bytes, Advance, At, Running
    <3>2. jobs # << >> /\ call.j = jobs[1] /\ call.j \in Jobs
      <4>1. jobs # << >> /\ call.j = jobs[1]
        BY <2>8 DEF prefetch_bytes, IInv, PlaceOK, AtFirst, Walks
      <4> QED BY <2>1, <4>1, EmptySeq, LenProperties, ElementOfSeq
    <3>3. Range(jobs) = Range(jobs') \cup {call.j}
      BY <2>1, <3>1, <3>2, RemoveHead, RangeShorter DEF FirstLeft
    <3>4. Range(batch') = Range(batch) \cup {call.j}
      <4>1. /\ Len(batch) \in Nat /\ DOMAIN batch = 1 .. Len(batch)
            /\ DOMAIN batch' = 1 .. Len(batch) + 1 /\ batch'[Len(batch) + 1] = call.j
            /\ \A n \in DOMAIN batch : batch'[n] = batch[n]
        BY <2>1, <3>1, <3>2, LenProperties
      <4>2. \A n \in DOMAIN batch' : n \in DOMAIN batch \/ n = Len(batch) + 1
        BY <4>1
      <4>3. Len(batch) + 1 \in DOMAIN batch' /\ DOMAIN batch \subseteq DOMAIN batch'
        BY <4>1
      <4> QED BY <4>1, <4>2, <4>3 DEF Range
    <3>5. Range(jobs') \cup Range(batch') = Range(jobs) \cup Range(batch)
      BY <3>3, <3>4
    <3> QED BY <3>1, <3>5 DEF Todo
  <2>9. ASSUME returned PROVE UNCHANGED <<Todo, report, Running>>
    <3>1. report' = report /\ Running /\ Running' /\ report[call.j] # "none"
      BY <2>9 DEF returned, Advance, At, Running, IInv, ReportOK
    <3>2. CASE call.walk = "jobs"
      <4>1. jobs' = RemoveFirst(jobs, call.j) /\ batch' = batch
        BY <2>9, <3>2 DEF returned, Removed
      <4>2. jobs # << >> /\ call.j = jobs[1]
        BY <2>9, <3>2 DEF returned, IInv, PlaceOK, AtFirst, Walks
      <4>3. FirstLeft(jobs, jobs')
        BY <2>1, <4>1, <4>2, RemoveHead DEF FirstLeft
      <4>4. Range(jobs) = Range(jobs') \cup {call.j}
        <5>1. jobs \in Seq(Jobs) /\ jobs' \in Seq(Jobs)
          BY <2>1, <4>1, <4>2, RemoveHead
        <5> QED BY ONLY <4>2, <4>3, <5>1, RangeShorter
      <4> QED BY <3>1, <4>1, <4>4 DEF Todo
    <3>3. CASE call.walk # "jobs"
      <4>1. batch' = RemoveFirst(batch, call.j) /\ jobs' = jobs
        BY <2>9, <3>3 DEF returned, Removed
      <4>2. batch # << >> /\ call.j = batch[1]
        BY <2>9, <3>3 DEF returned, IInv, PlaceOK, AtFirst, Walks
      <4>3. Range(batch) = Range(batch') \cup {call.j}
        BY <2>1, <4>1, <4>2, RemoveHead, RangeShorter DEF FirstLeft
      <4> QED BY <3>1, <4>1, <4>3 DEF Todo
    <3> QED BY <3>2, <3>3
  <2>10. CASE UNCHANGED vars
    BY <2>10 DEF vars, Todo, Running
  <2>11. CASE Client
    BY <2>2, <2>3, <2>4, <2>10, <2>11 DEF Client, io_processor_add_fails, Queue!Next
  <2>12. CASE Step
    <3>1. Queue!Return => Queue!Next
      BY DEF Queue!Next
    <3>2. (\E j \in Jobs : Queue!Report(j)) => Queue!Next
      BY DEF Queue!Next
    <3> QED BY <2>5, <2>6, <2>7, <2>8, <2>9, <2>12, <3>1, <3>2 DEF Step
  <2> QED BY <2>10, <2>11, <2>12 DEF Next, Destroyed
<1> QED BY <1>1, <1>2, Invariance, PTL DEF Spec
=============================================================================
