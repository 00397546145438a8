---------------------------- MODULE EngineProofs ----------------------------
(***************************************************************************)
(* Theorems about the io engines, for every value of the constants: any    *)
(* number of ios and control blocks, any sizes, any faults.                *)
(***************************************************************************)

EXTENDS Engine, TLAPS

Moved(i) == moved[i] = NrBytes \/ (kind = "test" /\ DirOf[i] = "write")
Waits == {"drain", "getevents", "events"}

\* An io is in one place: one control block, or one place of the queue.
OnePlace ==
  /\ \A c, d \in DOMAIN allocated : allocated[c] = allocated[d] => c = d
  /\ \A m, n \in DOMAIN fallbacks : fallbacks[m] = fallbacks[n] => m = n
  /\ \A c \in DOMAIN allocated, n \in DOMAIN fallbacks : allocated[c] # fallbacks[n]

\* What is queued, or done by the kernel without a failure, has been moved.
DoneIsMoved ==
  /\ \A n \in DOMAIN fallbacks : Moved(fallbacks[n])
  /\ \A c \in DOMAIN allocated : kernel[c] = "all" => moved[allocated[c]] = NrBytes

\* No result is known of an io in flight.
NoResultYet == \A i \in Pending : result[i] = "none"

\* The events of one call of io_getevents belong to different iocbs, each of
\* them done.
BatchDone == \A c \in batch : kernel[c] \in {"all", "short", "error"}

\* Where a call is: inside issue with an io that is not in flight yet, or
\* inside the wait of a client.
CallOK ==
  /\ call.pc = "rw" =>
       /\ call.io \in Ios \ Pending
       /\ result[call.io] = "none"
       /\ moved[call.io] + call.left = NrBytes
       /\ goal = NoIo
  /\ call.pc \in Waits => goal # NoIo

IInv ==
  /\ TypeOK /\ CbsOK /\ ResultTruth
  /\ OnePlace /\ DoneIsMoved /\ NoResultYet /\ BatchDone /\ CallOK

-----------------------------------------------------------------------------
(* Facts about the data *)

LEMMA AvailableType ==
  ASSUME NEW i \in Ios, NEW done \in 0 .. NrBytes
  PROVE  Available(i, done) \in 0 .. NrBytes - done
BY IoAssumption DEF Available

\* The queue, with an io more or without its first.
LEMMA QueueMore ==
  ASSUME NEW q \in Seq(Ios), NEW i \in Ios
  PROVE  /\ Append(q, i) \in Seq(Ios)
         /\ DOMAIN Append(q, i) = 1 .. Len(q) + 1
         /\ DOMAIN q = 1 .. Len(q) /\ Len(q) \in Nat
         /\ \A n \in DOMAIN q : Append(q, i)[n] = q[n]
         /\ Append(q, i)[Len(q) + 1] = i
OBVIOUS

LEMMA QueueLess ==
  ASSUME NEW q \in Seq(Ios), q # << >>
  PROVE  /\ Tail(q) \in Seq(Ios)
         /\ DOMAIN Tail(q) = 1 .. Len(q) - 1
         /\ DOMAIN q = 1 .. Len(q) /\ Len(q) \in Nat \ {0}
         /\ \A n \in DOMAIN Tail(q) : Tail(q)[n] = q[n + 1]
         /\ Head(q) = q[1] /\ Head(q) \in Ios
OBVIOUS

\* What is in flight after the queue has become longer or shorter, or a control
\* block was taken or given back.
LEMMA PendingMore ==
  ASSUME TypeOK, NEW i \in Ios, fallbacks' = Append(fallbacks, i),
         allocated' = allocated
  PROVE  Pending' = Pending \cup {i}
<1> DEFINE q == fallbacks
           r == fallbacks'
<1>1. q \in Seq(Ios) /\ r = Append(q, i)
  BY DEF TypeOK
<1>2. /\ DOMAIN r = 1 .. Len(q) + 1 /\ DOMAIN q = 1 .. Len(q) /\ Len(q) \in Nat
      /\ \A n \in DOMAIN q : r[n] = q[n]
      /\ r[Len(q) + 1] = i
  BY <1>1, QueueMore
<1>3. {r[n] : n \in DOMAIN r} = {q[n] : n \in DOMAIN q} \cup {i}
  <2> HIDE DEF q, r
  <2>1. DOMAIN r = DOMAIN q \cup {Len(q) + 1}
    BY <1>2
  <2> QED BY <1>2, <2>1
<1>4. Queued' = Queued \cup {i}
  BY <1>3 DEF Queued
<1> QED BY <1>4 DEF Pending

LEMMA PendingType ==
  ASSUME TypeOK
  PROVE  Pending \subseteq Ios
<1>1. \A n \in DOMAIN fallbacks : fallbacks[n] \in Ios
  BY DEF TypeOK
<1>2. \A c \in DOMAIN allocated : allocated[c] \in Ios
  BY DEF TypeOK
<1> QED BY <1>1, <1>2 DEF Pending, Queued

LEMMA PendingTaken ==
  ASSUME NEW i \in Ios, NEW cb \in Cbs, cb \notin DOMAIN allocated,
         fallbacks' = fallbacks,
         allocated' = [c \in DOMAIN allocated \cup {cb} |->
                         IF c = cb THEN i ELSE allocated[c]]
  PROVE  Pending' = Pending \cup {i}
BY DEF Pending, Queued

LEMMA PendingLess ==
  ASSUME TypeOK, OnePlace, fallbacks # << >>, fallbacks' = Tail(fallbacks),
         allocated' = allocated
  PROVE  Pending' = Pending \ {Head(fallbacks)} /\ Head(fallbacks) \in Pending
<1> DEFINE q == fallbacks
           r == fallbacks'
<1>3. /\ DOMAIN r = 1 .. Len(q) - 1 /\ DOMAIN q = 1 .. Len(q) /\ Len(q) \in Nat \ {0}
      /\ \A n \in DOMAIN r : r[n] = q[n + 1]
      /\ Head(q) = q[1]
  BY QueueLess DEF TypeOK
<1>4. \A m, n \in DOMAIN q : q[m] = q[n] => m = n
  BY DEF OnePlace
<1>5. /\ {r[n] : n \in DOMAIN r} = {q[n] : n \in DOMAIN q} \ {q[1]}
      /\ q[1] \in {q[n] : n \in DOMAIN q}
  <2> HIDE DEF q, r
  <2>1. \A n \in DOMAIN r : n + 1 \in DOMAIN q /\ n + 1 # 1 /\ 1 \in DOMAIN q
    BY <1>3
  <2>2. \A n \in DOMAIN q : n # 1 => n - 1 \in DOMAIN r /\ r[n - 1] = q[n]
    BY <1>3
  <2>3. 1 \in DOMAIN q
    BY <1>3
  <2>4. ASSUME NEW n \in DOMAIN r
        PROVE  r[n] \in {q[m] : m \in DOMAIN q} \ {q[1]}
    BY <1>3, <1>4, <2>1
  <2>5. ASSUME NEW n \in DOMAIN q, q[n] # q[1]
        PROVE  q[n] \in {r[m] : m \in DOMAIN r}
    BY <2>2, <2>5
  <2> QED BY <2>3, <2>4, <2>5
<1>1. Queued' = Queued \ {Head(fallbacks)} /\ Head(fallbacks) \in Queued
  BY <1>3, <1>5 DEF Queued
<1>2. \A c \in DOMAIN allocated : allocated[c] # Head(fallbacks)
  BY QueueLess DEF TypeOK, OnePlace
<1> QED BY <1>1, <1>2 DEF Pending

LEMMA PendingFreed ==
  ASSUME OnePlace, NEW cb \in DOMAIN allocated, fallbacks' = fallbacks,
         allocated' = [c \in DOMAIN allocated \ {cb} |-> allocated[c]]
  PROVE  Pending' = Pending \ {allocated[cb]} /\ allocated[cb] \in Pending
<1>1. \A n \in DOMAIN fallbacks : fallbacks[n] # allocated[cb]
  BY DEF OnePlace
<1>2. {allocated'[c] : c \in DOMAIN allocated'} = {allocated[c] : c \in DOMAIN allocated} \ {allocated[cb]}
  BY DEF OnePlace
<1> QED BY <1>1, <1>2 DEF Pending, Queued

CallRecords ==
  [pc : Pcs, io : Ios \cup {NoIo}, left : 0 .. NrBytes, any : BOOLEAN, ret : BOOLEAN]

LEMMA CallTypes ==
         /\ Idle.pc = "idle" /\ Idle \in CallRecords
         /\ \A v \in BOOLEAN :
              /\ [Idle EXCEPT !.ret = v].pc = "idle"
              /\ [Idle EXCEPT !.ret = v] \in CallRecords
<1>1. "idle" \in Pcs
  BY DEF Pcs
<1>2. NoIo \in Ios \cup {NoIo} /\ 0 \in 0 .. NrBytes
  BY IoAssumption
<1>3. Idle.pc = "idle" /\ Idle \in CallRecords
  BY <1>1, <1>2 DEF Idle, CallRecords
<1> QED BY <1>3 DEF CallRecords

-----------------------------------------------------------------------------
(* Every step keeps IInv. *)

\* The io is done inside issue, for a write of the test engine.
LEMMA IssueNow ==
  ASSUME IInv, NEW i \in Ios, issue(i), CompleteLater(i), UNCHANGED cbvars,
         kind = "test", DirOf[i] = "write"
  PROVE  IInv'
<1> USE DEF IInv
<1>1. /\ call.pc = "idle" /\ goal = NoIo /\ i \notin Pending
      /\ moved' = [moved EXCEPT ![i] = 0]
      /\ result' = [result EXCEPT ![i] = "none"]
      /\ UNCHANGED <<kind, goal, cb_free, allocated, kernel, batch>>
      /\ fallbacks' = Append(fallbacks, i)
  BY DEF issue, CanIssue, CompleteLater, cbvars
<1>2. call' = [Idle EXCEPT !.ret = TRUE]
  BY DEF issue, Return
<1>3. Pending' = Pending \cup {i}
  BY <1>1, PendingMore
<1>4. /\ fallbacks \in Seq(Ios) /\ fallbacks' \in Seq(Ios)
      /\ DOMAIN fallbacks' = 1 .. Len(fallbacks) + 1
      /\ DOMAIN fallbacks = 1 .. Len(fallbacks) /\ Len(fallbacks) \in Nat
      /\ \A n \in DOMAIN fallbacks : fallbacks'[n] = fallbacks[n]
      /\ fallbacks'[Len(fallbacks) + 1] = i
  BY <1>1, QueueMore DEF TypeOK
<1>5. TypeOK'
  <2>1. call' \in CallRecords
    BY <1>2, CallTypes
  <2>2. moved' \in [Ios -> 0 .. NrBytes] /\ result' \in [Ios -> {"none", "ok", "failed"}]
    BY <1>1, IoAssumption DEF TypeOK
  <2> QED BY <1>1, <1>4, <2>1, <2>2 DEF TypeOK, CallRecords
<1>6. CbsOK'
  BY <1>1 DEF CbsOK
<1>7. ResultTruth'
  BY <1>1 DEF ResultTruth, TypeOK
<1>8. CallOK'
  BY <1>2, CallTypes DEF CallOK, Waits
<1>9. OnePlace'
  <2>1. \A n \in DOMAIN fallbacks : fallbacks[n] # i
    BY <1>1 DEF Pending, Queued
  <2>2. \A c \in DOMAIN allocated : allocated[c] # i
    BY <1>1 DEF Pending
  <2> QED BY <1>1, <1>4, <2>1, <2>2 DEF OnePlace
<1>10. DoneIsMoved'
  <2>1. \A n \in DOMAIN fallbacks : fallbacks[n] # i
    BY <1>1 DEF Pending, Queued
  <2>2. \A c \in DOMAIN allocated : allocated[c] # i
    BY <1>1 DEF Pending
  <2> QED BY <1>1, <1>4, <2>1, <2>2 DEF DoneIsMoved, Moved, TypeOK
<1>11. NoResultYet'
  BY <1>1, <1>3 DEF NoResultYet, TypeOK
<1>12. BatchDone'
  BY <1>1 DEF BatchDone
<1> QED BY <1>5, <1>6, <1>7, <1>8, <1>9, <1>10, <1>11, <1>12

\* The io is given to the kernel.
LEMMA IssueSubmitted ==
  ASSUME IInv, NEW i \in Ios, issue(i), NEW cb \in cb_free,
         cb_free' = cb_free \ {cb},
         allocated' = [c \in DOMAIN allocated \cup {cb} |->
                         IF c = cb THEN i ELSE allocated[c]],
         kernel' = [kernel EXCEPT ![cb] = "submitted"],
         Return(TRUE), UNCHANGED <<batch, fallbacks>>
  PROVE  IInv'
<1> USE DEF IInv
<1>1. /\ call.pc = "idle" /\ goal = NoIo /\ i \notin Pending
      /\ moved' = [moved EXCEPT ![i] = 0]
      /\ result' = [result EXCEPT ![i] = "none"]
      /\ UNCHANGED <<kind, goal>>
  BY DEF issue, CanIssue
<1>2. call' = [Idle EXCEPT !.ret = TRUE]
  BY DEF Return
<1>3. cb \in Cbs /\ cb \notin DOMAIN allocated /\ kernel[cb] = "none"
  BY DEF TypeOK, CbsOK
<1>4. Pending' = Pending \cup {i}
  BY <1>3, PendingTaken
<1>5. /\ \A n \in DOMAIN fallbacks : fallbacks[n] # i
      /\ \A c \in DOMAIN allocated : allocated[c] # i
  BY <1>1 DEF Pending, Queued
<1>6. TypeOK'
  <2>1. call' \in CallRecords
    BY <1>2, CallTypes
  <2>2. moved' \in [Ios -> 0 .. NrBytes] /\ result' \in [Ios -> {"none", "ok", "failed"}]
    BY <1>1, IoAssumption DEF TypeOK
  <2>3. kernel' \in [Cbs -> {"none", "submitted", "all", "short", "error"}]
    BY DEF TypeOK
  <2> QED BY <1>1, <1>3, <2>1, <2>2, <2>3 DEF TypeOK, CallRecords
<1>7. CbsOK'
  BY <1>3 DEF CbsOK, TypeOK
<1>8. ResultTruth'
  BY <1>1 DEF ResultTruth, TypeOK
<1>9. CallOK'
  BY <1>2, CallTypes DEF CallOK, Waits
<1>10. OnePlace'
  BY <1>3, <1>5 DEF OnePlace
<1>11. DoneIsMoved'
  <2>1. \A n \in DOMAIN fallbacks : Moved(fallbacks[n])'
    BY <1>1, <1>5 DEF DoneIsMoved, Moved, TypeOK
  <2>2. \A c \in DOMAIN allocated : kernel'[c] = "all" => moved'[allocated[c]] = NrBytes
    BY <1>1, <1>3, <1>5 DEF DoneIsMoved, TypeOK
  <2>3. kernel'[cb] = "submitted"
    BY <1>3 DEF TypeOK
  <2> QED BY <2>1, <2>2, <2>3 DEF DoneIsMoved
<1>12. NoResultYet'
  BY <1>1, <1>4 DEF NoResultYet, TypeOK
<1>13. BatchDone'
  BY <1>3 DEF BatchDone, TypeOK
<1> QED BY <1>6, <1>7, <1>8, <1>9, <1>10, <1>11, <1>12, <1>13

\* The io is refused, or goes on in the loop of rw.
LEMMA IssueLater ==
  ASSUME IInv, NEW i \in Ios, issue(i), UNCHANGED <<cbvars, fallbacks>>,
         call' = [Idle EXCEPT !.ret = FALSE] \/ _sync_issue(i)
  PROVE  IInv'
<1> USE DEF IInv
<1>1. /\ call.pc = "idle" /\ goal = NoIo /\ i \notin Pending
      /\ moved' = [moved EXCEPT ![i] = 0]
      /\ result' = [result EXCEPT ![i] = "none"]
      /\ UNCHANGED <<kind, goal, cb_free, allocated, kernel, batch, fallbacks>>
  BY DEF issue, CanIssue, cbvars
<1>2. Pending' = Pending
  BY <1>1 DEF Pending, Queued
<1>3. \/ call' = [Idle EXCEPT !.ret = FALSE]
      \/ call' = [Idle EXCEPT !.pc = "rw", !.io = i, !.left = NrBytes]
  BY DEF _sync_issue
<1>4. /\ call' \in CallRecords /\ call'.pc \in {"idle", "rw"}
      /\ call'.pc = "rw" => call'.io = i /\ call'.left = NrBytes
  <2>1. Idle \in CallRecords /\ Idle.pc = "idle"
    BY CallTypes
  <2>2. CASE call' = [Idle EXCEPT !.ret = FALSE]
    BY <2>1, <2>2 DEF CallRecords
  <2>3. CASE call' = [Idle EXCEPT !.pc = "rw", !.io = i, !.left = NrBytes]
    <3>1. "rw" \in Pcs /\ NrBytes \in 0 .. NrBytes
      BY IoAssumption DEF Pcs
    <3> QED BY <2>1, <2>3, <3>1 DEF CallRecords
  <2> QED BY <1>3, <2>2, <2>3
<1>5. /\ \A n \in DOMAIN fallbacks : fallbacks[n] # i
      /\ \A c \in DOMAIN allocated : allocated[c] # i
  BY <1>1 DEF Pending, Queued
<1>6. TypeOK'
  <2>1. moved' \in [Ios -> 0 .. NrBytes] /\ result' \in [Ios -> {"none", "ok", "failed"}]
    BY <1>1, IoAssumption DEF TypeOK
  <2> QED BY <1>1, <1>4, <2>1 DEF TypeOK, CallRecords
<1>7. CbsOK' /\ OnePlace' /\ BatchDone'
  BY <1>1 DEF CbsOK, OnePlace, BatchDone
<1>8. ResultTruth' /\ NoResultYet'
  BY <1>1, <1>2 DEF ResultTruth, NoResultYet, TypeOK
<1>10. CallOK'
  BY <1>1, <1>2, <1>4, IoAssumption DEF CallOK, Waits, TypeOK
<1>11. DoneIsMoved'
  BY <1>1, <1>5 DEF DoneIsMoved, Moved, TypeOK
<1> QED BY <1>6, <1>7, <1>8, <1>10, <1>11

LEMMA IssueStep ==
  ASSUME IInv, NEW i \in Ios, issue(i)
  PROVE  IInv'
<1>1. CASE kind = "test" /\ DirOf[i] = "write"
  BY <1>1, IssueNow DEF issue
<1>2. CASE ~(kind = "test" /\ DirOf[i] = "write") /\ kind # "sync" /\ IsAligned[i]
  <2>1. _async_issue_(i) /\ UNCHANGED fallbacks
    BY <1>2 DEF issue
  <2>2. CASE cb_free = {} /\ Return(FALSE) /\ UNCHANGED cbvars
    BY <2>1, <2>2, IssueLater DEF Return
  <2>3. ASSUME NEW cb \in cb_free,
               cb_free' = cb_free \ {cb},
               allocated' = [c \in DOMAIN allocated \cup {cb} |->
                               IF c = cb THEN i ELSE allocated[c]],
               kernel' = [kernel EXCEPT ![cb] = "submitted"],
               Return(TRUE), UNCHANGED batch
        PROVE  IInv'
    BY <2>1, <2>3, IssueSubmitted
  <2>4. CASE UNCHANGED cb_free /\ Return(FALSE) /\ UNCHANGED <<allocated, kernel, batch>>
    BY <2>1, <2>4, IssueLater DEF Return, cbvars
  <2> QED BY <2>1, <2>2, <2>3, <2>4 DEF _async_issue_, SubmitFailed
<1>3. CASE ~(kind = "test" /\ DirOf[i] = "write") /\ ~(kind # "sync" /\ IsAligned[i])
  <2>1. _sync_issue(i) /\ UNCHANGED <<cbvars, fallbacks>>
    BY <1>3 DEF issue
  <2> QED BY <2>1, IssueLater
<1> QED BY <1>1, <1>2, <1>3

LEMMA RwStep ==
  ASSUME IInv, rw
  PROVE  IInv'
<1> USE DEF IInv
<1> DEFINE i == call.io
           available == Available(i, NrBytes - call.left)
<1>1. /\ call.pc = "rw" /\ i \in Ios /\ i \notin Pending /\ result[i] = "none"
      /\ moved[i] + call.left = NrBytes /\ goal = NoIo
      /\ call.left \in 0 .. NrBytes /\ moved[i] \in 0 .. NrBytes
      /\ UNCHANGED <<kind, cb_free, allocated, kernel, batch, result, goal>>
  BY DEF rw, CallOK, TypeOK, cbvars
<1>2. available \in 0 .. call.left
  BY <1>1, AvailableType, IoAssumption
<1>3. /\ \A n \in DOMAIN fallbacks : fallbacks[n] # i
      /\ \A c \in DOMAIN allocated : allocated[c] # i
  BY <1>1 DEF Pending, Queued
<1>4. CASE Return(FALSE) /\ UNCHANGED <<moved, fallbacks>>
  <2>1. call' \in CallRecords /\ call'.pc = "idle"
    BY <1>4, CallTypes DEF Return
  <2>2. Pending' = Pending
    BY <1>1, <1>4 DEF Pending, Queued
  <2>3. TypeOK'
    BY <1>1, <1>4, <2>1 DEF TypeOK, CallRecords
  <2>4. CallOK'
    BY <2>1 DEF CallOK, Waits
  <2>5. CbsOK' /\ ResultTruth' /\ OnePlace' /\ DoneIsMoved' /\ NoResultYet' /\ BatchDone'
    BY <1>1, <1>4, <2>2
       DEF CbsOK, ResultTruth, OnePlace, DoneIsMoved, Moved, NoResultYet, BatchDone
  <2> QED BY <2>3, <2>4, <2>5
<1>5. CASE UNCHANGED <<call, moved, fallbacks>>
  <2>1. Pending' = Pending
    BY <1>1, <1>5 DEF Pending, Queued
  <2>2. TypeOK' /\ CallOK'
    BY <1>1, <1>5, <2>1 DEF TypeOK, CallOK, Waits
  <2>3. CbsOK' /\ ResultTruth' /\ OnePlace' /\ DoneIsMoved' /\ NoResultYet' /\ BatchDone'
    BY <1>1, <1>5, <2>1
       DEF CbsOK, ResultTruth, OnePlace, DoneIsMoved, Moved, NoResultYet, BatchDone
  <2> QED BY <2>2, <2>3
<1>6. ASSUME NEW r \in 1 .. available,
             moved' = [moved EXCEPT ![i] = @ + r],
             r < call.left, call' = [call EXCEPT !.left = @ - r], UNCHANGED fallbacks
      PROVE  IInv'
  <2>1. Pending' = Pending
    BY <1>1, <1>6 DEF Pending, Queued
  <2>2. /\ r \in Nat /\ r <= call.left
        /\ call.left - r \in 0 .. NrBytes
        /\ moved[i] + r \in 0 .. NrBytes
        /\ moved[i] + r + (call.left - r) = NrBytes
    BY <1>1, <1>2, IoAssumption
  <2>3. /\ call' \in CallRecords /\ call'.pc = "rw" /\ call'.io = i
        /\ call'.left = call.left - r
    BY <1>1, <1>6, <2>2 DEF TypeOK, CallRecords
  <2>4. /\ moved' \in [Ios -> 0 .. NrBytes] /\ moved'[i] = moved[i] + r
        /\ \A j \in Ios \ {i} : moved'[j] = moved[j]
    BY <1>1, <1>6, <2>2 DEF TypeOK
  <2>5. TypeOK'
    BY <1>1, <1>6, <2>3, <2>4 DEF TypeOK, CallRecords
  <2>6. CallOK'
    BY <1>1, <2>1, <2>2, <2>3, <2>4 DEF CallOK, Waits
  <2>7. CbsOK' /\ OnePlace' /\ NoResultYet' /\ BatchDone'
    BY <1>1, <1>6, <2>1 DEF CbsOK, OnePlace, NoResultYet, BatchDone
  <2>8. ResultTruth'
    BY <1>1, <2>4 DEF ResultTruth
  <2>9. DoneIsMoved'
    BY <1>1, <1>3, <1>6, <2>4, QueueMore DEF DoneIsMoved, Moved, TypeOK
  <2> QED BY <2>5, <2>6, <2>7, <2>8, <2>9
<1>7. ASSUME NEW r \in 1 .. available,
             moved' = [moved EXCEPT ![i] = @ + r],
             ~(r < call.left), Return(TRUE), CompleteLater(i)
      PROVE  IInv'
  <2>1. fallbacks' = Append(fallbacks, i)
    BY <1>7 DEF CompleteLater
  <2>2. Pending' = Pending \cup {i}
    BY <1>1, <2>1, PendingMore
  <2>3. moved[i] + r = NrBytes
    BY <1>1, <1>2, <1>7, IoAssumption
  <2>4. /\ moved' \in [Ios -> 0 .. NrBytes] /\ moved'[i] = NrBytes
        /\ \A j \in Ios \ {i} : moved'[j] = moved[j]
    BY <1>1, <1>7, <2>3, IoAssumption DEF TypeOK
  <2>5. call' \in CallRecords /\ call'.pc = "idle"
    BY <1>7, CallTypes DEF Return
  <2>6. /\ fallbacks \in Seq(Ios) /\ fallbacks' \in Seq(Ios)
        /\ DOMAIN fallbacks' = 1 .. Len(fallbacks) + 1
        /\ DOMAIN fallbacks = 1 .. Len(fallbacks) /\ Len(fallbacks) \in Nat
        /\ \A n \in DOMAIN fallbacks : fallbacks'[n] = fallbacks[n]
        /\ fallbacks'[Len(fallbacks) + 1] = i
    BY <1>1, <2>1, QueueMore DEF TypeOK
  <2>7. TypeOK'
    BY <1>1, <2>4, <2>5, <2>6 DEF TypeOK, CallRecords
  <2>8. CallOK'
    BY <2>5 DEF CallOK, Waits
  <2>9. CbsOK' /\ BatchDone'
    BY <1>1 DEF CbsOK, BatchDone
  <2>10. OnePlace'
    <3> HIDE DEF i, available
    <3>1. \A n \in DOMAIN fallbacks' : n \in DOMAIN fallbacks \/ n = Len(fallbacks) + 1
      BY <2>6
    <3> QED BY <1>1, <1>3, <2>6, <3>1 DEF OnePlace
  <2>11. NoResultYet' /\ ResultTruth'
    BY <1>1, <2>2, <2>4 DEF NoResultYet, ResultTruth
  <2>12. DoneIsMoved'
    <3>1. \A c \in DOMAIN allocated : allocated[c] \in Ios \ {i}
      BY <1>3 DEF TypeOK
    <3>2. \A n \in DOMAIN fallbacks : fallbacks[n] \in Ios \ {i}
      BY <1>3, <2>6
    <3> HIDE DEF i, available
    <3>3. \A n \in DOMAIN fallbacks' : n \in DOMAIN fallbacks \/ n = Len(fallbacks) + 1
      BY <2>6
    <3>4. ASSUME NEW n \in DOMAIN fallbacks'
          PROVE  moved'[fallbacks'[n]] = NrBytes \/ (kind' = "test" /\ DirOf[fallbacks'[n]] = "write")
      BY <1>1, <2>4, <2>6, <3>2, <3>3 DEF DoneIsMoved, Moved
    <3>5. \A c \in DOMAIN allocated' : kernel'[c] = "all" => moved'[allocated'[c]] = NrBytes
      BY <1>1, <2>4, <3>1 DEF DoneIsMoved
    <3> QED BY <3>4, <3>5 DEF DoneIsMoved, Moved
  <2> QED BY <2>7, <2>8, <2>9, <2>10, <2>11, <2>12
<1> QED BY <1>4, <1>5, <1>6, <1>7 DEF rw

LEMMA KernelStep ==
  ASSUME IInv, NEW cb \in Cbs, kernel_done(cb)
  PROVE  IInv'
<1> USE DEF IInv
<1> DEFINE i == allocated[cb]
<1>1. /\ kernel[cb] = "submitted"
      /\ UNCHANGED <<kind, cb_free, allocated, fallbacks, batch, call, result, goal>>
  BY DEF kernel_done
<1>2. cb \in DOMAIN allocated /\ i \in Ios /\ i \in Pending
  BY <1>1 DEF CbsOK, TypeOK, Pending
<1>3. PICK n \in 0 .. Available(i, 0) :
        /\ \/ kernel' = [kernel EXCEPT ![cb] = IF n = NrBytes THEN "all" ELSE "short"]
           \/ n = 0 /\ kernel' = [kernel EXCEPT ![cb] = "error"]
        /\ moved' = [moved EXCEPT ![i] = n]
  BY DEF kernel_done
<1>4. n \in 0 .. NrBytes
  BY <1>2, <1>3, AvailableType, IoAssumption
<1>5. /\ kernel'[cb] \in {"all", "short", "error"}
      /\ kernel'[cb] = "all" => n = NrBytes
      /\ \A c \in Cbs \ {cb} : kernel'[c] = kernel[c]
      /\ kernel' \in [Cbs -> {"none", "submitted", "all", "short", "error"}]
  BY <1>3 DEF TypeOK
<1>6. /\ moved' \in [Ios -> 0 .. NrBytes] /\ moved'[i] = n
      /\ \A j \in Ios \ {i} : moved'[j] = moved[j]
  BY <1>2, <1>3, <1>4 DEF TypeOK
<1>7. Pending' = Pending
  BY <1>1 DEF Pending, Queued
<1>8. TypeOK'
  BY <1>1, <1>5, <1>6 DEF TypeOK
<1>9. CbsOK' /\ BatchDone'
  BY <1>1, <1>2, <1>5 DEF CbsOK, BatchDone, TypeOK
<1>10. ResultTruth'
  BY <1>1, <1>2, <1>6 DEF ResultTruth, NoResultYet
<1>11. OnePlace' /\ NoResultYet'
  BY <1>1, <1>7 DEF OnePlace, NoResultYet
<1>12. DoneIsMoved'
  <2>1. \A c \in DOMAIN allocated : c # cb => allocated[c] \in Ios \ {i} /\ c \in Cbs
    BY <1>2 DEF OnePlace, TypeOK
  <2>2. \A m \in DOMAIN fallbacks : fallbacks[m] \in Ios \ {i}
    BY <1>2, QueueMore DEF OnePlace, TypeOK
  <2> QED BY <1>1, <1>5, <1>6, <2>1, <2>2 DEF DoneIsMoved, Moved
<1>13. CallOK'
  <2>1. call.pc = "rw" => call.io \in Ios \ {i}
    BY <1>2 DEF CallOK
  <2> QED BY <1>1, <1>6, <1>7, <2>1 DEF CallOK
<1> QED BY <1>8, <1>9, <1>10, <1>11, <1>12, <1>13

\* What wait hands out leaves the queue.
LEMMA DrainStep ==
  ASSUME IInv, drain
  PROVE  IInv'
<1> USE DEF IInv
<1>1. /\ call.pc = "drain" /\ goal # NoIo
      /\ UNCHANGED <<kind, cb_free, allocated, kernel, batch, moved, goal>>
  BY DEF drain, CallOK, Waits, cbvars
<1>2. CASE fallbacks # << >>
  <2> DEFINE i == Head(fallbacks)
  <2>1. /\ fallbacks' = Tail(fallbacks)
        /\ result' = [result EXCEPT ![i] = "ok"]
        /\ call' = [call EXCEPT !.any = TRUE]
    BY <1>2 DEF drain
  <2>2. Pending' = Pending \ {i} /\ i \in Pending
    BY <1>1, <1>2, <2>1, PendingLess
  <2>3. /\ fallbacks' \in Seq(Ios) /\ DOMAIN fallbacks' = 1 .. Len(fallbacks) - 1
        /\ DOMAIN fallbacks = 1 .. Len(fallbacks) /\ Len(fallbacks) \in Nat \ {0}
        /\ \A n \in DOMAIN fallbacks' : fallbacks'[n] = fallbacks[n + 1]
        /\ i = fallbacks[1] /\ i \in Ios
    BY <1>2, <2>1, QueueLess DEF TypeOK
  <2>4. /\ call' \in CallRecords /\ call'.pc = "drain"
        /\ result' \in [Ios -> {"none", "ok", "failed"}]
        /\ \A j \in Ios \ {i} : result'[j] = result[j]
    BY <1>1, <2>1, <2>3 DEF TypeOK, CallRecords
  <2>5. \A n \in DOMAIN fallbacks' : n \in DOMAIN fallbacks /\ n + 1 \in DOMAIN fallbacks
    BY <2>3
  <2>6. TypeOK'
    BY <1>1, <2>3, <2>4 DEF TypeOK, CallRecords
  <2>7. CbsOK' /\ BatchDone'
    BY <1>1 DEF CbsOK, BatchDone
  <2>8. Moved(i)
    BY <2>3 DEF DoneIsMoved
  <2>9. ResultTruth'
    BY <1>1, <2>4, <2>8 DEF ResultTruth, Moved
  <2>10. CallOK'
    BY <1>1, <2>4 DEF CallOK, Waits
  <2>11. NoResultYet'
    <3>1. Pending' \subseteq Ios
      BY <2>2, PendingType
    <3> QED BY <2>2, <2>4, <3>1 DEF NoResultYet
  <2>12. DoneIsMoved'
    BY <1>1, <2>3, <2>5 DEF DoneIsMoved, Moved
  <2>13. OnePlace'
    <3>1. ASSUME NEW m \in DOMAIN fallbacks', NEW n \in DOMAIN fallbacks',
                 fallbacks'[m] = fallbacks'[n]
          PROVE  m = n
      <4>1. m + 1 = n + 1
        BY <2>3, <2>5, <3>1 DEF OnePlace
      <4> QED BY <4>1, <2>3
    <3>2. ASSUME NEW c \in DOMAIN allocated, NEW n \in DOMAIN fallbacks'
          PROVE  allocated[c] # fallbacks'[n]
      BY <2>3, <2>5 DEF OnePlace
    <3> QED BY <1>1, <3>1, <3>2 DEF OnePlace
  <2> QED BY <2>6, <2>7, <2>9, <2>10, <2>11, <2>12, <2>13
<1>3. CASE fallbacks = << >>
  <2>1. UNCHANGED <<fallbacks, result>>
        /\ call' = IF AskKernel THEN [call EXCEPT !.pc = "getevents"] ELSE Idle
    BY <1>3 DEF drain
  <2>2. call' \in CallRecords /\ call'.pc \in {"getevents", "idle"}
    BY <2>1, CallTypes DEF TypeOK, CallRecords, Pcs
  <2>3. Pending' = Pending
    BY <1>1, <2>1 DEF Pending, Queued
  <2>4. TypeOK'
    BY <1>1, <2>1, <2>2 DEF TypeOK, CallRecords
  <2>5. CallOK'
    BY <1>1, <2>2 DEF CallOK, Waits
  <2>6. CbsOK' /\ ResultTruth' /\ OnePlace' /\ DoneIsMoved' /\ NoResultYet' /\ BatchDone'
    BY <1>1, <2>1, <2>3
       DEF CbsOK, ResultTruth, OnePlace, DoneIsMoved, Moved, NoResultYet, BatchDone
  <2> QED BY <2>4, <2>5, <2>6
<1> QED BY <1>2, <1>3

LEMMA GeteventsStep ==
  ASSUME IInv, getevents
  PROVE  IInv'
<1> USE DEF IInv
<1>1. /\ call.pc = "getevents" /\ goal # NoIo
      /\ call' = [call EXCEPT !.pc = "events"]
      /\ UNCHANGED <<kind, cb_free, allocated, kernel, fallbacks, moved, result, goal>>
      /\ batch' \subseteq {cb \in Cbs : kernel[cb] \in {"all", "short", "error"}}
  BY DEF getevents, CallOK, Waits
<1>2. call' \in CallRecords /\ call'.pc = "events"
  BY <1>1 DEF TypeOK, CallRecords, Pcs
<1>3. Pending' = Pending
  BY <1>1 DEF Pending, Queued
<1>4. TypeOK'
  BY <1>1, <1>2 DEF TypeOK, CallRecords
<1>5. CallOK' /\ BatchDone'
  BY <1>1, <1>2 DEF CallOK, Waits, BatchDone
<1>6. CbsOK' /\ ResultTruth' /\ OnePlace' /\ DoneIsMoved' /\ NoResultYet'
  BY <1>1, <1>3
     DEF CbsOK, ResultTruth, OnePlace, DoneIsMoved, Moved, NoResultYet
<1> QED BY <1>4, <1>5, <1>6

\* One event: its control block is free again and its io is out of flight.
LEMMA EventsStep ==
  ASSUME IInv, events
  PROVE  IInv'
<1> USE DEF IInv
<1>1. /\ call.pc = "events" /\ goal # NoIo
      /\ UNCHANGED <<kind, fallbacks, moved, goal>>
  BY DEF events, CallOK, Waits
<1>2. CASE batch = {}
  <2>1. Return(TRUE) /\ UNCHANGED <<cb_free, allocated, kernel, batch, result>>
    BY <1>2 DEF events, cbvars
  <2>2. call' \in CallRecords /\ call'.pc = "idle"
    BY <2>1, CallTypes DEF Return
  <2>3. Pending' = Pending
    BY <1>1, <2>1 DEF Pending, Queued
  <2>4. TypeOK'
    BY <1>1, <2>1, <2>2 DEF TypeOK, CallRecords
  <2>5. CallOK'
    BY <2>2 DEF CallOK, Waits
  <2>6. CbsOK' /\ ResultTruth' /\ OnePlace' /\ DoneIsMoved' /\ NoResultYet' /\ BatchDone'
    BY <1>1, <2>1, <2>3
       DEF CbsOK, ResultTruth, OnePlace, DoneIsMoved, Moved, NoResultYet, BatchDone
  <2> QED BY <2>4, <2>5, <2>6
<1>3. ASSUME NEW cb \in batch,
             result' = [result EXCEPT ![allocated[cb]] = EventResult(kernel[cb])],
             cb_free' = Freed(cb),
             allocated' = [c \in DOMAIN allocated \ {cb} |-> allocated[c]],
             kernel' = [kernel EXCEPT ![cb] = "none"],
             batch' = batch \ {cb}, UNCHANGED call
      PROVE  IInv'
  <2> DEFINE i == allocated[cb]
  <2>1. cb \in Cbs /\ kernel[cb] \in {"all", "short", "error"}
    BY DEF TypeOK, BatchDone
  <2>2. cb \in DOMAIN allocated /\ i \in Ios
    BY <2>1 DEF CbsOK, TypeOK
  <2>3. Pending' = Pending \ {i} /\ i \in Pending
    BY <1>1, <1>3, <2>2, PendingFreed
  <2>4. /\ result' \in [Ios -> {"none", "ok", "failed"}]
        /\ result'[i] = "ok" => kernel[cb] = "all"
        /\ \A j \in Ios \ {i} : result'[j] = result[j]
    BY <1>3, <2>2 DEF EventResult, TypeOK
  <2>5. /\ kernel' \in [Cbs -> {"none", "submitted", "all", "short", "error"}]
        /\ kernel'[cb] = "none" /\ \A c \in Cbs \ {cb} : kernel'[c] = kernel[c]
    BY <1>3, <2>1 DEF TypeOK
  <2>6. cb_free' = cb_free \cup {cb}
    BY <1>3 DEF Freed
  <2>7. TypeOK'
    BY <1>1, <1>3, <2>1, <2>4, <2>5, <2>6 DEF TypeOK
  <2>8. CbsOK'
    BY <1>3, <2>1, <2>5, <2>6 DEF CbsOK
  <2>9. BatchDone'
    BY <1>3, <2>5 DEF BatchDone, TypeOK
  <2>10. ResultTruth'
    BY <1>1, <2>2, <2>4 DEF ResultTruth, DoneIsMoved
  <2>11. CallOK'
    BY <1>1, <1>3 DEF CallOK, Waits
  <2>12. OnePlace'
    BY <1>1, <1>3 DEF OnePlace
  <2>13. NoResultYet'
    <3>1. Pending' \subseteq Ios
      BY <2>3, PendingType
    <3> QED BY <2>3, <2>4, <3>1 DEF NoResultYet
  <2>14. DoneIsMoved'
    <3>1. \A c \in DOMAIN allocated' : c \in Cbs \ {cb} /\ allocated'[c] = allocated[c]
      BY <1>3 DEF TypeOK
    <3> QED BY <1>1, <1>3, <2>5, <3>1 DEF DoneIsMoved, Moved
  <2> QED BY <2>7, <2>8, <2>9, <2>10, <2>11, <2>12, <2>13, <2>14
<1> QED BY <1>2, <1>3 DEF events

\* Steps that change nothing but call or goal.
LEMMA ClientStep ==
  ASSUME IInv, \/ \E i \in Ios : await(i)
               \/ wait \/ awaited \/ destroy \/ UNCHANGED vars
  PROVE  IInv'
<1> USE DEF IInv
<1>1. UNCHANGED <<kind, cb_free, allocated, kernel, batch, fallbacks, moved, result>>
  BY DEF await, wait, awaited, destroy, vars, cbvars
<1>2. Pending' = Pending
  BY <1>1 DEF Pending, Queued
<1>3. CbsOK' /\ ResultTruth' /\ OnePlace' /\ DoneIsMoved' /\ NoResultYet' /\ BatchDone'
  BY <1>1, <1>2
     DEF CbsOK, ResultTruth, OnePlace, DoneIsMoved, Moved, NoResultYet, BatchDone
<1>4. CASE (\E i \in Ios : await(i)) \/ awaited
  <2>1. call.pc = "idle" /\ UNCHANGED call /\ goal' \in Ios \cup {NoIo}
    BY <1>4 DEF await, awaited
  <2>2. TypeOK' /\ CallOK'
    BY <1>1, <2>1 DEF TypeOK, CallOK, Waits
  <2> QED BY <1>3, <2>2
<1>5. CASE wait
  <2>1. call' = [Idle EXCEPT !.pc = "drain"] /\ goal # NoIo /\ UNCHANGED goal
    BY <1>5 DEF wait
  <2>2. call' \in CallRecords /\ call'.pc = "drain"
    BY <2>1, CallTypes DEF CallRecords, Pcs
  <2>3. TypeOK' /\ CallOK'
    BY <1>1, <2>1, <2>2 DEF TypeOK, CallRecords, CallOK, Waits
  <2> QED BY <1>3, <2>3
<1>6. CASE destroy
  <2>3. call' = [Idle EXCEPT !.pc = "destroyed"] /\ UNCHANGED goal
    BY <1>6 DEF destroy
  <2>4. call' \in CallRecords /\ call'.pc = "destroyed"
    BY <2>3, CallTypes DEF CallRecords, Pcs
  <2>5. TypeOK' /\ CallOK'
    BY <1>1, <2>3, <2>4 DEF TypeOK, CallRecords, CallOK, Waits
  <2> QED BY <1>3, <2>5
<1>7. CASE UNCHANGED vars
  <2>1. UNCHANGED <<call, goal>>
    BY <1>7 DEF vars
  <2>2. TypeOK' /\ CallOK'
    BY <1>1, <1>2, <2>1 DEF TypeOK, CallOK, Waits
  <2> QED BY <1>3, <2>2
<1> QED BY <1>4, <1>5, <1>6, <1>7

LEMMA InitInv == Init => IInv
<1> SUFFICES ASSUME Init PROVE IInv
  OBVIOUS
<1>1. DOMAIN allocated = {} /\ DOMAIN fallbacks = {} /\ Pending = {}
  BY DEF Init, Pending, Queued
<1>2. call \in CallRecords /\ call.pc = "idle"
  BY CallTypes DEF Init
<1>3. fallbacks \in Seq(Ios)
  BY DEF Init
<1>4. TypeOK
  BY <1>1, <1>2, <1>3, IoAssumption DEF Init, TypeOK, CallRecords
<1>5. CbsOK /\ ResultTruth /\ BatchDone
  BY <1>1 DEF Init, CbsOK, ResultTruth, BatchDone
<1>6. CallOK
  BY <1>2 DEF CallOK, Waits
<1>7. OnePlace /\ DoneIsMoved /\ NoResultYet
  BY <1>1 DEF OnePlace, DoneIsMoved, NoResultYet
<1> QED BY <1>4, <1>5, <1>6, <1>7 DEF IInv

LEMMA NextInv == IInv /\ [Next]_vars => IInv'
<1> SUFFICES ASSUME IInv, [Next]_vars PROVE IInv'
  OBVIOUS
<1>1. ASSUME NEW i \in Ios, issue(i) PROVE IInv'
  BY <1>1, IssueStep
<1>2. CASE rw
  BY <1>2, RwStep
<1>3. CASE drain
  BY <1>3, DrainStep
<1>4. CASE getevents
  BY <1>4, GeteventsStep
<1>5. CASE events
  BY <1>5, EventsStep
<1>6. ASSUME NEW cb \in Cbs, kernel_done(cb) PROVE IInv'
  BY <1>6, KernelStep
<1>7. CASE \/ \E i \in Ios : await(i)
           \/ wait \/ awaited \/ destroy \/ UNCHANGED vars
  BY <1>7, ClientStep
<1> QED BY <1>1, <1>2, <1>3, <1>4, <1>5, <1>6, <1>7
        DEF Next, Client, Step, Destroyed

\* The inductive invariant holds.
THEOREM Invariance == Spec => []IInv
BY InitInv, NextInv, PTL DEF Spec

\* Every variable keeps its type.
THEOREM TypeCorrect == Spec => []TypeOK
BY Invariance, PTL DEF IInv

\* No control block is lost or used twice, however submissions fail and in
\* whatever order the kernel completes.
THEOREM ControlBlocks == Spec => []CbsOK
BY Invariance, PTL DEF IInv

\* No engine reports an io as good that moved less than all of its bytes.
THEOREM Truth == Spec => []ResultTruth
BY Invariance, PTL DEF IInv

-----------------------------------------------------------------------------
(* The engine implements IoEngine, as far as safety goes. *)

\* The part of ImplementsIoEngine that is about steps: whatever an engine does
\* is one step of the contract or none.
THEOREM ImplementsSteps == Spec => Contract!Init /\ [][Contract!Next]_(Contract!interface)
<1>1. Init => Contract!Init
  <2> SUFFICES ASSUME Init PROVE Contract!Init
    OBVIOUS
  <2>1. Pending = {}
    BY DEF Init, Pending, Queued
  <2> QED BY <2>1 DEF Init, Contract!Init, NoIo, Contract!NoIo
<1>2. IInv /\ [Next]_vars => [Contract!Next]_(Contract!interface)
  <2> SUFFICES ASSUME IInv, [Next]_vars
               PROVE  Contract!Next \/ UNCHANGED Contract!interface
    OBVIOUS
  <2> USE DEF NoIo, Contract!NoIo
  <2>1. ASSUME NEW i \in Ios, issue(i)
        PROVE  Contract!Accept(i) \/ Contract!Refuse(i)
    <3>1. /\ goal = NoIo /\ i \notin Pending /\ UNCHANGED goal
          /\ result' = [result EXCEPT ![i] = "none"]
      BY <2>1 DEF issue, CanIssue
    <3>2. Pending' = Pending \/ Pending' = Pending \cup {i}
      <4>1. CASE CompleteLater(i) /\ UNCHANGED cbvars
        BY <2>1, <4>1, PendingMore DEF CompleteLater, cbvars, IInv
      <4>2. CASE UNCHANGED <<cbvars, fallbacks>>
        BY <4>2 DEF Pending, Queued, cbvars
      <4>3. CASE _async_issue_(i) /\ UNCHANGED fallbacks
        <5>1. CASE UNCHANGED allocated
          BY <4>3, <5>1 DEF Pending, Queued
        <5>2. ASSUME NEW cb \in cb_free,
                     allocated' = [c \in DOMAIN allocated \cup {cb} |->
                                     IF c = cb THEN i ELSE allocated[c]]
              PROVE  Pending' = Pending \cup {i}
          <6>1. cb \in Cbs /\ cb \notin DOMAIN allocated
            BY DEF IInv, TypeOK, CbsOK
          <6> QED BY <4>3, <5>2, <6>1, PendingTaken
        <5> QED BY <4>3, <5>1, <5>2 DEF _async_issue_, cbvars
      <4> QED BY <2>1, <4>1, <4>2, <4>3 DEF issue
    <3> QED BY <3>1, <3>2 DEF Contract!Accept, Contract!Refuse
  <2>2. ASSUME rw
        PROVE  Contract!Next \/ UNCHANGED Contract!interface
    <3>1. /\ call.io \in Ios \ Pending /\ result[call.io] = "none" /\ goal = NoIo
          /\ UNCHANGED <<allocated, result, goal>>
      BY <2>2 DEF rw, IInv, CallOK, cbvars
    <3>2. CASE UNCHANGED fallbacks
      BY <3>1, <3>2 DEF Contract!interface, Pending, Queued
    <3>3. CASE CompleteLater(call.io)
      <4>1. Pending' = Pending \cup {call.io}
        BY <3>1, <3>3, PendingMore DEF CompleteLater, IInv
      <4>2. result' = [result EXCEPT ![call.io] = "none"]
        BY <3>1 DEF IInv, TypeOK
      <4>3. Contract!Accept(call.io)
        BY <3>1, <4>1, <4>2 DEF Contract!Accept
      <4> QED BY <3>1, <4>3 DEF Contract!Next
    <3> QED BY <2>2, <3>2, <3>3 DEF rw
  <2>3. ASSUME drain
        PROVE  Contract!Next \/ UNCHANGED Contract!interface
    <3>1. goal # NoIo /\ UNCHANGED <<allocated, goal>>
      BY <2>3 DEF drain, IInv, CallOK, Waits, cbvars
    <3>2. CASE fallbacks = << >>
      BY <2>3, <3>1, <3>2 DEF drain, Contract!interface, Pending, Queued
    <3>3. CASE fallbacks # << >>
      <4>1. fallbacks' = Tail(fallbacks) /\ result' = [result EXCEPT ![Head(fallbacks)] = "ok"]
        BY <2>3, <3>3 DEF drain
      <4>2. Head(fallbacks) \in Ios
        BY <3>3, QueueLess DEF IInv, TypeOK
      <4>3. Pending' = Pending \ {Head(fallbacks)} /\ Head(fallbacks) \in Pending
        BY <3>1, <3>3, <4>1, PendingLess DEF IInv
      <4>4. Contract!Complete(Head(fallbacks))
        BY <3>1, <4>1, <4>3 DEF Contract!Complete
      <4> QED BY <4>2, <4>4 DEF Contract!Next
    <3> QED BY <3>2, <3>3
  <2>4. ASSUME events
        PROVE  Contract!Next \/ UNCHANGED Contract!interface
    <3>1. goal # NoIo /\ UNCHANGED <<fallbacks, goal>>
      BY <2>4 DEF events, IInv, CallOK, Waits
    <3>2. CASE UNCHANGED <<allocated, result>>
      BY <3>1, <3>2 DEF Contract!interface, Pending, Queued
    <3>3. ASSUME NEW cb \in batch,
                 result' = [result EXCEPT ![allocated[cb]] = EventResult(kernel[cb])],
                 allocated' = [c \in DOMAIN allocated \ {cb} |-> allocated[c]]
          PROVE  Contract!Next
      <4>1. cb \in DOMAIN allocated /\ allocated[cb] \in Ios
        BY DEF IInv, TypeOK, BatchDone, CbsOK
      <4>2. Pending' = Pending \ {allocated[cb]} /\ allocated[cb] \in Pending
        BY <3>1, <3>3, <4>1, PendingFreed DEF IInv
      <4>3. EventResult(kernel[cb]) \in {"ok", "failed"}
        BY DEF EventResult
      <4>4. Contract!Complete(allocated[cb])
        BY <3>1, <3>3, <4>2, <4>3 DEF Contract!Complete
      <4> QED BY <4>1, <4>4 DEF Contract!Next
    <3> QED BY <2>4, <3>2, <3>3 DEF events, cbvars
  <2>5. ASSUME NEW i \in Ios, await(i) PROVE Contract!Await(i)
    <3>1. Pending' = Pending
      BY <2>5 DEF await, Pending, Queued, cbvars
    <3> QED BY <2>5, <3>1 DEF await, Contract!Await
  <2>6. ASSUME awaited PROVE Contract!Awaited
    <3>1. Pending' = Pending
      BY <2>6 DEF awaited, Pending, Queued, cbvars
    <3> QED BY <2>6, <3>1 DEF awaited, Contract!Awaited
  <2>7. CASE \/ wait \/ getevents \/ destroy \/ UNCHANGED vars
             \/ \E cb \in Cbs : kernel_done(cb)
    <3>1. UNCHANGED <<allocated, fallbacks, result, goal>>
      BY <2>7 DEF wait, getevents, destroy, vars, kernel_done, cbvars
    <3> QED BY <3>1 DEF Contract!interface, Pending, Queued
  <2> QED BY <2>1, <2>2, <2>3, <2>4, <2>5, <2>6, <2>7
          DEF Next, Client, Step, Destroyed, Contract!Next
<1> QED BY <1>1, <1>2, Invariance, PTL DEF Spec
=============================================================================
