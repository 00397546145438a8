------------------------------- MODULE Engine -------------------------------
(***************************************************************************)
(* The three io engines of io/io-manager.c behind struct io_engine:        *)
(*   async   Linux aio, with a synchronous fallback for ios that are not   *)
(*           page aligned;                                                 *)
(*   test    the async engine, except that writes complete untouched;      *)
(*   sync    lseek, read and write, all inside issue.                      *)
(*                                                                         *)
(* The client is the block cache: it issues ios, and waits for one of them *)
(* by calling wait until that one has completed.  The kernel, which is not *)
(* under src/, completes the iocbs submitted to it in any order.           *)
(***************************************************************************)

EXTENDS Integers, Sequences, FiniteSets

CONSTANTS
  Ios,            \* the ios, each in flight at most once at a time
  DirOf,          \* DIR_READ or DIR_WRITE
  IsAligned,      \* _aio_aligned: buffer and sectors are page aligned
  Where,          \* the byte offset of the io on the device
  NrBytes,        \* its length
  DeviceEnd,      \* the size of the device
  IntWidth,       \* an int wraps at IntWidth
  Cbs,            \* the MAX_IO control blocks
  MAX_EVENT,
  Kinds,          \* \subseteq {"async", "sync", "test"}
  Faults          \* what may fail: \subseteq {"submit", "aio", "rw"}

NoIo == "no io"

ASSUME IoAssumption ==
  /\ NoIo \notin Ios
  /\ DirOf \in [Ios -> {"read", "write"}]
  /\ IsAligned \in [Ios -> BOOLEAN]
  /\ Where \in [Ios -> Nat]
  /\ DeviceEnd \in Nat
  /\ NrBytes \in Nat \ {0} /\ IntWidth \in Nat \ {0} /\ MAX_EVENT \in Nat \ {0}
ASSUME EngineAssumption ==
  /\ IsFiniteSet(Cbs) /\ Cbs \cap Ios = {}
  /\ Kinds \subseteq {"async", "sync", "test"}
  /\ Faults \subseteq {"submit", "aio", "rw"}

VARIABLES
  kind,           \* which create_..._io_engine made the engine
  cb_free,        \* cbs->free
  allocated,      \* cbs->allocated, with the context of each control block
  kernel,         \* what the kernel knows of the iocb of a control block
  fallbacks,      \* completed_fallbacks; `complete' of the sync engine
  batch,          \* events of io_getevents not yet handed out
  call,           \* the engine call in progress
  moved,          \* bytes that went between the buffer and the disk
  result, goal    \* as in IoEngine

vars == <<kind, cb_free, allocated, kernel, fallbacks, batch, call, moved, result, goal>>
cbvars == <<cb_free, allocated, kernel, batch>>

Pcs == {"idle", "rw", "drain", "getevents", "events", "destroyed"}
Idle == [pc |-> "idle", io |-> NoIo, left |-> 0, any |-> FALSE, ret |-> TRUE]
Return(value) == call' = [Idle EXCEPT !.ret = value]

Queued == {fallbacks[n] : n \in DOMAIN fallbacks}
Pending == Queued \cup {allocated[cb] : cb \in DOMAIN allocated}

Init ==
  /\ kind \in Kinds
  /\ cb_free = Cbs
  /\ allocated = << >>
  /\ kernel = [cb \in Cbs |-> "none"]
  /\ fallbacks = << >>
  /\ batch = {}
  /\ call = Idle
  /\ moved = [i \in Ios |-> 0]
  /\ result = [i \in Ios |-> "none"]
  /\ goal = NoIo

-----------------------------------------------------------------------------
(* issue *)

\* The 64 bit offset lseek returns, once it is stored in an int.
AsInt(n) ==
  LET w == n % (2 * IntWidth) IN IF w < IntWidth THEN w ELSE w - 2 * IntWidth

CanIssue(i) == call.pc = "idle" /\ goal = NoIo /\ i \notin Pending

\* The io is over inside issue: wait has only to hand it out.
CompleteLater_twice(i) == fallbacks' = fallbacks \o <<i, i>>
CompleteLater(i) == fallbacks' = Append(fallbacks, i)

\* _async_issue_: a refused submission gives the control block back.
SubmitFailed_leak(cb) == cb_free' = cb_free \ {cb}
SubmitFailed(cb) == UNCHANGED cb_free

_async_issue_(i) ==
  \/ cb_free = {} /\ Return(FALSE) /\ UNCHANGED cbvars
  \/ \E cb \in cb_free :
       \/ /\ cb_free' = cb_free \ {cb}
          /\ allocated' = [c \in DOMAIN allocated \cup {cb} |->
                             IF c = cb THEN i ELSE allocated[c]]
          /\ kernel' = [kernel EXCEPT ![cb] = "submitted"]
          /\ Return(TRUE)
          /\ UNCHANGED batch
       \/ /\ "submit" \in Faults
          /\ SubmitFailed(cb)
          /\ Return(FALSE)
          /\ UNCHANGED <<allocated, kernel, batch>>

\* _sync_issue, and _fallback_issue which is the same text: seek, then the
\* loop of rw.
_sync_issue(i) ==
  call' = IF AsInt(Where[i]) < 0 THEN [Idle EXCEPT !.ret = FALSE]
          ELSE [Idle EXCEPT !.pc = "rw", !.io = i, !.left = NrBytes]

issue(i) ==
  /\ CanIssue(i)
  /\ IF kind = "test" /\ DirOf[i] = "write"
     THEN CompleteLater(i) /\ Return(TRUE) /\ UNCHANGED cbvars
     ELSE IF kind # "sync" /\ IsAligned[i]
     THEN _async_issue_(i) /\ UNCHANGED fallbacks
     ELSE _sync_issue(i) /\ UNCHANGED <<cbvars, fallbacks>>
  /\ moved' = [moved EXCEPT ![i] = 0]
  /\ result' = [result EXCEPT ![i] = "none"]
  /\ UNCHANGED <<kind, goal>>

\* What there is to read or write when `done' bytes of the io have been.
Available(i, done) ==
  IF DirOf[i] = "write" \/ Where[i] + NrBytes <= DeviceEnd THEN NrBytes - done
  ELSE IF Where[i] + done < DeviceEnd THEN DeviceEnd - (Where[i] + done) ELSE 0

\* Once around the loop of _fallback_issue or _sync_issue: r bytes more, an
\* error, or at the end of the device r = 0, len stays and the loop goes on.
rw ==
  LET i == call.io
      available == Available(i, NrBytes - call.left)
  IN /\ call.pc = "rw"
     /\ \/ \E r \in 1 .. available :
             /\ moved' = [moved EXCEPT ![i] = @ + r]
             /\ IF r < call.left
                THEN call' = [call EXCEPT !.left = @ - r] /\ UNCHANGED fallbacks
                ELSE Return(TRUE) /\ CompleteLater(i)
        \/ /\ "rw" \in Faults
           /\ Return(FALSE)
           /\ UNCHANGED <<moved, fallbacks>>
        \/ /\ available = 0
           /\ UNCHANGED <<call, moved, fallbacks>>
     /\ UNCHANGED <<kind, cbvars, result, goal>>

\* The kernel is done with an iocb: all of it, a part, or none.
kernel_done(cb) ==
  LET i == allocated[cb] IN
  /\ kernel[cb] = "submitted"
  /\ \E n \in 0 .. Available(i, 0) :
       /\ n < Available(i, 0) => "aio" \in Faults
       /\ \/ kernel' = [kernel EXCEPT ![cb] = IF n = NrBytes THEN "all" ELSE "short"]
          \/ n = 0 /\ kernel' = [kernel EXCEPT ![cb] = "error"]
       /\ moved' = [moved EXCEPT ![i] = n]
  /\ UNCHANGED <<kind, cb_free, allocated, fallbacks, batch, call, result, goal>>

-----------------------------------------------------------------------------
(* wait *)

\* _wait_specific starts to wait for an io that is in flight ...
await(i) ==
  /\ call.pc = "idle" /\ goal = NoIo /\ i \in Pending
  /\ goal' = i
  /\ UNCHANGED <<kind, cbvars, fallbacks, call, moved, result>>

\* ... calls wait as long as it is ...
wait ==
  /\ call.pc = "idle" /\ goal # NoIo /\ goal \in Pending
  /\ call' = [Idle EXCEPT !.pc = "drain"]
  /\ UNCHANGED <<kind, cbvars, fallbacks, moved, result, goal>>

\* ... and goes on.
awaited ==
  /\ call.pc = "idle" /\ goal # NoIo /\ goal \notin Pending
  /\ goal' = NoIo
  /\ UNCHANGED <<kind, cbvars, fallbacks, call, moved, result>>

\* The loop of _async_wait and _sync_wait over what issue has completed.
\* Only if there was nothing does the async engine ask the kernel.
AskKernel == kind # "sync" /\ ~call.any

drain ==
  /\ call.pc = "drain"
  /\ IF fallbacks # << >>
     THEN /\ fallbacks' = Tail(fallbacks)
          /\ result' = [result EXCEPT ![Head(fallbacks)] = "ok"]
          /\ call' = [call EXCEPT !.any = TRUE]
     ELSE /\ call' = IF AskKernel THEN [call EXCEPT !.pc = "getevents"] ELSE Idle
          /\ UNCHANGED <<fallbacks, result>>
  /\ UNCHANGED <<kind, cbvars, moved, goal>>

\* io_getevents: at least one event, at most MAX_EVENT of them.
getevents ==
  /\ call.pc = "getevents"
  /\ \E ready \in SUBSET {cb \in Cbs : kernel[cb] \in {"all", "short", "error"}} :
       /\ Cardinality(ready) \in 1 .. MAX_EVENT
       /\ batch' = ready
  /\ call' = [call EXCEPT !.pc = "events"]
  /\ UNCHANGED <<kind, cb_free, allocated, kernel, fallbacks, moved, result, goal>>

\* What ev->res says of the io.
EventResult_unchecked(res) == IF res = "error" THEN "failed" ELSE "ok"
EventResult(res) == IF res = "all" THEN "ok" ELSE "failed"

\* _cb_free
Freed_context(cb) == cb_free \cup {allocated[cb]}
Freed(cb) == cb_free \cup {cb}

\* The loop of _async_wait_ over the events.
events ==
  /\ call.pc = "events"
  /\ IF batch = {}
     THEN Return(TRUE) /\ UNCHANGED <<cbvars, result>>
     ELSE \E cb \in batch :
            /\ result' = [result EXCEPT ![allocated[cb]] = EventResult(kernel[cb])]
            /\ cb_free' = Freed(cb)
            /\ allocated' = [c \in DOMAIN allocated \ {cb} |-> allocated[c]]
            /\ kernel' = [kernel EXCEPT ![cb] = "none"]
            /\ batch' = batch \ {cb}
            /\ UNCHANGED call
  /\ UNCHANGED <<kind, fallbacks, moved, goal>>

-----------------------------------------------------------------------------
\* The manager destroys the engine when it has waited for all ios: no control
\* block is allocated, for which _cb_set_destroy would give up.
destroy ==
  /\ call.pc = "idle" /\ goal = NoIo /\ Pending = {}
  /\ call' = [Idle EXCEPT !.pc = "destroyed"]
  /\ UNCHANGED <<kind, cbvars, fallbacks, moved, result, goal>>

Destroyed == call.pc = "destroyed" /\ UNCHANGED vars

Client == (\E i \in Ios : issue(i) \/ await(i)) \/ destroy
Step ==
  \/ rw \/ drain \/ getevents \/ events \/ wait \/ awaited
  \/ \E cb \in Cbs : kernel_done(cb)

Next == Client \/ Step \/ Destroyed

\* A call runs on until it returns or waits for the kernel; the kernel
\* completes every iocb; a client that waits for an io goes on waiting.
Spec == Init /\ [][Next]_vars /\ WF_vars(Step) /\ \A cb \in Cbs : WF_vars(kernel_done(cb))

-----------------------------------------------------------------------------
(* Properties *)

\* Every variable has its type.
TypeOK ==
  /\ kind \in Kinds
  /\ cb_free \subseteq Cbs /\ batch \subseteq Cbs
  /\ DOMAIN allocated \subseteq Cbs /\ \A cb \in DOMAIN allocated : allocated[cb] \in Ios
  /\ kernel \in [Cbs -> {"none", "submitted", "all", "short", "error"}]
  /\ fallbacks \in Seq(Ios)
  /\ call \in [pc : Pcs, io : Ios \cup {NoIo}, left : 0 .. NrBytes, any : BOOLEAN,
             ret : BOOLEAN]
  /\ moved \in [Ios -> 0 .. NrBytes]
  /\ result \in [Ios -> {"none", "ok", "failed"}]
  /\ goal \in Ios \cup {NoIo}

\* No control block is lost, and none is on the free list, to be used for
\* another io, while the kernel may still write through its iocb.
CbsOK ==
  \A cb \in Cbs : /\ (cb \in cb_free) = (cb \notin DOMAIN allocated)
                   /\ (cb \in cb_free) = (kernel[cb] = "none")

\* An io is reported good only if every byte of it was moved; the test
\* engine's writes are the exception.
ResultTruth ==
  \A i \in Ios : result[i] = "ok" =>
    moved[i] = NrBytes \/ (kind = "test" /\ DirOf[i] = "write")

\* Every io accepted is completed once, none that was refused is, and the
\* client's wait for an io ends: the engine implements IoEngine.
Contract == INSTANCE IoEngine WITH pending <- Pending
ImplementsIoEngine == Contract!Spec
=============================================================================
