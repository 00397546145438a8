------------------------------ MODULE IoEngine ------------------------------
(***************************************************************************)
(* What the block cache relies on an io engine for (struct io_engine in    *)
(* io/io-manager.h): an io that issue accepts is completed exactly once,   *)
(* by a call of the completion function inside wait; an io that issue      *)
(* refuses is never completed; and whoever keeps calling wait for an io    *)
(* gets it.  An io is named here by the context that is handed back.       *)
(***************************************************************************)

CONSTANT Ios

NoIo == "no io"

VARIABLES
  pending,        \* accepted and not completed
  result,         \* how each io was last completed
  goal            \* the io the client calls wait for

interface == <<pending, result, goal>>

Results == {"none", "ok", "failed"}

Init ==
  /\ pending = {}
  /\ result = [i \in Ios |-> "none"]
  /\ goal = NoIo

\* issue returns true, or false.
Accept(i) ==
  /\ goal = NoIo /\ i \notin pending
  /\ pending' = pending \cup {i}
  /\ result' = [result EXCEPT ![i] = "none"]
  /\ UNCHANGED goal

Refuse(i) ==
  /\ goal = NoIo /\ i \notin pending
  /\ result' = [result EXCEPT ![i] = "none"]
  /\ UNCHANGED <<pending, goal>>

Await(i) ==
  /\ goal = NoIo /\ i \in pending
  /\ goal' = i
  /\ UNCHANGED <<pending, result>>

Complete(i) ==
  /\ goal # NoIo /\ i \in pending
  /\ pending' = pending \ {i}
  /\ \E r \in {"ok", "failed"} : result' = [result EXCEPT ![i] = r]
  /\ UNCHANGED goal

Awaited ==
  /\ goal # NoIo /\ goal \notin pending
  /\ goal' = NoIo
  /\ UNCHANGED <<pending, result>>

Next == (\E i \in Ios : Accept(i) \/ Refuse(i) \/ Await(i) \/ Complete(i)) \/ Awaited

\* Once the client waits for an io, it is completed and the client goes on.
Fairness ==
  /\ \A i \in Ios : WF_interface(goal = i /\ Complete(i))
  /\ WF_interface(Awaited)

Spec == Init /\ [][Next]_interface /\ Fairness
=============================================================================
