------------------------------ MODULE JobQueue ------------------------------
(***************************************************************************)
(* What io/io-processor.c promises: every job that is accepted is reported *)
(* to exactly one of the two callbacks, exactly once, by a call of exec,   *)
(* and exec returns when no job is left, those included that callbacks     *)
(* have added meanwhile.                                                   *)
(***************************************************************************)

CONSTANT Jobs

VARIABLES
  todo,           \* accepted and not reported
  report,         \* how each job was reported
  running         \* inside exec

queue == <<todo, report, running>>

Init ==
  /\ todo = {}
  /\ report = [j \in Jobs |-> "none"]
  /\ running = FALSE

Accept(j) ==
  /\ j \notin todo /\ report[j] = "none"
  /\ todo' = todo \cup {j}
  /\ UNCHANGED <<report, running>>

Exec ==
  /\ ~running
  /\ running' = TRUE
  /\ UNCHANGED <<todo, report>>

Report(j) ==
  /\ running /\ j \in todo
  /\ todo' = todo \ {j}
  /\ \E r \in {"done", "failed"} : report' = [report EXCEPT ![j] = r]
  /\ UNCHANGED running

Return ==
  /\ running /\ todo = {}
  /\ running' = FALSE
  /\ UNCHANGED <<todo, report>>

\* The jobs that were not executed are dropped.
Destroy ==
  /\ ~running
  /\ todo' = {}
  /\ UNCHANGED <<report, running>>

Next == (\E j \in Jobs : Accept(j) \/ Report(j)) \/ Exec \/ Return \/ Destroy

Spec == Init /\ [][Next]_queue /\ WF_queue(Return \/ \E j \in Jobs : Report(j))
=============================================================================
