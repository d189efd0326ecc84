------------------------------ MODULE TaskLife ------------------------------
(***************************************************************************)
(* What the Tasks extension promises a client that polls (mcp/tasks.ts,    *)
(* toMcpTask): a task works, then ends once, with the answer that belongs  *)
(* to its end, and "a terminal status never changes afterwards".           *)
(***************************************************************************)
CONSTANT Task

VARIABLES
  status,  \* status[t]: what tasks/get answers for t
  shown    \* shown[t]: what comes with it: nothing, the result, or an error

Terminal == {"completed", "failed", "cancelled"}

TypeOK ==
  /\ status \in [Task -> {"unknown", "working"} \cup Terminal]
  /\ shown \in [Task -> {"nothing", "result", "error"}]

Init ==
  /\ status = [t \in Task |-> "unknown"]
  /\ shown = [t \in Task |-> "nothing"]

Submit(t) ==
  /\ status[t] = "unknown"
  /\ status' = [status EXCEPT ![t] = "working"]
  /\ UNCHANGED shown

\* Only a completed task has a result, and it always has one.
End(t) ==
  /\ status[t] = "working"
  /\ \E s \in Terminal, a \in {"nothing", "result", "error"} :
       /\ s = "completed" <=> a = "result"
       /\ s = "cancelled" => a = "nothing"
       /\ status' = [status EXCEPT ![t] = s]
       /\ shown' = [shown EXCEPT ![t] = a]

\* The row outlives the task by the retention period.
Forget(t) ==
  /\ status[t] \in Terminal
  /\ status' = [status EXCEPT ![t] = "unknown"]
  /\ shown' = [shown EXCEPT ![t] = "nothing"]

\* One claim may finish several cancelled tasks.
Next ==
  \/ \E t \in Task : Submit(t) \/ End(t) \/ Forget(t)
  \/ \E S \in SUBSET {t \in Task : status[t] = "working"} :
       /\ status' = [t \in Task |-> IF t \in S THEN "cancelled" ELSE status[t]]
       /\ UNCHANGED shown

Spec == Init /\ [][Next]_<<status, shown>>

=============================================================================
