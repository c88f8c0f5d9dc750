------------------------- MODULE ExecutionLifecycle -------------------------
(***************************************************************************)
(* What the task pipeline promises to someone who reads the status of an   *)
(* execution, such as the LDAP button that polls it: an execution appears  *)
(* as PENDING, may be seen IN_PROGRESS, ends once as SUCCESS or FAILURE    *)
(* and never changes afterwards; it is a SUCCESS only if its result was    *)
(* handled, and the result is handled at most once.                        *)
(***************************************************************************)
CONSTANT Execution

VARIABLES
    status,    \* the status a reader sees
    handled    \* the executions whose result was handled

Init ==
    /\ status = [e \in Execution |-> "ABSENT"]
    /\ handled = {}

Create(e) ==
    /\ status[e] = "ABSENT"
    /\ status' = [status EXCEPT ![e] = "PENDING"]
    /\ UNCHANGED handled

Begin(e) ==
    /\ status[e] = "PENDING"
    /\ status' = [status EXCEPT ![e] = "IN_PROGRESS"]
    /\ UNCHANGED handled

HandleResult(e) ==
    /\ status[e] \in {"PENDING", "IN_PROGRESS"}
    /\ e \notin handled
    /\ handled' = handled \cup {e}
    /\ UNCHANGED status

Succeed(e) ==
    /\ status[e] \in {"PENDING", "IN_PROGRESS"}
    /\ e \in handled
    /\ status' = [status EXCEPT ![e] = "SUCCESS"]
    /\ UNCHANGED handled

Fail(e) ==
    /\ status[e] \in {"PENDING", "IN_PROGRESS"}
    /\ e \notin handled
    /\ status' = [status EXCEPT ![e] = "FAILURE"]
    /\ UNCHANGED handled

Next == \E e \in Execution :
    Create(e) \/ Begin(e) \/ HandleResult(e) \/ Succeed(e) \/ Fail(e)

Spec == Init /\ [][Next]_<<status, handled>>
=============================================================================
