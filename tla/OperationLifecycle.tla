-------------------------- MODULE OperationLifecycle --------------------------
(***************************************************************************)
(* What the host promises a widget about one asynchronous operation,       *)
(* whatever tasks and channels it takes (ADR-0004, decisions 4 and 5): one *)
(* terminal, a result for "succeeded" only, taken at most once, and never  *)
(* dropped behind the back of a guest that has been told of it.            *)
(***************************************************************************)
CONSTANTS Ids, Failures

VARIABLES
    phase,    \* "absent", "pending", "ended"
    outcome,  \* "none", "succeeded" or the failure
    payload,  \* "none", "held", "taken", "dropped"
    told,     \* ids whose terminal the guest has been told
    serving   \* the instance still serves events

vars == <<phase, outcome, payload, told, serving>>

Init ==
    /\ phase = [i \in Ids |-> "absent"]
    /\ outcome = [i \in Ids |-> "none"]
    /\ payload = [i \in Ids |-> "none"]
    /\ told = {}
    /\ serving = TRUE

Accept(i) ==
    /\ phase[i] = "absent"
    /\ phase' = [phase EXCEPT ![i] = "pending"]
    /\ UNCHANGED <<outcome, payload, told, serving>>

Succeed(i) ==
    /\ phase[i] = "pending"
    /\ phase' = [phase EXCEPT ![i] = "ended"]
    /\ outcome' = [outcome EXCEPT ![i] = "succeeded"]
    /\ payload' = [payload EXCEPT ![i] = "held"]
    /\ UNCHANGED <<told, serving>>

Fail(i, failure) ==
    /\ phase[i] = "pending"
    /\ phase' = [phase EXCEPT ![i] = "ended"]
    /\ outcome' = [outcome EXCEPT ![i] = failure]
    /\ UNCHANGED <<payload, told, serving>>

Tell(i) ==
    /\ serving
    /\ phase[i] = "ended"
    /\ payload[i] # "dropped"
    /\ i \notin told
    /\ told' = told \cup {i}
    /\ UNCHANGED <<phase, outcome, payload, serving>>

Take(i) ==
    /\ payload[i] = "held"
    /\ payload' = [payload EXCEPT ![i] = "taken"]
    /\ UNCHANGED <<phase, outcome, told, serving>>

Drop(i) ==
    /\ payload[i] = "held"
    /\ i \notin told
    /\ payload' = [payload EXCEPT ![i] = "dropped"]
    /\ UNCHANGED <<phase, outcome, told, serving>>

StopServing ==
    /\ serving
    /\ serving' = FALSE
    /\ UNCHANGED <<phase, outcome, payload, told>>

Next ==
    \/ \E i \in Ids : \/ Accept(i) \/ Succeed(i) \/ Tell(i) \/ Take(i) \/ Drop(i)
                      \/ \E failure \in Failures : Fail(i, failure)
    \/ StopServing

Spec == Init /\ [][Next]_vars
=============================================================================
