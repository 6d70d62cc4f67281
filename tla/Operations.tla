------------------------------ MODULE Operations ------------------------------
(***************************************************************************)
(* The host-managed asynchronous operations of one widget instance: the    *)
(* registry, its dispatcher and workers (floatile-services/operation.rs),  *)
(* the broker entry points the guest reaches them through, the completion  *)
(* relay and the serial actor that runs the guest (floatile-runtime).      *)
(*                                                                         *)
(* Processes: the actor thread (guest calls, broker drop), the dispatcher  *)
(* task, one worker task per operation, the relay task, and the clock.     *)
(* Payloads are abstract: an operation is its id, its capability and the   *)
(* terminal it ends with.                                                  *)
(***************************************************************************)
EXTENDS Naturals, Sequences, FiniteSets

CONSTANTS
    MaxOps,              \* size of the id space: u64::MAX - 1 in the code
    Capabilities,        \* capability ids
    Asks,                \* what the guest's n-th operation may ask for (a bound on its inputs)
    Granted,             \* capabilities the instance grant contains
    Notifiable,          \* capabilities the actor turns into guest events
    QueueCapacity,       \* OperationLimits::queue_capacity
    CompletionCapacity,  \* OperationLimits::completion_capacity
    MaxInFlight,         \* OperationLimits::max_in_flight
    MaxRetained,         \* OperationLimits::max_retained_results
    CmdCapacity          \* QUEUE_CAPACITY of the actor's command channel

ASSUME LimitsAssumption ==
    /\ MaxOps \in Nat \ {0}
    /\ QueueCapacity \in Nat \ {0}
    /\ CompletionCapacity \in Nat \ {0}
    /\ MaxInFlight \in Nat \ {0}
    /\ MaxRetained \in Nat \ {0}
    /\ CmdCapacity \in Nat \ {0}

ASSUME CapabilityAssumption ==
    /\ Capabilities # {}
    /\ Asks \in [1..MaxOps -> SUBSET Capabilities]
    /\ Granted \subseteq Capabilities
    /\ Notifiable \subseteq Capabilities

Ids == 1..MaxOps

(***************************************************************************)
(* Where an operation is.  "queued" .. "parked": accepted and not yet      *)
(* finished; "deactivate", "send": the worker holds its terminal; "sent"   *)
(* .. "enqueued": its completion travels to the actor; then it was told to *)
(* the guest, dropped (with its result) or lost with a closed channel.     *)
(***************************************************************************)
Waiting    == {"queued"}
Executing  == {"spawned", "select", "checked", "armed", "polling", "parked"}
Finishing  == {"deactivate", "send"}
Travelling == {"sent", "routing", "full", "closed", "enqueued"}
Settled    == {"told", "dropped", "lost"}
Stages     == {"absent"} \cup Waiting \cup Executing \cup Finishing
                  \cup Travelling \cup Settled

Failures  == {"timeout", "cancelled", "unavailable", "internal", "result-dropped"}
Terminals == {"none", "succeeded"} \cup Failures

Call         == [kind |-> "call", id |-> 0]      \* Start, Event or Timer
Shutdown     == [kind |-> "shutdown", id |-> 0]
Completed(i) == [kind |-> "completed", id |-> i]
Commands     == {Call, Shutdown} \cup {Completed(i) : i \in Ids}

\* Serving guest callbacks one at a time, then run_actor unwinding its locals.
Serving     == {"constructing", "idle", "guest"}
ActorStates == Serving \cup {"stopping", "dropping", "cancelled", "dropped", "gone"}

VARIABLES
    nextId,      \* NEXT_OPERATION_ID
    active,      \* keys of SharedState.active
    results,     \* keys of SharedState.results
    cap,         \* capability of each id (ActiveOperation, OperationJob, StoredResult)
    flagged,     \* ids whose Cancellation.cancelled is set
    notifying,   \* ids flagged by the running cancel, notify_waiters still to come
    woken,       \* ids whose Notified future has been woken
    expired,     \* ids whose deadline has passed
    jobs,        \* submit channel
    submitOpen,  \* the broker's submit sender is alive
    disp,        \* dispatcher task: "acquire", "recv", "ended"
    permits,     \* free permits of the semaphore
    stage,       \* where each operation is
    terminal,    \* the terminal the worker of an operation decided on
    completions, \* completion channel
    relay,       \* relay task: "recv", "route", "ended"
    cmdq,        \* the actor's command channel
    actor,       \* the actor task, see ActorStates
    taken        \* history: ids whose result the guest has received

vars == <<nextId, active, results, cap, flagged, notifying, woken, expired, jobs,
          submitOpen, disp, permits, stage, terminal, completions, relay, cmdq,
          actor, taken>>

cancelVars == <<flagged, notifying, woken>>
taskVars   == <<jobs, submitOpen, disp, permits>>
actorVars  == <<cmdq, actor, taken>>
idVars     == <<nextId, cap>>

TypeOK ==
    /\ nextId \in 1..(MaxOps + 1)
    /\ active \subseteq Ids
    /\ results \subseteq Ids
    /\ cap \in [Ids -> Capabilities]
    /\ flagged \subseteq Ids
    /\ notifying \subseteq Ids
    /\ woken \subseteq Ids
    /\ expired \subseteq Ids
    /\ jobs \in Seq(Ids)
    /\ submitOpen \in BOOLEAN
    /\ disp \in {"acquire", "recv", "ended"}
    /\ permits \in Nat
    /\ stage \in [Ids -> Stages]
    /\ terminal \in [Ids -> Terminals]
    /\ completions \in Seq(Ids)
    /\ relay \in {"recv", "route", "ended"}
    /\ cmdq \in Seq(Commands)
    /\ actor \in ActorStates
    /\ taken \subseteq Ids

Init ==
    /\ nextId = 1
    /\ active = {}
    /\ results = {}
    /\ cap = [i \in Ids |-> CHOOSE c \in Capabilities : TRUE]
    /\ flagged = {}
    /\ notifying = {}
    /\ woken = {}
    /\ expired = {}
    /\ jobs = <<>>
    /\ submitOpen = TRUE
    /\ disp = "acquire"
    /\ permits = MaxInFlight
    /\ stage = [i \in Ids |-> "absent"]
    /\ terminal = [i \in Ids |-> "none"]
    /\ completions = <<>>
    /\ relay = "recv"
    /\ cmdq = <<>>
    /\ actor = "constructing"
    /\ taken = {}
-----------------------------------------------------------------------------
(***************************************************************************)
(* The guest, running on the actor thread.  It runs only inside a callback *)
(* (constructor, start, handle-event, stop); while cancel holds the lock   *)
(* of `active` it cannot do anything else.                                 *)
(***************************************************************************)
\* Broker::authorize: deny unless the instance grant contains the capability.
Authorized(c) == c \in Granted

GuestRuns == actor \in {"constructing", "guest", "stopping"} /\ notifying = {}

\* Mutant of Submit: a full queue leaves the id in `active`.
SubmitForgetsActive(c) ==
    /\ GuestRuns
    /\ Authorized(c)
    /\ nextId <= MaxOps
    /\ c \in Asks[nextId]
    /\ nextId' = nextId + 1
    /\ cap' = [cap EXCEPT ![nextId] = c]
    /\ active' = active \cup {nextId}
    /\ IF disp # "ended" /\ Len(jobs) < QueueCapacity
          THEN /\ jobs' = Append(jobs, nextId)
               /\ stage' = [stage EXCEPT ![nextId] = "queued"]
          ELSE UNCHANGED <<jobs, stage>>
    /\ UNCHANGED <<results, cancelVars, expired, submitOpen, disp, permits, terminal,
                   completions, relay, actorVars>>

\* Broker::submit_operation, then OperationRegistry::submit.  A refusal by the
\* broker or a bad deadline changes nothing; a full queue consumes the id.
Submit(c) ==
    /\ GuestRuns
    /\ Authorized(c)
    /\ nextId <= MaxOps
    /\ c \in Asks[nextId]
    /\ nextId' = nextId + 1
    /\ cap' = [cap EXCEPT ![nextId] = c]
    /\ IF disp # "ended" /\ Len(jobs) < QueueCapacity
          THEN /\ active' = active \cup {nextId}
               /\ jobs' = Append(jobs, nextId)
               /\ stage' = [stage EXCEPT ![nextId] = "queued"]
          ELSE UNCHANGED <<active, jobs, stage>>
    /\ UNCHANGED <<results, cancelVars, expired, submitOpen, disp, permits, terminal,
                   completions, relay, actorVars>>

\* Broker::cancel_operation_by_id: the capability comes from the registry.  The
\* lock of `active` is held from the flag to notify_waiters.
Cancel(i) ==
    /\ GuestRuns
    /\ i \in active
    /\ Authorized(cap[i])
    /\ flagged' = flagged \cup {i}
    /\ notifying' = {i}
    /\ UNCHANGED <<idVars, active, results, woken, expired, taskVars, stage, terminal,
                   completions, relay, actorVars>>

\* Notify::notify_waiters reaches the futures created before it.
NotifyWaiters(i) ==
    /\ i \in notifying
    /\ notifying' = notifying \ {i}
    /\ woken' = IF stage[i] \in {"armed", "polling", "parked"} THEN woken \cup {i} ELSE woken
    /\ UNCHANGED <<idVars, active, results, flagged, expired, taskVars, stage, terminal,
                   completions, relay, actorVars>>

\* Broker::take_operation_result with the capability of the adapter called.
Take(i, c) ==
    /\ GuestRuns
    /\ Authorized(c)
    /\ i \in results
    /\ cap[i] = c
    /\ results' = results \ {i}
    /\ taken' = taken \cup {i}
    /\ UNCHANGED <<idVars, active, cancelVars, expired, taskVars, stage, terminal,
                   completions, relay, cmdq, actor>>
-----------------------------------------------------------------------------
(***************************************************************************)
(* The dispatcher takes a permit before it takes a job.                    *)
(***************************************************************************)

AcquirePermit ==
    /\ disp = "acquire"
    /\ permits > 0
    /\ permits' = permits - 1
    /\ disp' = "recv"
    /\ UNCHANGED <<idVars, active, results, cancelVars, expired, jobs, submitOpen, stage,
                   terminal, completions, relay, actorVars>>

SpawnWorker ==
    /\ disp = "recv"
    /\ jobs # <<>>
    /\ jobs' = Tail(jobs)
    /\ disp' = "acquire"
    /\ stage' = [stage EXCEPT ![Head(jobs)] = "spawned"]
    /\ UNCHANGED <<idVars, active, results, cancelVars, expired, submitOpen, permits,
                   terminal, completions, relay, actorVars>>

DispatcherEnds ==
    /\ disp = "recv"
    /\ jobs = <<>>
    /\ ~submitOpen
    /\ disp' = "ended"
    /\ permits' = permits + 1
    /\ UNCHANGED <<idVars, active, results, cancelVars, expired, jobs, submitOpen, stage,
                   terminal, completions, relay, actorVars>>

\* The deadline of an accepted operation passes.
Expire(i) ==
    /\ stage[i] \in Waiting \cup Executing
    /\ i \notin expired
    /\ expired' = expired \cup {i}
    /\ UNCHANGED <<idVars, active, results, cancelVars, taskVars, stage, terminal,
                   completions, relay, actorVars>>
-----------------------------------------------------------------------------
(***************************************************************************)
(* One worker: run_operation.  The select is biased: cancellation first,   *)
(* then the work, then its deadline.                                       *)
(***************************************************************************)
Advance(i, from, to) ==
    /\ stage[i] = from
    /\ stage' = [stage EXCEPT ![i] = to]
    /\ UNCHANGED <<idVars, active, results, cancelVars, expired, taskVars, terminal,
                   completions, relay, actorVars>>

Fail(i, from, failure) ==
    /\ stage[i] = from
    /\ stage' = [stage EXCEPT ![i] = "deactivate"]
    /\ terminal' = [terminal EXCEPT ![i] = failure]
    /\ UNCHANGED <<idVars, active, results, cancelVars, expired, taskVars, completions,
                   relay, actorVars>>

\* A deadline that passed in the queue wins over everything, work never runs.
CheckDeadline(i) ==
    IF i \in expired THEN Fail(i, "spawned", "timeout") ELSE Advance(i, "spawned", "select")

\* Cancellation::cancelled: a first check, then the Notified future is created.
FirstCheck(i) ==
    IF i \in flagged THEN Fail(i, "select", "cancelled") ELSE Advance(i, "select", "checked")

CreateNotified(i) == Advance(i, "checked", "armed")

\* Mutant of SecondCheck: the flag is read only before the future is created.
NoSecondCheck(i) == Advance(i, "armed", "polling")

\* Second check, with the future created.
SecondCheck(i) ==
    IF i \in flagged THEN Fail(i, "armed", "cancelled") ELSE Advance(i, "armed", "polling")

\* Mutant of FinishOk: the newest result evicts the others.
FinishOkEvicts(i) ==
    /\ stage[i] = "polling"
    /\ stage' = [stage EXCEPT ![i] = "deactivate"]
    /\ terminal' = [terminal EXCEPT ![i] = "succeeded"]
    /\ results' = IF Cardinality(results) >= MaxRetained THEN {i} ELSE results \cup {i}
    /\ UNCHANGED <<idVars, active, cancelVars, expired, taskVars, completions, relay,
                   actorVars>>

\* The work is ready; its result is kept only below the retention limit.
FinishOk(i) ==
    /\ stage[i] = "polling"
    /\ stage' = [stage EXCEPT ![i] = "deactivate"]
    /\ IF Cardinality(results) >= MaxRetained
          THEN /\ terminal' = [terminal EXCEPT ![i] = "result-dropped"]
               /\ UNCHANGED results
          ELSE /\ terminal' = [terminal EXCEPT ![i] = "succeeded"]
               /\ results' = results \cup {i}
    /\ UNCHANGED <<idVars, active, cancelVars, expired, taskVars, completions, relay,
                   actorVars>>

FinishErr(i) == \E f \in {"unavailable", "internal"} : Fail(i, "polling", f)

\* Mutant of DeadlineHit: the work is awaited without timeout_at.
NoDeadline(i) == FALSE

DeadlineHit(i) == i \in expired /\ Fail(i, "polling", "timeout")

Park(i) == i \notin expired /\ Advance(i, "polling", "parked")

\* A parked worker runs again: woken by cancel, or by its work or its deadline.
Wake(i) ==
    IF i \in woken THEN Fail(i, "parked", "cancelled") ELSE Advance(i, "parked", "polling")

\* active.remove needs the lock a running cancel holds.  With the registry's
\* reference gone nobody can reach the operation's Cancellation any more.
Deactivate(i) ==
    /\ stage[i] = "deactivate"
    /\ notifying = {}
    /\ active' = active \ {i}
    /\ stage' = [stage EXCEPT ![i] = "send"]
    /\ flagged' = flagged \ {i}
    /\ woken' = woken \ {i}
    /\ expired' = expired \ {i}
    /\ UNCHANGED <<idVars, results, notifying, taskVars, terminal, completions, relay,
                   actorVars>>

\* completions.send().await; the permit is released when the task ends.
SendCompletion(i) ==
    /\ stage[i] = "send"
    /\ IF relay # "ended"
          THEN /\ Len(completions) < CompletionCapacity
               /\ completions' = Append(completions, i)
               /\ stage' = [stage EXCEPT ![i] = "sent"]
               /\ UNCHANGED results
          ELSE /\ stage' = [stage EXCEPT ![i] = "dropped"]
               /\ results' = results \ {i}
               /\ UNCHANGED completions
    /\ permits' = permits + 1
    /\ UNCHANGED <<idVars, active, cancelVars, expired, jobs, submitOpen, disp, terminal,
                   relay, actorVars>>

Worker(i) ==
    \/ CheckDeadline(i) \/ FirstCheck(i) \/ CreateNotified(i) \/ SecondCheck(i)
    \/ DeadlineHit(i) \/ Park(i) \/ Wake(i)
    \/ Deactivate(i) \/ SendCompletion(i)

\* The capability's own future: storage or https.
WorkEnds(i) == FinishOk(i) \/ FinishErr(i)
-----------------------------------------------------------------------------
(***************************************************************************)
(* The completion relay of run_actor: it never waits for the actor, a      *)
(* completion that does not fit is dropped together with its result.       *)
(***************************************************************************)
RelayReceive ==
    /\ relay = "recv"
    /\ completions # <<>>
    /\ completions' = Tail(completions)
    /\ stage' = [stage EXCEPT ![Head(completions)] = "routing"]
    /\ relay' = "route"
    /\ UNCHANGED <<idVars, active, results, cancelVars, expired, taskVars, terminal,
                   actorVars>>

\* try_send of OperationCompleted into the actor's command channel.
RelayRoute(i) ==
    /\ stage[i] = "routing"
    /\ IF actor # "gone" /\ Len(cmdq) < CmdCapacity
          THEN /\ cmdq' = Append(cmdq, Completed(i))
               /\ stage' = [stage EXCEPT ![i] = "enqueued"]
               /\ relay' = "recv"
          ELSE /\ stage' = [stage EXCEPT ![i] = IF actor = "gone" THEN "closed" ELSE "full"]
               /\ UNCHANGED <<cmdq, relay>>
    /\ UNCHANGED <<idVars, active, results, cancelVars, expired, taskVars, terminal,
                   completions, actor, taken>>

\* Mutants of RelayDiscard: the result stays; the completion is tried again.
RelayKeepsResult(i) ==
    /\ stage[i] = "full"
    /\ stage' = [stage EXCEPT ![i] = "dropped"]
    /\ relay' = "recv"
    /\ UNCHANGED <<idVars, active, results, cancelVars, expired, taskVars, terminal,
                   completions, actorVars>>

RelayRetries(i) ==
    /\ stage[i] = "full"
    /\ results' = results \ {i}
    /\ stage' = [stage EXCEPT ![i] = "routing"]
    /\ UNCHANGED <<idVars, active, cancelVars, expired, taskVars, terminal, completions,
                   relay, actorVars>>

RelayDiscard(i) ==
    /\ stage[i] = "full"
    /\ results' = results \ {i}
    /\ stage' = [stage EXCEPT ![i] = "dropped"]
    /\ relay' = "recv"
    /\ UNCHANGED <<idVars, active, cancelVars, expired, taskVars, terminal, completions,
                   actorVars>>

\* The actor is closed: discard, leave the loop and drop the receiver with
\* everything still buffered in it.
RelayStops(i) ==
    /\ stage[i] = "closed"
    /\ results' = results \ {i}
    /\ stage' = [j \in Ids |-> CASE j = i -> "dropped"
                                 [] stage[j] = "sent" -> "lost"
                                 [] OTHER -> stage[j]]
    /\ completions' = <<>>
    /\ relay' = "ended"
    /\ UNCHANGED <<idVars, active, cancelVars, expired, taskVars, terminal, actorVars>>

\* Every sender is gone: the dispatcher's own and one per running worker.
RelayEnds ==
    /\ relay = "recv"
    /\ completions = <<>>
    /\ disp = "ended"
    /\ \A i \in Ids : stage[i] \notin Executing \cup Finishing
    /\ relay' = "ended"
    /\ UNCHANGED <<idVars, active, results, cancelVars, expired, taskVars, stage, terminal,
                   completions, actorVars>>
-----------------------------------------------------------------------------
(***************************************************************************)
(* The actor and its host.                                                 *)
(***************************************************************************)
\* WidgetHandle::start, handle_event and shutdown, and the timer sink.
HostSends(cmd) ==
    /\ actor # "gone"
    /\ Len(cmdq) < CmdCapacity
    /\ cmdq' = Append(cmdq, cmd)
    /\ UNCHANGED <<idVars, active, results, cancelVars, expired, taskVars, stage, terminal,
                   completions, relay, actor, taken>>

ActorMoves(from, to) ==
    /\ actor = from
    /\ notifying = {}
    /\ actor' = to
    /\ UNCHANGED <<idVars, active, results, cancelVars, expired, taskVars, stage, terminal,
                   completions, relay, cmdq, taken>>

\* The constructor returns; an error leaves run_actor at once.
ConstructorReturns(ok) == ActorMoves("constructing", IF ok THEN "idle" ELSE "dropping")

\* handle_operation_completion: a completion of a capability that has no guest
\* event is discarded without a callback.
NotifiedGuest(i) ==
    IF cap[i] \in Notifiable
       THEN /\ actor' = "guest"
            /\ stage' = [stage EXCEPT ![i] = "told"]
            /\ UNCHANGED results
       ELSE /\ stage' = [stage EXCEPT ![i] = "dropped"]
            /\ results' = results \ {i}
            /\ UNCHANGED actor

\* cmd_rx.recv and the arm of the command.
ActorReceives ==
    /\ actor = "idle"
    /\ cmdq # <<>>
    /\ cmdq' = Tail(cmdq)
    /\ LET cmd == Head(cmdq) IN
         IF cmd.kind = "completed"
            THEN NotifiedGuest(cmd.id)
            ELSE /\ actor' = IF cmd.kind = "call" THEN "guest" ELSE "stopping"
                 /\ UNCHANGED <<stage, results>>
    /\ UNCHANGED <<idVars, active, cancelVars, expired, taskVars, terminal, completions,
                   relay, taken>>

CallbackReturns == ActorMoves("guest", "idle")

\* Completions still in the command channel never reach the guest.
DrainPending ==
    /\ cmdq' = <<>>
    /\ stage' = [i \in Ids |-> IF stage[i] = "enqueued" THEN "lost" ELSE stage[i]]

\* The callback is rejected, traps or runs out of budget: drain_pending, stop.
CallbackFails ==
    /\ actor = "guest"
    /\ notifying = {}
    /\ actor' = "stopping"
    /\ DrainPending
    /\ UNCHANGED <<idVars, active, results, cancelVars, expired, taskVars, terminal,
                   completions, relay, taken>>

\* stop has returned; the store and the broker in it are dropped.
StopReturns == ActorMoves("stopping", "dropping")

\* Broker::drop cancels every active operation under the lock of `active`.
CancelAll ==
    /\ actor = "dropping"
    /\ actor' = "cancelled"
    /\ flagged' = flagged \cup active
    /\ notifying' = active
    /\ UNCHANGED <<idVars, active, results, woken, expired, taskVars, stage, terminal,
                   completions, relay, cmdq, taken>>

\* The fields of the broker follow, the submit sender among them.
DropRegistry ==
    /\ actor = "cancelled"
    /\ notifying = {}
    /\ actor' = "dropped"
    /\ submitOpen' = FALSE
    /\ UNCHANGED <<idVars, active, results, cancelVars, expired, jobs, disp, permits, stage,
                   terminal, completions, relay, cmdq, taken>>

\* run_actor returns: cmd_rx, one of its parameters, is dropped last.
CloseCommands ==
    /\ actor = "dropped"
    /\ actor' = "gone"
    /\ DrainPending
    /\ UNCHANGED <<idVars, active, results, cancelVars, expired, taskVars, terminal,
                   completions, relay, taken>>
-----------------------------------------------------------------------------
Guest ==
    \/ \E c \in Capabilities : Submit(c)
    \/ \E i \in Ids : Cancel(i)
    \/ \E i \in Ids, c \in Capabilities : Take(i, c)

Dispatcher == AcquirePermit \/ SpawnWorker \/ DispatcherEnds

Relay ==
    \/ RelayReceive \/ RelayEnds
    \/ \E i \in Ids : RelayRoute(i) \/ RelayDiscard(i) \/ RelayStops(i)

\* The guest's callback gives the thread back.
CallbackEnds ==
    \/ \E ok \in BOOLEAN : ConstructorReturns(ok)
    \/ CallbackReturns \/ CallbackFails \/ StopReturns

ActorStep ==
    \/ ActorReceives \/ CancelAll \/ DropRegistry \/ CloseCommands
    \/ \E i \in Ids : NotifyWaiters(i)

Next ==
    \/ Guest
    \/ HostSends(Call) \/ HostSends(Shutdown)
    \/ Dispatcher
    \/ \E i \in Ids : Worker(i) \/ WorkEnds(i) \/ Expire(i)
    \/ Relay
    \/ CallbackEnds \/ ActorStep

Spec == Init /\ [][Next]_vars

(***************************************************************************)
(* tokio polls every woken task and deadlines are finite.  Strong fairness *)
(* where a guest that cancels over and over keeps interrupting: the epoch  *)
(* deadline ends its callback, and the lock of `active` is free between    *)
(* two cancels.  The host, the guest's calls and the work itself have no   *)
(* fairness: work may never finish.                                        *)
(***************************************************************************)
FairSpec ==
    /\ Spec
    /\ WF_vars(Dispatcher)
    /\ \A i \in Ids : WF_vars(Worker(i)) /\ SF_vars(Deactivate(i)) /\ WF_vars(Expire(i))
    /\ WF_vars(Relay)
    /\ WF_vars(ActorStep) /\ SF_vars(CallbackEnds)
-----------------------------------------------------------------------------
(***************************************************************************)
(* Safety.                                                                 *)
(***************************************************************************)
Unfinished(i) == stage[i] \in Waiting \cup Executing
InFlight      == {i \in Ids : stage[i] \in Executing \cup Finishing}

\* The registry of active operations is exactly the operations that can still
\* be cancelled or have yet to publish their terminal: neither a finished one
\* answers cancel for ever nor an unfinished one escapes cancel_all.
ActiveIsUnfinished ==
    active = {i \in Ids : Unfinished(i) \/ stage[i] = "deactivate"}

\* Concurrent workers never push the retained results over their limit.
ResultsBounded == Cardinality(results) <= MaxRetained

\* While the instance serves events, a result is held only for an operation
\* whose completion has reached the guest or is still on its way to it; every
\* path that drops the completion drops the result.
NoOrphanedResult ==
    actor \in Serving =>
        \A i \in results : stage[i] \in Finishing \cup Travelling \cup {"told"}

\* A guest that was told "succeeded" finds the result, until it takes it.
SucceededIsTakable ==
    \A i \in Ids : stage[i] \in {"enqueued", "told"} /\ terminal[i] = "succeeded"
                      => i \in results \cup taken

\* Cancellation::cancelled against Cancellation::cancel: a worker never sleeps
\* through a cancellation that has finished notifying.
NoLostWakeup ==
    \A i \in flagged \ notifying : stage[i] = "parked" => i \in woken

\* The registry's table agrees with the tasks that own its entries
\* (operation.rs:190-220, 469-500).
RegistryConsistent == TypeOK /\ ActiveIsUnfinished

\* Results and the completions that lead to them go together, whichever of the
\* two is dropped (operation.rs:469-500, runtime/lib.rs:383).
ResultsReachable == NoOrphanedResult /\ SucceededIsTakable

(***************************************************************************)
(* The promise of OperationLifecycle, under the mapping of the tasks and   *)
(* channels to what a guest can tell of them.                              *)
(***************************************************************************)
phaseBar ==
    [i \in Ids |-> IF stage[i] = "absent" THEN "absent"
                   ELSE IF Unfinished(i) THEN "pending" ELSE "ended"]
payloadBar ==
    [i \in Ids |-> IF i \in results THEN "held"
                   ELSE IF i \in taken THEN "taken"
                   ELSE IF terminal[i] = "succeeded" THEN "dropped" ELSE "none"]
toldBar    == {i \in Ids : stage[i] = "told"}
servingBar == actor \in Serving

Promise == INSTANCE OperationLifecycle WITH
    phase <- phaseBar, outcome <- terminal, payload <- payloadBar,
    told <- toldBar, serving <- servingBar

\* One terminal per operation, a result taken at most once, never dropped after
\* the guest was told of it, and never told of after it was dropped.
KeepsPromise == Promise!Spec

(***************************************************************************)
(* Liveness.                                                               *)
(***************************************************************************)
\* Every accepted operation ends and its completion leaves the worker, even if
\* its work never finishes and the guest never returns for it.
AcceptedFinishes ==
    \A i \in Ids : stage[i] = "queued" ~> stage[i] \in Travelling \cup Settled

\* Once the actor is dropped, the dispatcher, the workers and the relay all end:
\* no task keeps another one's channel alive.
TasksEndWithActor ==
    actor = "dropping" ~> /\ disp = "ended" /\ relay = "ended"
                          /\ InFlight = {} /\ jobs = <<>>

\* Nobody waits for good: a permit or a task lost on any path of a worker
\* (operation.rs:420-520) would leave an operation or a task behind.
TasksFinish == AcceptedFinishes /\ TasksEndWithActor
=============================================================================
