----------------------------- MODULE WidgetSession -----------------------------
(***************************************************************************)
(* One running widget: the actor that serves its WASM component            *)
(* (floatile-runtime/lib.rs), the timers and the State it owns             *)
(* (floatile-services/timer.rs, floatile-runtime/state.rs), and the        *)
(* session worker of the shell that starts the actor, forwards UI events   *)
(* to it and projects its State on the window                              *)
(* (floatile-shell/runtime_ui.rs).                                         *)
(*                                                                         *)
(* The actor serves one command at a time.  A guest call is a phase of the *)
(* actor: each host import the guest makes in it is a step of its own, and *)
(* timer tasks, the completion relay, the session worker and the UI thread *)
(* run between them.  Operations are module Operations; here only their    *)
(* completions appear, for they share the command queue.                   *)
(***************************************************************************)
EXTENDS Naturals, Sequences, FiniteSets

CONSTANTS
    Values,          \* State values the guest writes; the first is 0
    CommandCap,      \* QUEUE_CAPACITY of the command channel
    UpdateCap,       \* QUEUE_CAPACITY of the UI update channel
    EventCap,        \* EVENT_QUEUE_CAPACITY
    EventBatch,      \* EVENT_BATCH_SIZE
    MaxActive,       \* max_active of TimerService
    MaxPerWindow,    \* max_per_minute of TimerService
    MaxRate,         \* MAX_UPDATE_RATE_PER_SEC
    MaxTimers,       \* bound on the timers scheduled
    MaxUpdates,      \* bound on the calls of update-state
    MaxCompletions   \* bound on the operation completions

ASSUME SessionAssumption ==
    /\ 0 \in Values
    /\ {CommandCap, UpdateCap, EventCap, EventBatch} \subseteq Nat \ {0}
    /\ {MaxActive, MaxPerWindow, MaxRate, MaxTimers, MaxUpdates, MaxCompletions}
         \subseteq Nat

VARIABLES
    commands,    \* the actor's queue
    actor,       \* the command being served, or where the actor is
    accepted,    \* history: the guest has accepted start
    reply,       \* answer to the session's last command: "none", "waiting", "ok", "error"
    timers,      \* task of each timer scheduled: "asleep", "due", "sent", "lost", "over"
    active,      \* TimerService.active
    cancelled,   \* timers whose flag is set
    window,      \* TimerService.window_count
    state,       \* the widget's State
    seq,         \* the number of States committed
    updates,     \* UI updates on their way to the session worker
    rate,        \* UiState.window_count
    calls,       \* calls of update-state so far
    answer,      \* what the last update-state returned: "ok" or "error"
    acked,       \* history: number of the last State acknowledged to the guest
    early,       \* history: timers cancelled before they were due
    completions, \* operation completions relayed so far
    worker,      \* where the session worker is
    forwarded,   \* events forwarded in this round
    lifecycle,   \* what the worker has reported
    shown,       \* number of the State last handed to the window
    events,      \* events waiting in the bridge
    stop,        \* the session has been dropped by its owner
    failure      \* the worker has seen its session fail

timerVars   == <<timers, active, cancelled, window, early>>
stateVars   == <<state, seq, updates, rate, calls, answer, acked>>
bridgeVars  == <<events, stop>>
workerVars  == <<worker, forwarded, lifecycle, shown, failure>>
actorVars   == <<commands, actor, accepted, reply>>
vars == <<actorVars, timerVars, stateVars, completions, workerVars, bridgeVars>>

Command(kind) == [kind |-> kind, id |-> 0]
TimerCommand(id) == [kind |-> "timer", id |-> id]
Commands == {Command(kind) : kind \in {"start", "event", "completion", "shutdown"}}
              \cup {TimerCommand(id) : id \in 1..MaxTimers}
Ids == 1..Len(timers)
Update == [seq : 1..MaxUpdates, state : Values]

TypeOK ==
    /\ commands \in Seq(Commands) /\ Len(commands) <= CommandCap
    /\ actor \in Commands \cup {Command(kind) : kind \in {"absent", "constructor", "idle", "stop", "ended"}}
    /\ accepted \in BOOLEAN
    /\ reply \in {"none", "waiting", "ok", "error"}
    /\ timers \in Seq({"asleep", "due", "sent", "lost", "over"}) /\ Len(timers) <= MaxTimers
    /\ active \subseteq Ids /\ cancelled \subseteq Ids /\ early \subseteq cancelled
    /\ window \in 0..MaxPerWindow
    /\ state \in Values
    /\ updates \in Seq(Update) /\ Len(updates) <= UpdateCap
    /\ rate \in 0..MaxRate
    /\ {seq, calls, acked, shown} \subseteq 0..MaxUpdates
    /\ answer \in {"ok", "error"}
    /\ completions \in 0..MaxCompletions
    /\ worker \in {"spawning", "begin", "starting", "top", "forward", "sending", "forwarding", "projecting",
                   "closing", "joining", "ended"}
    /\ forwarded \in 0..EventBatch
    /\ lifecycle \in Seq({"running", "failed", "stopped"}) /\ Len(lifecycle) <= 4
    /\ events \in 0..EventCap
    /\ {stop, failure} \subseteq BOOLEAN

Init ==
    /\ commands = <<>> /\ actor = Command("absent") /\ accepted = FALSE /\ reply = "none"
    /\ timers = <<>> /\ active = {} /\ cancelled = {} /\ early = {} /\ window = 0
    /\ state = 0 /\ seq = 0 /\ updates = <<>> /\ rate = 0 /\ calls = 0
    /\ answer = "ok" /\ acked = 0
    /\ completions = 0
    /\ worker = "spawning" /\ forwarded = 0 /\ lifecycle = <<>> /\ shown = 0 /\ failure = FALSE
    /\ events = 0 /\ stop = FALSE
-----------------------------------------------------------------------------
(***************************************************************************)
(* The actor's queue.  Its receiver is dropped when the actor ends: what   *)
(* is queued then is dropped, and a later send is refused.                 *)
(***************************************************************************)
Ended    == actor.kind = "ended"
InGuest  == actor.kind \notin {"absent", "idle", "ended"}
HasRoom  == ~Ended /\ Len(commands) < CommandCap
Waits(queue) == \E k \in DOMAIN queue : queue[k].kind \in {"start", "event"}

Enqueue(command) == commands' = Append(commands, command)
-----------------------------------------------------------------------------
(***************************************************************************)
(* What the guest may call while the actor serves it.                      *)
(***************************************************************************)
Admitted == window < MaxPerWindow /\ Cardinality(active) < MaxActive

\* TimerService::schedule.  A refusal changes nothing.
Schedule ==
    /\ InGuest
    /\ Admitted
    /\ Len(timers) < MaxTimers
    /\ timers' = Append(timers, "asleep")
    /\ active' = active \cup {Len(timers) + 1}
    /\ window' = window + 1
    /\ UNCHANGED <<cancelled, early, actorVars, stateVars, completions, workerVars, bridgeVars>>

\* A schedule in a later minute resets the window first.
NewMinute ==
    /\ window > 0
    /\ window' = 0
    /\ UNCHANGED <<timers, active, cancelled, early, actorVars, stateVars, completions,
                   workerVars, bridgeVars>>

\* TimerService::cancel.  The task of the timer is not stopped: it looks at the flag once,
\* when it wakes up.
Cancel(id) ==
    /\ InGuest
    /\ id \in active
    /\ active' = active \ {id}
    /\ cancelled' = cancelled \cup {id}
    /\ early' = IF timers[id] = "asleep" THEN early \cup {id} ELSE early
    /\ UNCHANGED <<timers, window, actorVars, stateVars, completions, workerVars, bridgeVars>>

\* Mutant of WakesUp: the flag is not looked at.
WakesUpBlind(id) == "due"

WakesUp(id) == IF id \in cancelled THEN "over" ELSE "due"

\* The timer's task wakes up and reads the flag.
Wake(id) ==
    /\ timers[id] = "asleep"
    /\ timers' = [timers EXCEPT ![id] = WakesUp(id)]
    /\ UNCHANGED <<active, cancelled, window, early, actorVars, stateVars, completions,
                   workerVars, bridgeVars>>

\* The sink: the event is queued, or it is lost with the queue full or closed.
Fire(id) ==
    /\ timers[id] = "due"
    /\ IF HasRoom
          THEN Enqueue(TimerCommand(id)) /\ timers' = [timers EXCEPT ![id] = "sent"]
          ELSE timers' = [timers EXCEPT ![id] = "lost"] /\ UNCHANGED commands
    /\ UNCHANGED <<actor, accepted, reply, active, cancelled, window, early, stateVars, completions,
                   workerVars, bridgeVars>>

\* update_state: a patch over the rate.
UpdateTooOften ==
    /\ InGuest
    /\ calls < MaxUpdates
    /\ rate >= MaxRate
    /\ calls' = calls + 1
    /\ answer' = "error"
    /\ UNCHANGED <<state, seq, updates, rate, acked, actorVars, timerVars, completions,
                   workerVars, bridgeVars>>

\* update_state: a patch that is too large, no object, or breaks the schema.
UpdateInvalid ==
    /\ InGuest
    /\ calls < MaxUpdates
    /\ rate < MaxRate
    /\ rate' = rate + 1
    /\ calls' = calls + 1
    /\ answer' = "error"
    /\ UNCHANGED <<state, seq, updates, acked, actorVars, timerVars, completions, workerVars,
                   bridgeVars>>

\* Mutant of Delivered: with the channel full, the oldest update makes room.
DeliveredOverOldest(update) ==
    IF Len(updates) < UpdateCap THEN Append(updates, update) ELSE Append(Tail(updates), update)

Delivered(update) == IF Len(updates) < UpdateCap THEN Append(updates, update) ELSE updates

Acknowledged == Len(updates) < UpdateCap

\* update_state: a valid patch is committed, then its State is offered to the UI.
UpdateValid(value) ==
    /\ InGuest
    /\ calls < MaxUpdates
    /\ rate < MaxRate
    /\ rate' = rate + 1
    /\ calls' = calls + 1
    /\ seq' = seq + 1
    /\ state' = value
    /\ updates' = Delivered([seq |-> seq + 1, state |-> value])
    /\ answer' = IF Acknowledged THEN "ok" ELSE "error"
    /\ acked' = IF Acknowledged THEN seq + 1 ELSE acked
    /\ UNCHANGED <<actorVars, timerVars, completions, workerVars, bridgeVars>>

\* An update in a later second resets the window first.
NewSecond ==
    /\ rate > 0
    /\ rate' = 0
    /\ UNCHANGED <<state, seq, updates, calls, answer, acked, actorVars, timerVars, completions,
                   workerVars, bridgeVars>>
-----------------------------------------------------------------------------
(***************************************************************************)
(* run_actor.                                                              *)
(***************************************************************************)
\* instantiate and the constructor.  When they fail the actor ends at once: its receiver is
\* dropped, and with it whoever waits for an answer.
Construct ==
    /\ actor.kind = "constructor"
    /\ actor' = Command("idle")
    /\ UNCHANGED <<commands, accepted, reply, timerVars, stateVars, completions, workerVars,
                   bridgeVars>>

\* Mutant of Abandoned: who waits in the queue is not answered.
AbandonedSilently(queue) == reply

\* The answer a waiting caller gets when the queue is drained or dropped.
Abandoned(queue) == IF Waits(queue) THEN "error" ELSE reply

ConstructFails ==
    /\ actor.kind = "constructor"
    /\ actor' = Command("ended")
    /\ reply' = Abandoned(commands)
    /\ commands' = <<>>
    /\ UNCHANGED <<accepted, timerVars, stateVars, completions, workerVars, bridgeVars>>

Take ==
    /\ actor.kind = "idle"
    /\ commands # <<>>
    /\ commands' = Tail(commands)
    /\ LET command == Head(commands) IN
         actor' = IF command.kind = "shutdown" THEN Command("stop") ELSE command
    /\ UNCHANGED <<accepted, reply, timerVars, stateVars, completions, workerVars, bridgeVars>>

\* The guest call returns Ok.
Serving == actor \in Commands

Completed(command) == IF command.kind = "timer" THEN active \ {command.id} ELSE active

Return ==
    /\ Serving
    /\ actor' = Command("idle")
    /\ active' = Completed(actor)
    /\ reply' = IF actor.kind \in {"start", "event"} THEN "ok" ELSE reply
    /\ accepted' = (accepted \/ actor.kind = "start")
    /\ UNCHANGED <<commands, timers, cancelled, window, early, stateVars, completions,
                   workerVars, bridgeVars>>

\* The guest rejects the command, traps, or exceeds its time: every command in the queue is
\* answered, and the actor leaves its loop.
Trap ==
    /\ Serving
    /\ actor' = Command("stop")
    /\ reply' = IF actor.kind \in {"start", "event"} THEN "error" ELSE Abandoned(commands)
    /\ commands' = <<>>
    /\ UNCHANGED <<accepted, timerVars, stateVars, completions, workerVars, bridgeVars>>

\* After stop, in its own budget, the resource is dropped and the actor ends.
End ==
    /\ actor.kind = "stop"
    /\ actor' = Command("ended")
    /\ reply' = Abandoned(commands)
    /\ commands' = <<>>
    /\ UNCHANGED <<accepted, timerVars, stateVars, completions, workerVars, bridgeVars>>

\* The relay of operation completions never waits for room.
Complete ==
    /\ completions < MaxCompletions
    /\ completions' = completions + 1
    /\ IF HasRoom THEN Enqueue(Command("completion")) ELSE UNCHANGED commands
    /\ UNCHANGED <<actor, accepted, reply, timerVars, stateVars, workerVars, bridgeVars>>
-----------------------------------------------------------------------------
(***************************************************************************)
(* The session worker.                                                     *)
(***************************************************************************)

\* WidgetHandle::send waits for room; it fails once the actor has ended.
SendAndAwait(kind) ==
    \/ HasRoom /\ Enqueue(Command(kind)) /\ reply' = "waiting"
    \/ Ended /\ reply' = "error" /\ UNCHANGED commands

\* The runtime is built and the actor spawned.
Spawn ==
    /\ worker = "spawning"
    /\ worker' = "begin"
    /\ actor' = Command("constructor")
    /\ UNCHANGED <<commands, accepted, reply, timerVars, stateVars, completions, forwarded,
                   lifecycle, shown, failure, bridgeVars>>

\* The runtime, the manager or the actor cannot be made.
SpawnFails ==
    /\ worker = "spawning"
    /\ worker' = "ended"
    /\ lifecycle' = <<"failed">>
    /\ failure' = TRUE
    /\ UNCHANGED <<actorVars, timerVars, stateVars, completions, forwarded, shown, bridgeVars>>

SendStart ==
    /\ worker = "begin"
    /\ worker' = "starting"
    /\ SendAndAwait("start")
    /\ UNCHANGED <<actor, accepted, timerVars, stateVars, completions, forwarded, lifecycle, shown,
                   failure, bridgeVars>>

\* Mutant of ComesUp: a session whose start was refused is reported as running.
ComesUpAnyway == TRUE

ComesUp == reply = "ok"

\* start has been answered.
Started ==
    /\ worker = "starting"
    /\ reply \in {"ok", "error"}
    /\ IF ComesUp
          THEN worker' = "top" /\ lifecycle' = Append(lifecycle, "running") /\ UNCHANGED failure
          ELSE worker' = "closing" /\ lifecycle' = Append(lifecycle, "failed") /\ failure' = TRUE
    /\ UNCHANGED <<actorVars, timerVars, stateVars, completions, forwarded, shown, bridgeVars>>

\* The head of the loop: a stop is obeyed.
Top ==
    /\ worker = "top"
    /\ worker' = IF stop THEN "closing" ELSE "forward"
    /\ forwarded' = 0
    /\ UNCHANGED <<actorVars, timerVars, stateVars, completions, lifecycle, shown, failure,
                   bridgeVars>>

\* Mutant of Counted: events are forwarded for as long as there are any.
CountedNever == forwarded

Counted == forwarded + 1

BatchDone == events = 0 \/ forwarded = EventBatch

Forward ==
    /\ worker = "forward"
    /\ IF BatchDone
          THEN worker' = "projecting" /\ UNCHANGED <<events, forwarded>>
          ELSE /\ worker' = "sending"
               /\ events' = events - 1
               /\ forwarded' = Counted
    /\ UNCHANGED <<actorVars, timerVars, stateVars, completions, lifecycle, shown, failure,
                   stop>>

SendEvent ==
    /\ worker = "sending"
    /\ worker' = "forwarding"
    /\ SendAndAwait("event")
    /\ UNCHANGED <<actor, accepted, timerVars, stateVars, completions, forwarded, lifecycle, shown,
                   failure, bridgeVars>>

\* An event that is refused is only logged.
EventAnswered ==
    /\ worker = "forwarding"
    /\ reply \in {"ok", "error"}
    /\ worker' = "forward"
    /\ UNCHANGED <<actorVars, timerVars, stateVars, completions, forwarded, lifecycle, shown,
                   failure, bridgeVars>>

\* An update is projected on the window.
Project ==
    /\ worker = "projecting"
    /\ updates # <<>>
    /\ shown' = Head(updates).seq
    /\ updates' = Tail(updates)
    /\ worker' = "top"
    /\ UNCHANGED <<actorVars, timerVars, state, seq, rate, calls, answer, acked, completions,
                   forwarded, lifecycle, failure, bridgeVars>>

\* The event loop of the window is gone.
ProjectFails ==
    /\ worker = "projecting"
    /\ updates # <<>>
    /\ updates' = Tail(updates)
    /\ worker' = "closing"
    /\ failure' = TRUE
    /\ UNCHANGED <<actorVars, timerVars, state, seq, rate, calls, answer, acked, completions,
                   forwarded, lifecycle, shown, bridgeVars>>

\* No update for 200 ms, and none to come once the actor has ended.
NoUpdate ==
    /\ worker = "projecting"
    /\ updates = <<>>
    /\ IF Ended THEN worker' = "closing" /\ failure' = TRUE
                ELSE worker' = "top" /\ UNCHANGED failure
    /\ UNCHANGED <<actorVars, timerVars, stateVars, completions, forwarded, lifecycle, shown,
                   bridgeVars>>

\* WidgetHandle::shutdown.
Close ==
    /\ worker = "closing"
    /\ HasRoom \/ Ended
    /\ IF Ended THEN UNCHANGED commands ELSE Enqueue(Command("shutdown"))
    /\ worker' = "joining"
    /\ UNCHANGED <<actor, accepted, reply, timerVars, stateVars, completions, forwarded, lifecycle,
                   shown, failure, bridgeVars>>

Verdict == IF failure THEN "failed" ELSE "stopped"

\* The actor has ended; a failed start has been reported already.
Join ==
    /\ worker = "joining"
    /\ Ended
    /\ worker' = "ended"
    /\ lifecycle' = IF lifecycle = <<"failed">> THEN lifecycle ELSE Append(lifecycle, Verdict)
    /\ UNCHANGED <<actorVars, timerVars, stateVars, completions, forwarded, shown, failure,
                   bridgeVars>>
-----------------------------------------------------------------------------
(***************************************************************************)
(* The UI thread.                                                          *)
(***************************************************************************)
\* The window raises an event: EventBridgeSender::try_send drops it with the bridge full.
Raise ==
    /\ ~stop /\ worker # "ended"
    /\ events < EventCap
    /\ events' = events + 1
    /\ UNCHANGED <<actorVars, timerVars, stateVars, completions, workerVars, stop>>

\* RuntimeUiSession is dropped, and its window with it.
Stop ==
    /\ ~stop
    /\ stop' = TRUE
    /\ UNCHANGED <<actorVars, timerVars, stateVars, completions, workerVars, events>>

GuestCalls ==
    \/ Schedule \/ \E id \in Ids : Cancel(id)
    \/ UpdateTooOften \/ UpdateInvalid \/ \E value \in Values : UpdateValid(value)
Actor == Construct \/ ConstructFails \/ Take \/ Return \/ Trap \/ End
Worker == Spawn \/ SpawnFails \/ SendStart \/ Started \/ Top \/ Forward \/ SendEvent \/ EventAnswered
            \/ Project \/ ProjectFails \/ NoUpdate \/ Close \/ Join
TimerTask(id) == Wake(id) \/ Fire(id)

Next ==
    \/ GuestCalls \/ Actor \/ Worker
    \/ \E id \in Ids : TimerTask(id)
    \/ NewMinute \/ NewSecond \/ Complete \/ Raise \/ Stop

Spec == Init /\ [][Next]_vars

\* The actor's task and the worker's thread are scheduled; a guest call ends, in the worst
\* case at its deadline; timers expire.
Fairness ==
    /\ WF_vars(Actor)
    /\ WF_vars(Worker)
    /\ \A id \in 1..MaxTimers : WF_vars(id \in Ids /\ TimerTask(id))

FairSpec == Spec /\ Fairness
-----------------------------------------------------------------------------
(***************************************************************************)
(* Properties.                                                             *)
(***************************************************************************)
Queued(id) == \E k \in DOMAIN commands : commands[k] = TimerCommand(id)
Handled(id) == actor = TimerCommand(id)

\* A timer cancelled before it expired never reaches the guest, although its task, which nobody
\* stops, still runs to its end (timer.rs:76-102).
CancelledInTimeIsSilent ==
    \A id \in early : ~Queued(id) /\ ~Handled(id)

\* A State whose update was acknowledged to the guest is on the window, or on its way there: later
\* updates that find the channel full, or fail, do not take it back (state.rs:136-150).
AcknowledgedIsNotLost ==
    \/ failure
    \/ acked <= shown
    \/ \E k \in DOMAIN updates : updates[k].seq = acked

\* The table of timers, the queues and the sequence numbers agree, and no acknowledged State is
\* lost between the channel and the window (state.rs:140-160, timer.rs:60-120).
SessionConsistent == TypeOK /\ AcknowledgedIsNotLost

\* What the supervisor is told of a session (runtime_ui.rs:1044-1148) is what SessionLifecycle
\* promises.
LifecycleOf == INSTANCE SessionLifecycle WITH
    life  <- IF lifecycle = <<>> THEN "starting" ELSE lifecycle[Len(lifecycle)],
    guest <- IF Ended THEN "gone" ELSE IF accepted THEN "up" ELSE "new",
    asked <- stop
KeepsLifecycle == LifecycleOf!Spec

\* The session worker is never left waiting for an answer: commands that are queued when the
\* actor fails or ends are answered too (runtime/lib.rs:250-315, 532-535, 653-665).
CallsAnswered == (reply = "waiting") ~> (reply # "waiting")

\* A session that is dropped, or whose actor has ended, ends and says so
\* (runtime_ui.rs:830-850, 1058-1148).
SessionEnds == (stop \/ Ended) ~> (worker = "ended" /\ lifecycle # <<>>)

\* Neither a caller nor a session waits for good, also when the actor fails with commands in its
\* queue (runtime/lib.rs:532-665, runtime_ui.rs:1058-1148).
EveryoneIsAnswered == CallsAnswered /\ SessionEnds

\* However many events the window raises, an acknowledged State gets to the window as long as
\* the session goes on (runtime_ui.rs:1072-1103).
AcknowledgedIsShown ==
    \A k \in 1..MaxUpdates : (acked = k) ~> (shown >= k \/ failure \/ stop)

=============================================================================
