------------------------------ MODULE Supervisor ------------------------------
(***************************************************************************)
(* DynamicInstanceSupervisor (floatile-shell/instance_supervisor.rs): a    *)
(* worker thread compares the instance records with what it already        *)
(* started, prepares batches of actions, and sends them over a bounded     *)
(* channel to the UI thread, which opens and closes runtime sessions.      *)
(* Editors of module Instances change the records all the while.           *)
(* A step of the UI thread is one run of a callback or a task between two  *)
(* awaits.                                                                 *)
(***************************************************************************)
EXTENDS Instances, Sequences

CONSTANTS
    QueueCap,    \* ACTION_QUEUE_CAPACITY
    CommandCap,  \* COMMAND_QUEUE_CAPACITY
    MaxRetries   \* bound on manual retries

ASSUME SupervisorAssumption ==
    QueueCap \in Nat \ {0} /\ CommandCap \in Nat \ {0} /\ MaxRetries \in Nat

VARIABLES
    wpc,        \* where the worker is
    known,      \* fingerprints started or isolated
    snapshot,   \* the records the worker listed
    todo,       \* starts of the plan not prepared yet
    batch,      \* the actions prepared so far, per instance
    queue,      \* batches on their way to the UI thread
    commands,   \* commands on their way to the worker
    sessions,   \* runtime sessions the UI thread holds
    desiredGen, \* desired_generations: 0 is no entry
    tasks,      \* starts running on the UI thread's executor
    observed,   \* observed state of each instance
    closed,     \* the supervisor has been dropped
    retries,
    hasty       \* history: instances retried while they ran or were starting

workerVars == <<wpc, known, snapshot, todo, batch>>
uiVars     == <<sessions, desiredGen, tasks, observed>>
vars == <<record, nextId, now, edit, edits, wpc, known, snapshot, todo, batch, queue, commands,
          sessions, desiredGen, tasks, observed, closed, retries, hasty>>

Fingerprint    == [config : Configs, version : Versions]
FingerprintOf(r) == [config |-> r.config, version |-> r.version]
Nothing  == [stop |-> FALSE, act |-> "none", gen |-> 0, print |-> None, planned |-> None]
Action   == [stop : BOOLEAN, act : {"none", "start", "fail"}, gen : 0..MaxGen,
             print : Fingerprint \cup {None}, planned : Fingerprint \cup {None}]
Started  == [id : Ids, gen : 0..MaxGen, print : Fingerprint, planned : Fingerprint]
Session  == [gen : 0..MaxGen, print : Fingerprint, planned : Fingerprint,
             runtime : {"booting", "up", "down"}, events : Seq({"running", "failed"})]
StopCommand == 0

ASSUME NothingAssumption == None \notin Fingerprint /\ None \notin Session

TypeOK ==
    /\ InstancesTypeOK
    /\ wpc \in {"list", "advance", "fetch", "send", "report", "wait", "done"}
    /\ known \in [Ids -> Fingerprint \cup {None}]
    /\ snapshot \in [Ids -> Record \cup {None}]
    /\ todo \subseteq Ids
    /\ batch \in [Ids -> Action]
    /\ queue \in Seq([Ids -> Action]) /\ Len(queue) <= QueueCap
    /\ commands \in Seq(Ids \cup {StopCommand}) /\ Len(commands) <= CommandCap
    /\ sessions \in [Ids -> Session \cup {None}]
    /\ desiredGen \in [Ids -> 0..MaxGen]
    /\ tasks \subseteq Started
    /\ observed \in [Ids -> {"unknown", "starting", "running", "failed", "stopped"}]
    /\ closed \in BOOLEAN
    /\ retries \in 0..MaxRetries
    /\ hasty \subseteq Ids

\* The worker opens the store first; a store that cannot be opened is
\* reported to the window, and the worker is over before it listed anything.
StoreOpened ==
    \/ wpc = "list" /\ queue = <<>>
    \/ wpc = "done" /\ queue = <<[id \in Ids |-> Nothing]>>

Init ==
    /\ InstancesInit
    /\ StoreOpened
    /\ known = [id \in Ids |-> None]
    /\ snapshot = [id \in Ids |-> None]
    /\ todo = {}
    /\ batch = [id \in Ids |-> Nothing]
    /\ commands = <<>>
    /\ sessions = [id \in Ids |-> None]
    /\ desiredGen = [id \in Ids |-> 0]
    /\ tasks = {}
    /\ observed = [id \in Ids |-> "unknown"]
    /\ closed = FALSE
    /\ retries = 0
    /\ hasty = {}
-----------------------------------------------------------------------------
(***************************************************************************)
(* plan_snapshot.                                                          *)
(***************************************************************************)
Wanted(records, id) == records[id] # None /\ records[id].desired = "running"

Changed(records, id) == Wanted(records, id) /\ known[id] # FingerprintOf(records[id])

\* Mutant of Stops: only deleted instances are stopped.
StopsOnlyDeleted(records, id) == known[id] # None /\ records[id] = None

Stops(records, id) ==
    known[id] # None /\ (~Wanted(records, id) \/ Changed(records, id))

\* known after the plan has been sent.
NextKnown(records) ==
    [id \in Ids |-> IF Wanted(records, id) THEN FingerprintOf(records[id]) ELSE None]
-----------------------------------------------------------------------------
(***************************************************************************)
(* supervisor_worker and prepare_actions.                                  *)
(***************************************************************************)
EditorsIdle == UNCHANGED <<nextId, now, edit, edits>>

List ==
    /\ wpc = "list"
    /\ snapshot' = record
    /\ todo' = {id \in Ids : Changed(record, id)}
    /\ batch' = [id \in Ids |-> [Nothing EXCEPT !.stop = Stops(record, id)]]
    /\ IF \E id \in Ids : Changed(record, id) \/ Stops(record, id)
          THEN /\ wpc' = IF todo' = {} THEN "send" ELSE "advance"
               /\ UNCHANGED known
          ELSE /\ wpc' = "wait"
               /\ known' = NextKnown(record)
    /\ EditorsIdle
    /\ UNCHANGED <<record, queue, commands, uiVars, closed, retries, hasty>>

\* A store that cannot be read is reported; nothing is planned.
ListFails ==
    /\ wpc = "list"
    /\ batch' = [id \in Ids |-> Nothing]
    /\ wpc' = "report"
    /\ EditorsIdle
    /\ UNCHANGED <<record, known, snapshot, todo, queue, commands, uiVars, closed, retries, hasty>>

\* The instance prepare_actions is at.
Current == CHOOSE id \in todo : \A other \in todo : id <= other

Prepared(act, gen, print) ==
    /\ batch' = [batch EXCEPT ![Current].act = act, ![Current].gen = gen,
                              ![Current].print = print,
                              ![Current].planned = IF act = "start"
                                                      THEN FingerprintOf(snapshot[Current]) ELSE None]
    /\ todo' = todo \ {Current}
    /\ wpc' = IF todo' = {} THEN "send" ELSE "advance"

\* advance_generation with the clock, or the time listed if that is later.  It
\* refuses a record that is gone, newer, or out of generations.
Advance ==
    /\ wpc = "advance"
    /\ \/ /\ AdvanceGeneration(Current, Later(now, snapshot[Current].updated))
          /\ wpc' = "fetch"
          /\ UNCHANGED <<todo, batch>>
       \/ /\ Prepared("fail", 0, None)
          /\ UNCHANGED record
    /\ EditorsIdle
    /\ UNCHANGED <<known, snapshot, queue, commands, uiVars, closed, retries, hasty>>

\* The record is read again, its installation loaded and its trust verified.
Fetch ==
    /\ wpc = "fetch"
    /\ \/ /\ record[Current] # None
          /\ Prepared("start", record[Current].gen, FingerprintOf(record[Current]))
       \/ Prepared("fail", 0, None)
    /\ EditorsIdle
    /\ UNCHANGED <<record, known, snapshot, queue, commands, uiVars, closed, retries, hasty>>

Forget ==
    /\ snapshot' = [id \in Ids |-> None]
    /\ batch' = [id \in Ids |-> Nothing]

\* send blocks while the channel is full, and fails once the UI has let go of it.
Send ==
    /\ wpc \in {"send", "report"}
    /\ closed \/ Len(queue) < QueueCap
    /\ IF closed
          THEN wpc' = "done" /\ UNCHANGED <<queue, known>>
          ELSE /\ queue' = Append(queue, batch)
               /\ known' = IF wpc = "send" THEN NextKnown(snapshot) ELSE known
               /\ wpc' = "wait"
    /\ Forget
    /\ EditorsIdle
    /\ UNCHANGED <<record, todo, commands, uiVars, closed, retries, hasty>>

\* The instance has a session, or a start that will give it one.
Alive(id) ==
    \/ sessions[id] # None
    \/ \E t \in tasks : t.id = id /\ t.gen = desiredGen[id]
    \/ \E i \in DOMAIN queue : queue[i][id].act = "start"

\* wait_for_command: a command, else the poll interval, else all senders gone.
TakeCommand ==
    /\ wpc = "wait"
    /\ commands # <<>>
    /\ commands' = Tail(commands)
    /\ IF Head(commands) = StopCommand
          THEN wpc' = "done" /\ UNCHANGED <<known, hasty>>
          ELSE LET id == Head(commands) IN
               /\ wpc' = "list"
               /\ known' = [known EXCEPT ![id] = None]
               /\ hasty' = IF known[id] # None /\ Alive(id) THEN hasty \cup {id} ELSE hasty
    /\ EditorsIdle
    /\ UNCHANGED <<record, snapshot, todo, batch, queue, uiVars, closed, retries>>

\* Mutant of Poll: a worker without a command ends.
PollIgnoresClose ==
    /\ wpc = "wait"
    /\ commands = <<>>
    /\ wpc' = "list"
    /\ EditorsIdle
    /\ UNCHANGED <<record, known, snapshot, todo, batch, queue, commands, uiVars, closed, retries,
                   hasty>>

Poll ==
    /\ wpc = "wait"
    /\ commands = <<>>
    /\ wpc' = IF closed THEN "done" ELSE "list"
    /\ EditorsIdle
    /\ UNCHANGED <<record, known, snapshot, todo, batch, queue, commands, uiVars, closed, retries,
                   hasty>>

Worker == List \/ ListFails \/ Advance \/ Fetch \/ Send \/ TakeCommand \/ Poll
-----------------------------------------------------------------------------
(***************************************************************************)
(* The UI thread: apply_actions, the start tasks, poll_session_lifecycle.  *)
(***************************************************************************)
\* One batch.  Stops and failures close the session; a start replaces whatever
\* start was under way, and may not even be scheduled.
ApplyActions ==
    /\ ~closed
    /\ queue # <<>>
    /\ queue' = Tail(queue)
    /\ LET actions == Head(queue)
           starts  == {id \in Ids : actions[id].act = "start"}
           fails   == {id \in Ids : actions[id].act = "fail"}
           stops   == {id \in Ids : actions[id].stop}
       IN \E refused \in SUBSET starts :
          /\ desiredGen' = [id \in Ids |-> IF id \in starts THEN actions[id].gen
                                           ELSE IF id \in fails \cup stops THEN 0
                                           ELSE desiredGen[id]]
          /\ sessions' = [id \in Ids |-> IF id \in fails \cup stops THEN None ELSE sessions[id]]
          /\ observed' = [id \in Ids |-> IF id \in fails \cup refused THEN "failed"
                                         ELSE IF id \in starts THEN "starting"
                                         ELSE IF id \in stops THEN "stopped"
                                         ELSE observed[id]]
          /\ tasks' = tasks \cup {[id |-> id, gen |-> actions[id].gen, print |-> actions[id].print,
                                   planned |-> actions[id].planned] : id \in starts \ refused}
    /\ UNCHANGED <<instanceVars, workerVars, commands, closed, retries, hasty>>

\* Mutant of StillDesired: the generation is not looked at when a start returns.
StillDesiredAnyway(t) == desiredGen[t.id] # 0

StillDesired(t) == desiredGen[t.id] = t.gen

\* spawn_runtime_ui_with_https returns a session ...
TaskStarts(t) ==
    /\ tasks' = tasks \ {t}
    /\ sessions' = IF StillDesired(t)
                      THEN [sessions EXCEPT ![t.id] =
                              [gen |-> t.gen, print |-> t.print, planned |-> t.planned,
                               runtime |-> "booting", events |-> <<>>]]
                      ELSE sessions
    /\ UNCHANGED <<instanceVars, workerVars, queue, commands, desiredGen, observed, closed, retries,
                   hasty>>

\* ... or an error.
TaskFails(t) ==
    /\ tasks' = tasks \ {t}
    /\ observed' = IF StillDesired(t) THEN [observed EXCEPT ![t.id] = "failed"] ELSE observed
    /\ UNCHANGED <<instanceVars, workerVars, queue, commands, sessions, desiredGen, closed, retries,
                   hasty>>

\* The runtime thread of a session: it starts, or ends by itself.
Runtime(id) ==
    /\ sessions[id] # None
    /\ \/ /\ sessions[id].runtime = "booting"
          /\ sessions' = [sessions EXCEPT ![id].runtime = "up",
                                          ![id].events = Append(@, "running")]
       \/ /\ sessions[id].runtime # "down"
          /\ sessions' = [sessions EXCEPT ![id].runtime = "down",
                                          ![id].events = Append(@, "failed")]
    /\ UNCHANGED <<instanceVars, workerVars, queue, commands, desiredGen, tasks, observed, closed,
                   retries, hasty>>

\* poll_session_lifecycle.
Lifecycle(id) ==
    /\ sessions[id] # None /\ sessions[id].events # <<>>
    /\ observed' = [observed EXCEPT ![id] = Head(sessions[id].events)]
    /\ sessions' = IF Head(sessions[id].events) = "failed"
                      THEN [sessions EXCEPT ![id] = None]
                      ELSE [sessions EXCEPT ![id].events = Tail(@)]
    /\ UNCHANGED <<instanceVars, workerVars, queue, commands, desiredGen, tasks, closed, retries,
                   hasty>>

\* The retry button, shown while the instance is observed failed; a full queue
\* loses the click.
Retry(id) ==
    /\ ~closed /\ retries < MaxRetries
    /\ observed[id] = "failed"
    /\ retries' = retries + 1
    /\ commands' = IF Len(commands) < CommandCap THEN Append(commands, id) ELSE commands
    /\ UNCHANGED <<instanceVars, workerVars, queue, uiVars, closed, hasty>>

\* Drop of the supervisor, after the control panel's.
Drop ==
    /\ ~closed
    /\ closed' = TRUE
    /\ desiredGen' = [id \in Ids |-> 0]
    /\ observed' = [id \in Ids |-> "unknown"]
    /\ sessions' = [id \in Ids |-> None]
    /\ tasks' = {}
    /\ queue' = <<>>
    /\ commands' = IF Len(commands) < CommandCap THEN Append(commands, StopCommand) ELSE commands
    /\ UNCHANGED <<instanceVars, workerVars, retries, hasty>>

Outside ==
    /\ Tick \/ \E e \in Editors : EditorStep(e)
    /\ UNCHANGED <<workerVars, queue, commands, uiVars, closed, retries, hasty>>

Next ==
    \/ Outside
    \/ Worker
    \/ ApplyActions
    \/ \E t \in tasks : TaskStarts(t) \/ TaskFails(t)
    \/ \E id \in Ids : Runtime(id) \/ Lifecycle(id) \/ Retry(id)
    \/ Drop

Spec == Init /\ [][Next]_vars

(***************************************************************************)
(* Threads run, timers fire, and a store that is asked again and again     *)
(* answers.  Nothing makes anybody edit, retry or quit.                    *)
(***************************************************************************)
FairSpec ==
    /\ Spec
    /\ WF_vars(Worker)
    /\ SF_vars(List)
    /\ WF_vars(ApplyActions)
    /\ WF_vars(\E t \in tasks : TaskStarts(t) \/ TaskFails(t))
    /\ \A id \in Ids : WF_vars(Lifecycle(id))
-----------------------------------------------------------------------------
(***************************************************************************)
(* Safety.                                                                 *)
(***************************************************************************)
\* Generations grow along the way from the session on screen to the record: the
\* session is not newer than the start that is wanted, that one is older than
\* every start in the channel, in order, and no start is newer than the record
\* or shares its generation with another.
GenerationsOrdered ==
    \A id \in Ids :
        LET queued == {i \in DOMAIN queue : queue[i][id].act = "start"} IN
        /\ sessions[id] # None => sessions[id].gen <= desiredGen[id]
        /\ \A t \in tasks : t.id = id /\ desiredGen[id] # 0 => t.gen <= desiredGen[id]
        /\ \A i \in queued : /\ desiredGen[id] < queue[i][id].gen
                             /\ \A j \in queued : i < j => queue[i][id].gen < queue[j][id].gen
        /\ batch[id].act = "start" =>
              /\ desiredGen[id] < batch[id].gen
              /\ \A i \in queued : queue[i][id].gen < batch[id].gen
        /\ record[id] # None =>
              /\ desiredGen[id] <= record[id].gen
              /\ \A i \in queued : queue[i][id].gen <= record[id].gen
              /\ batch[id].gen <= record[id].gen

\* The session on screen is the one of the last start: a late start never comes
\* back over a later stop, failure or restart (but see hasty).
SessionIsDesired ==
    \A id \in Ids \ hasty : sessions[id] # None => sessions[id].gen = desiredGen[id]

\* What the control panel shows is about the session that is there.
ObservedIsTrue ==
    \A id \in Ids \ hasty :
        /\ sessions[id] # None => observed[id] \in {"starting", "running"}
        /\ observed[id] = "running" => sessions[id] # None

\* Everything has arrived, and the next poll of the worker would change nothing.
Settled ==
    /\ ~closed
    /\ wpc = "wait" /\ commands = <<>> /\ queue = <<>> /\ tasks = {}
    /\ \A id \in Ids : /\ ~Changed(record, id) /\ ~Stops(record, id)
                       /\ sessions[id] # None => sessions[id].events = <<>>

\* Then an instance that is to run has a session or is known to have failed, and
\* any other has none, unless it was retried while it ran.
Aligned ==
    Settled => \A id \in Ids :
        IF Wanted(record, id) THEN sessions[id] # None \/ observed[id] = "failed"
                              ELSE sessions[id] = None \/ id \in hasty

\* Changing a configuration restarts the instance: a session runs the
\* configuration of its record, whenever the record did not change between the
\* listing and the second reading before the start.  (Changed there and changed
\* back before the next listing, it leaves the session with the one in between.)
PlannedConfigRestarts ==
    Settled => \A id \in Ids \ hasty :
        (Wanted(record, id) /\ sessions[id] # None /\ sessions[id].print = sessions[id].planned)
            => sessions[id].print = FingerprintOf(record[id])

\* Sessions, starts on their way and what is shown are all of the newest
\* generation (instance_supervisor.rs:480-600).
SessionsMatch == TypeOK /\ GenerationsOrdered /\ SessionIsDesired /\ ObservedIsTrue

\* Once settled, what the worker planned is what the records say
\* (instance_supervisor.rs:332-420).
PlansMatch == Aligned /\ PlannedConfigRestarts

(***************************************************************************)
(* Liveness.                                                               *)
(***************************************************************************)
\* An instance that stays stopped or deleted loses its session, and one that
\* stays wanted gets one or is reported failed.
EventuallyAligned ==
    \A id \in Ids :
        /\ <>[](~closed /\ ~Wanted(record, id) /\ id \notin hasty) => <>[](sessions[id] = None)
        /\ <>[](~closed /\ Wanted(record, id)) => []<>(sessions[id] # None \/ observed[id] = "failed")

\* A dropped supervisor's worker ends, wherever it was.
WorkerEnds == closed ~> wpc = "done"

\* Full queues, waits and a drop in the middle of them hold nobody up for good,
\* once the worker has its store
\* (instance_supervisor.rs:262-345).
Settles == (wpc = "list" => EventuallyAligned) /\ WorkerEnds
=============================================================================
