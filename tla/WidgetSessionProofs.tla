------------------------- MODULE WidgetSessionProofs -------------------------
(***************************************************************************)
(* Theorems about a running widget.                                        *)
(*                                                                         *)
(* About its session (WidgetSession), for any capacities of its queues and *)
(* any number of timers, updates and events: types, the State that was     *)
(* acknowledged, timers cancelled in time, and the lifecycle a session     *)
(* reports.                                                                *)
(*                                                                         *)
(* About its document (Documents), for any documents, patches and limits:  *)
(* what is shown is the newest State, and every State can be shown.  The   *)
(* two modules have no name in common.                                     *)
(***************************************************************************)
EXTENDS WidgetSession, Documents, TLAPS, WellFoundedInduction

LEMMA AppendFacts ==
    ASSUME NEW S, NEW s \in Seq(S), NEW e \in S
    PROVE  /\ Append(s, e) \in Seq(S) /\ Len(Append(s, e)) = Len(s) + 1
           /\ DOMAIN Append(s, e) = 1..Len(s) + 1 /\ DOMAIN s = 1..Len(s) /\ Len(s) \in Nat
           /\ \A k \in 1..Len(s) : Append(s, e)[k] = s[k]
           /\ Append(s, e)[Len(s) + 1] = e
  OBVIOUS

LEMMA TailFacts ==
    ASSUME NEW S, NEW s \in Seq(S), s # <<>>
    PROVE  /\ Head(s) \in S /\ Head(s) = s[1] /\ Tail(s) \in Seq(S)
           /\ Len(s) \in Nat \ {0} /\ Len(Tail(s)) = Len(s) - 1
           /\ DOMAIN Tail(s) = 1..Len(s) - 1 /\ DOMAIN s = 1..Len(s)
           /\ \A k \in 1..Len(s) - 1 : Tail(s)[k] = s[k + 1]
  OBVIOUS

-----------------------------------------------------------------------------
(* Which actions write which variables.                                    *)

LEMMA TimerSteps ==
    [Next]_vars =>
        \/ UNCHANGED timerVars
        \/ Schedule \/ NewMinute \/ Return
        \/ \E id \in Ids : Cancel(id) \/ Wake(id) \/ Fire(id)
  BY DEF Next, vars, timerVars, GuestCalls, UpdateTooOften, UpdateInvalid, UpdateValid, Actor, Construct,
         ConstructFails, Take, Trap, End, Worker, Spawn, SpawnFails, SendStart, Started, Top,
         Forward, SendEvent, EventAnswered, Project, ProjectFails, NoUpdate, Close, Join,
         TimerTask, NewSecond, Complete, Raise, Stop

LEMMA StateSteps ==
    [Next]_vars =>
        \/ UNCHANGED <<stateVars, shown, failure>>
        \/ UNCHANGED <<stateVars, shown>> /\ failure' \in {failure, TRUE}
        \/ UpdateTooOften \/ UpdateInvalid \/ \E value \in Values : UpdateValid(value)
        \/ NewSecond \/ Project \/ ProjectFails
  BY DEF Next, vars, stateVars, workerVars, GuestCalls, Schedule, Cancel, Actor, Construct, Return,
         ConstructFails, Take, Trap, End, Worker, Spawn, SpawnFails, SendStart, Started, Top,
         Forward, SendEvent, EventAnswered, NoUpdate, Close, Join,
         TimerTask, Wake, Fire, NewMinute, Complete, Raise, Stop

LEMMA ActorSteps ==
    [Next]_vars =>
        \/ UNCHANGED actorVars
        \/ \E id \in Ids : Fire(id)
        \/ Actor \/ Complete
        \/ Spawn \/ SendStart \/ SendEvent \/ Close
  BY DEF Next, vars, actorVars, GuestCalls, Schedule, Cancel, UpdateTooOften, UpdateInvalid, UpdateValid,
         Worker, SpawnFails, Started, Top, Forward, EventAnswered, Project, ProjectFails,
         NoUpdate, Join, TimerTask, Wake, NewMinute, NewSecond, Raise, Stop

LEMMA WorkerSteps ==
    [Next]_vars => UNCHANGED <<worker, forwarded, lifecycle, failure>> \/ Worker
  BY DEF Next, vars, workerVars, GuestCalls, Schedule, Cancel, UpdateTooOften, UpdateInvalid, UpdateValid,
         Actor, Construct, ConstructFails, Take, Return, Trap, End,
         TimerTask, Wake, Fire, NewMinute, NewSecond, Complete, Raise, Stop

LEMMA BridgeSteps ==
    [Next]_vars =>
        \/ UNCHANGED <<events, stop, completions>>
        \/ Raise \/ Stop \/ Forward \/ Complete
  BY DEF Next, vars, bridgeVars, GuestCalls, Schedule, Cancel, UpdateTooOften, UpdateInvalid, UpdateValid,
         Actor, Construct, ConstructFails, Take, Return, Trap, End, Worker, Spawn, SpawnFails,
         SendStart, Started, Top, SendEvent, EventAnswered, Project, ProjectFails, NoUpdate,
         Close, Join, TimerTask, Wake, Fire, NewMinute, NewSecond
-----------------------------------------------------------------------------
(***************************************************************************)
(* The inductive invariant.  The types are split by the group of variables *)
(* that is written together.                                               *)
(***************************************************************************)
TimerStates == {"asleep", "due", "sent", "lost", "over"}
Places == {"spawning", "begin", "starting", "top", "forward", "sending", "forwarding", "projecting",
           "closing", "joining", "ended"}

TimersTyped ==
    /\ timers \in Seq(TimerStates) /\ Len(timers) <= MaxTimers
    /\ active \subseteq Ids /\ cancelled \subseteq Ids /\ early \subseteq cancelled
    /\ window \in 0..MaxPerWindow

ActorTyped ==
    /\ commands \in Seq(Commands) /\ Len(commands) <= CommandCap
    /\ actor \in Commands \cup {Command(kind) : kind \in {"absent", "constructor", "idle", "stop", "ended"}}
    /\ accepted \in BOOLEAN
    /\ reply \in {"none", "waiting", "ok", "error"}

StateTyped ==
    /\ state \in Values
    /\ updates \in Seq(Update) /\ Len(updates) <= UpdateCap
    /\ rate \in 0..MaxRate
    /\ calls \in 0..MaxUpdates /\ seq \in 0..calls
    /\ acked \in 0..MaxUpdates /\ shown \in 0..MaxUpdates
    /\ answer \in {"ok", "error"}

WorkerTyped ==
    /\ worker \in Places
    /\ forwarded \in 0..EventBatch
    /\ completions \in 0..MaxCompletions
    /\ events \in 0..EventCap
    /\ stop \in BOOLEAN /\ failure \in BOOLEAN

\* What has been reported is fixed by where the worker is.
WorkerSays ==
    /\ worker \in {"spawning", "begin", "starting"} => lifecycle = <<>>
    /\ worker \in {"top", "forward", "sending", "forwarding", "projecting"} => lifecycle = <<"running">>
    /\ worker \in {"closing", "joining"} => lifecycle \in {<<"running">>, <<"failed">>}
    /\ worker = "ended" =>
         lifecycle \in {<<"failed">>, <<"running", "failed">>, <<"running", "stopped">>}

\* An update in the channel is at most as new as the last acknowledged one, which is at its end.
LastIsAcked ==
    IF updates = <<>> THEN failure \/ acked <= shown ELSE updates[Len(updates)].seq = acked

\* Only a timer whose task has fired is in the queue or with the guest; one cancelled in time does
\* not get that far.
Sent(id) == id \in Ids /\ timers[id] = "sent"
Silent ==
    /\ \A id \in early : timers[id] \in {"asleep", "over"}
    /\ \A k \in DOMAIN commands : commands[k].kind = "timer" => Sent(commands[k].id)
    /\ actor.kind = "timer" => Sent(actor.id)

\* Until the session has heard of its start, nothing but the start can have been answered.
StartIsHeard ==
    /\ worker = "spawning" => actor.kind = "absent"
    /\ worker \in {"spawning", "begin", "starting"} =>
         /\ \A k \in DOMAIN commands : commands[k].kind # "event"
         /\ actor.kind # "event"
         /\ reply = "ok" => accepted

\* A session that closes without having failed was asked to.
CloseIsAsked == worker \in {"closing", "joining"} /\ ~failure => stop

IInv ==
    /\ TimersTyped /\ ActorTyped /\ StateTyped /\ WorkerTyped
    /\ WorkerSays /\ LastIsAcked /\ Silent /\ StartIsHeard /\ CloseIsAsked
-----------------------------------------------------------------------------
LEMMA CommandFacts ==
    /\ \A command \in Commands : command.kind \in {"start", "event", "completion", "shutdown", "timer"}
    /\ \A command \in Commands : command.kind = "timer" => /\ command.id \in 1..MaxTimers
                                                           /\ command = TimerCommand(command.id)
    /\ \A kind : Command(kind).kind = kind
    /\ \A id : TimerCommand(id).kind = "timer" /\ TimerCommand(id).id = id
    /\ \A kind \in {"start", "event", "completion", "shutdown"} : Command(kind) \in Commands
    /\ \A id \in 1..MaxTimers : TimerCommand(id) \in Commands
<1>1. ASSUME NEW command \in Commands
      PROVE  /\ command.kind \in {"start", "event", "completion", "shutdown", "timer"}
             /\ command.kind = "timer" => command.id \in 1..MaxTimers /\ command = TimerCommand(command.id)
  <2>1. CASE \E kind \in {"start", "event", "completion", "shutdown"} : command = Command(kind)
    BY <2>1 DEF Command
  <2>2. CASE \E id \in 1..MaxTimers : command = TimerCommand(id)
    BY <2>2 DEF TimerCommand
  <2> QED
    BY <2>1, <2>2 DEF Commands
<1>2. \A kind : Command(kind).kind = kind
  BY DEF Command
<1>3. \A id : TimerCommand(id).kind = "timer" /\ TimerCommand(id).id = id
  BY DEF TimerCommand
<1>4. \A kind \in {"start", "event", "completion", "shutdown"} : Command(kind) \in Commands
  BY DEF Commands
<1>5. \A id \in 1..MaxTimers : TimerCommand(id) \in Commands
  BY DEF Commands
<1> QED
  BY <1>1, <1>2, <1>3, <1>4, <1>5

LEMMA InitInv == Init => IInv
<1> SUFFICES ASSUME Init PROVE IInv
  OBVIOUS
<1> USE SessionAssumption DEF Init
<1>1. TimersTyped
  BY DEF TimersTyped, Ids, TimerStates
<1>2. ActorTyped
  <2>1. actor \in {Command(kind) : kind \in {"absent", "constructor", "idle", "stop", "ended"}}
    OBVIOUS
  <2>2. commands \in Seq(Commands) /\ Len(commands) <= CommandCap
    OBVIOUS
  <2> QED
    BY <2>1, <2>2 DEF ActorTyped
<1>3. StateTyped
  BY DEF StateTyped, Update
<1>4. WorkerTyped /\ WorkerSays
  <2>1. forwarded \in 0..EventBatch /\ completions \in 0..MaxCompletions /\ events \in 0..EventCap
    BY EventBatch \in Nat, MaxCompletions \in Nat, EventCap \in Nat
  <2> QED
    BY <2>1 DEF WorkerTyped, WorkerSays, Places
<1>5. LastIsAcked /\ CloseIsAsked
  BY DEF LastIsAcked, CloseIsAsked
<1>6. Silent /\ StartIsHeard
  BY CommandFacts DEF Silent, StartIsHeard
<1> QED
  BY <1>1, <1>2, <1>3, <1>4, <1>5, <1>6 DEF IInv

LEMMA TimersStep ==
    TimersTyped /\ ActorTyped /\ [Next]_vars => TimersTyped'
<1> SUFFICES ASSUME TimersTyped, ActorTyped, [Next]_vars PROVE TimersTyped'
  OBVIOUS
<1> USE SessionAssumption DEF TimersTyped, Ids
<1>1. CASE UNCHANGED timerVars
  BY <1>1 DEF timerVars
<1>2. CASE Schedule
  <2>1. /\ timers' \in Seq(TimerStates) /\ Len(timers') = Len(timers) + 1 /\ Len(timers) \in Nat
    BY <1>2, AppendFacts DEF Schedule, TimerStates
  <2> QED
    <3>1. active' \subseteq Ids' /\ cancelled' \subseteq Ids' /\ early' \subseteq cancelled'
      <4>1. Ids' = 1..Len(timers) + 1 /\ Ids \subseteq Ids' /\ Len(timers) + 1 \in Ids'
        BY <2>1
      <4>2. active' = active \cup {Len(timers) + 1} /\ UNCHANGED <<cancelled, early>>
        BY <1>2 DEF Schedule
      <4> QED
        BY ONLY <4>1, <4>2, active \subseteq Ids, cancelled \subseteq Ids, early \subseteq cancelled
    <3>2. Len(timers') <= MaxTimers /\ window' \in 0..MaxPerWindow
      BY <1>2, <2>1 DEF Schedule, Admitted
    <3> QED
      BY <2>1, <3>1, <3>2
<1>3. CASE NewMinute
  BY <1>3 DEF NewMinute
<1>4. CASE Return
  BY <1>4 DEF Return, Completed
<1>5. CASE \E id \in Ids : Cancel(id) \/ Wake(id) \/ Fire(id)
  <2> PICK id \in 1..Len(timers) : Cancel(id) \/ Wake(id) \/ Fire(id)
    BY <1>5
  <2>1. CASE Cancel(id)
    BY <2>1 DEF Cancel
  <2>2. CASE Wake(id)
    <3>1. WakesUp(id) \in TimerStates
      BY DEF WakesUp, TimerStates
    <3>2. timers' \in Seq(TimerStates) /\ Len(timers') = Len(timers)
      BY <2>2, <3>1 DEF Wake
    <3> QED
      BY <2>2, <3>2 DEF Wake
  <2>3. CASE Fire(id)
    <3>1. \/ timers' = [timers EXCEPT ![id] = "sent"]
          \/ timers' = [timers EXCEPT ![id] = "lost"]
      BY <2>3 DEF Fire
    <3>2. {"sent", "lost"} \subseteq TimerStates
      BY DEF TimerStates
    <3>3. \A t \in TimerStates : /\ [timers EXCEPT ![id] = t] \in Seq(TimerStates)
                                 /\ Len([timers EXCEPT ![id] = t]) = Len(timers)
      OBVIOUS
    <3>4. timers' \in Seq(TimerStates) /\ Len(timers') = Len(timers)
      <4>1. CASE timers' = [timers EXCEPT ![id] = "sent"]
        BY <3>2, <3>3, <4>1
      <4>2. CASE timers' = [timers EXCEPT ![id] = "lost"]
        BY <3>2, <3>3, <4>2
      <4> QED
        BY <3>1, <4>1, <4>2
    <3> QED
      BY <2>3, <3>4 DEF Fire
  <2> QED
    BY <2>1, <2>2, <2>3
<1> QED
  BY <1>1, <1>2, <1>3, <1>4, <1>5, TimerSteps DEF Ids

LEMMA StateStep ==
    StateTyped /\ [Next]_vars => StateTyped'
<1> SUFFICES ASSUME StateTyped, [Next]_vars PROVE StateTyped'
  OBVIOUS
<1> USE SessionAssumption DEF StateTyped
<1>1. CASE UNCHANGED <<stateVars, shown>>
  BY <1>1 DEF stateVars
<1>2. CASE UpdateTooOften \/ UpdateInvalid \/ NewSecond
  <2>1. UNCHANGED <<state, updates, seq, acked, shown>>
    BY <1>2 DEF UpdateTooOften, UpdateInvalid, NewSecond, workerVars
  <2>2. /\ rate' \in 0..MaxRate /\ answer' \in {"ok", "error"}
        /\ calls' \in {calls, calls + 1} /\ calls' \in 0..MaxUpdates
    <3>1. /\ rate' = rate \/ rate' = 0 \/ (rate < MaxRate /\ rate' = rate + 1)
          /\ calls' = calls \/ (calls < MaxUpdates /\ calls' = calls + 1)
          /\ answer' \in {answer, "error"}
      BY <1>2 DEF UpdateTooOften, UpdateInvalid, NewSecond
    <3>2. rate \in 0..MaxRate /\ calls \in 0..MaxUpdates /\ MaxRate \in Nat /\ MaxUpdates \in Nat
      OBVIOUS
    <3>3. rate' \in 0..MaxRate /\ calls' \in 0..MaxUpdates
      BY ONLY <3>1, <3>2
    <3> QED
      BY <3>1, <3>3
  <2> QED
    BY <2>1, <2>2
<1>3. CASE \E value \in Values : UpdateValid(value)
  <2> PICK value \in Values : UpdateValid(value)
    BY <1>3
  <2>1. [seq |-> seq + 1, state |-> value] \in Update /\ seq + 1 \in 0..calls' /\ calls' \in 0..MaxUpdates
    <3>1. calls' = calls + 1 /\ calls < MaxUpdates
      BY DEF UpdateValid
    <3>2. calls \in Nat /\ seq \in Nat /\ seq <= calls /\ MaxUpdates \in Nat
      BY DEF SessionAssumption
    <3>3. calls + 1 \in 0..MaxUpdates /\ seq + 1 \in 0..(calls + 1) /\ seq + 1 \in 1..MaxUpdates
      BY <3>1, <3>2
    <3> QED
      BY <3>1, <3>3 DEF Update
  <2> DEFINE update == [seq |-> seq + 1, state |-> value]
  <2>2. updates' \in Seq(Update) /\ Len(updates') <= UpdateCap
    <3>1. updates' = IF Len(updates) < UpdateCap THEN Append(updates, update) ELSE updates
      BY DEF UpdateValid, Delivered
    <3>2. updates \in Seq(Update) /\ Len(updates) <= UpdateCap /\ UpdateCap \in Nat
      OBVIOUS
    <3> HIDE DEF update
    <3>3. CASE Len(updates) < UpdateCap
      <4>1. Append(updates, update) \in Seq(Update) /\ Len(Append(updates, update)) = Len(updates) + 1
        BY <2>1, <3>2, AppendFacts DEF update
      <4>2. Len(updates) \in Nat
        BY ONLY <3>2
      <4>3. Len(updates) + 1 <= UpdateCap
        BY ONLY <3>2, <3>3, <4>2
      <4> QED
        BY ONLY <3>1, <3>3, <4>1, <4>3
    <3>4. CASE ~(Len(updates) < UpdateCap)
      BY ONLY <3>1, <3>2, <3>4
    <3> QED
      BY <3>3, <3>4
  <2>3. /\ state' = value /\ rate' = rate + 1 /\ rate < MaxRate /\ seq' = seq + 1
        /\ answer' \in {"ok", "error"} /\ acked' \in {seq + 1, acked} /\ shown' = shown
    BY DEF UpdateValid, workerVars
  <2>4. rate' \in 0..MaxRate
    BY ONLY <2>3, rate \in 0..MaxRate, MaxRate \in Nat
  <2>5. seq + 1 \in 0..MaxUpdates
    BY <2>1 DEF Update
  <2> QED
    BY <2>1, <2>2, <2>3, <2>4, <2>5
<1>4. CASE Project \/ ProjectFails
  <2>1. /\ updates # <<>> /\ updates' = Tail(updates) /\ shown' \in {Head(updates).seq, shown}
        /\ UNCHANGED <<state, seq, rate, calls, answer, acked>>
    BY <1>4 DEF Project, ProjectFails
  <2>2. /\ Head(updates) \in Update /\ Tail(updates) \in Seq(Update)
        /\ Len(Tail(updates)) = Len(updates) - 1 /\ Len(updates) \in Nat
    BY <2>1, TailFacts
  <2>3. Head(updates).seq \in 1..MaxUpdates
    BY ONLY <2>2 DEF Update
  <2>4. Head(updates).seq \in 0..MaxUpdates
    BY ONLY <2>3
  <2>5. Len(updates') <= UpdateCap
    BY ONLY <2>1, <2>2, Len(updates) <= UpdateCap, UpdateCap \in Nat
  <2> QED
    BY <2>1, <2>2, <2>4, <2>5
<1> QED
  BY <1>1, <1>2, <1>3, <1>4, StateSteps

LEMMA WorkerStep ==
    WorkerTyped /\ WorkerSays /\ [Next]_vars => WorkerTyped' /\ WorkerSays'
<1> SUFFICES ASSUME WorkerTyped, WorkerSays, [Next]_vars PROVE WorkerTyped' /\ WorkerSays'
  OBVIOUS
<1> USE SessionAssumption
<1>1. completions' \in 0..MaxCompletions /\ events' \in 0..EventCap /\ stop' \in BOOLEAN
  <2>1. CASE UNCHANGED <<events, stop, completions>>
    BY <2>1 DEF WorkerTyped
  <2>2. CASE Raise
    BY <2>2 DEF Raise, WorkerTyped
  <2>3. CASE Stop
    BY <2>3 DEF Stop, WorkerTyped
  <2>4. CASE Forward
    BY <2>4 DEF Forward, BatchDone, WorkerTyped
  <2>5. CASE Complete
    BY <2>5 DEF Complete, WorkerTyped, bridgeVars
  <2> QED
    BY <2>1, <2>2, <2>3, <2>4, <2>5, BridgeSteps
<1>2. CASE UNCHANGED <<worker, forwarded, lifecycle, failure>>
  BY <1>1, <1>2 DEF WorkerTyped, WorkerSays
<1>3. CASE Worker
  <2>1. worker' \in Places /\ failure' \in BOOLEAN
    BY <1>3 DEF WorkerTyped, Places, Worker, Spawn, SpawnFails, SendStart, Started, Top, Forward,
           SendEvent, EventAnswered, Project, ProjectFails, NoUpdate, Close, Join
  <2>2. forwarded' \in 0..EventBatch
    <3>1. CASE Forward
      BY <3>1 DEF Forward, BatchDone, Counted, WorkerTyped
    <3>2. CASE ~Forward
      BY <1>3, <3>2 DEF WorkerTyped, Worker, Spawn, SpawnFails, SendStart, Started, Top,
           SendEvent, EventAnswered, Project, ProjectFails, NoUpdate, Close, Join
    <3> QED
      BY <3>1, <3>2
  <2>3. WorkerSays'
    <3>1. CASE Started
      BY <3>1 DEF Started, WorkerSays
    <3>2. CASE Join
      <4>1. lifecycle \in {<<"running">>, <<"failed">>}
        BY <3>2 DEF Join, WorkerSays
      <4>2. lifecycle' \in {<<"failed">>, <<"running", "failed">>, <<"running", "stopped">>}
        <5>1. CASE lifecycle = <<"failed">>
          BY <3>2, <5>1 DEF Join
        <5>2. CASE lifecycle = <<"running">>
          <6>1. <<"running">> # <<"failed">>
            OBVIOUS
          <6>2. lifecycle' = Append(<<"running">>, "failed") \/ lifecycle' = Append(<<"running">>, "stopped")
            BY <3>2, <5>2, <6>1 DEF Join, Verdict
          <6> QED
            BY <6>2
        <5> QED
          BY <4>1, <5>1, <5>2
      <4> QED
        BY <3>2, <4>2 DEF Join, WorkerSays
    <3>3. CASE SpawnFails
      BY <3>3 DEF SpawnFails, WorkerSays
    <3>4. CASE Spawn \/ SendStart \/ Top \/ Forward \/ SendEvent \/ EventAnswered \/ Project
                 \/ ProjectFails \/ NoUpdate \/ Close
      BY <3>4 DEF WorkerSays, Spawn, SendStart, Top, Forward,
           SendEvent, EventAnswered, Project, ProjectFails, NoUpdate, Close
    <3> QED
      BY <1>3, <3>1, <3>2, <3>3, <3>4 DEF Worker
  <2> QED
    BY <1>1, <2>1, <2>2, <2>3 DEF WorkerTyped
<1> QED
  BY <1>2, <1>3, WorkerSteps

LEMMA AckedStep ==
    StateTyped /\ LastIsAcked /\ WorkerTyped /\ [Next]_vars => LastIsAcked'
<1> SUFFICES ASSUME StateTyped, LastIsAcked, WorkerTyped, [Next]_vars PROVE LastIsAcked'
  OBVIOUS
<1> USE SessionAssumption
<1>1. CASE UNCHANGED <<stateVars, shown>> /\ failure' \in {failure, TRUE}
  <2>1. failure => failure'
    BY <1>1 DEF WorkerTyped
  <2> QED
    BY <1>1, <2>1 DEF LastIsAcked, stateVars
<1>2. CASE UpdateTooOften \/ UpdateInvalid \/ NewSecond
  <2>1. UNCHANGED <<updates, acked, shown, failure>>
    BY <1>2 DEF UpdateTooOften, UpdateInvalid, NewSecond, workerVars
  <2> QED
    BY <2>1 DEF LastIsAcked
<1>3. CASE \E value \in Values : UpdateValid(value)
  <2> PICK value \in Values : UpdateValid(value)
    BY <1>3
  <2> DEFINE update == [seq |-> seq + 1, state |-> value]
  <2>0. updates \in Seq(Update) /\ Len(updates) \in Nat
    BY DEF StateTyped
  <2>1. CASE Len(updates) < UpdateCap
    <3>1. updates' = Append(updates, update) /\ acked' = seq + 1
      BY <2>1 DEF UpdateValid, Delivered, Acknowledged
    <3>2. Len(updates') = Len(updates) + 1 /\ updates'[Len(updates) + 1] = update /\ updates' # <<>>
      BY ONLY <2>0, <3>1
    <3>3. updates'[Len(updates')].seq = acked'
      BY ONLY <3>1, <3>2
    <3> QED
      BY ONLY <3>2, <3>3 DEF LastIsAcked
  <2>2. CASE ~(Len(updates) < UpdateCap)
    BY <2>2 DEF UpdateValid, Delivered, Acknowledged, LastIsAcked, workerVars
  <2> QED
    BY <2>1, <2>2
<1>4. CASE Project \/ ProjectFails
  <2>1. /\ updates # <<>> /\ updates \in Seq(Update) /\ updates' = Tail(updates) /\ acked' = acked
        /\ updates[Len(updates)].seq = acked
    BY <1>4 DEF Project, ProjectFails, StateTyped, LastIsAcked
  <2>2. /\ Len(updates) \in Nat \ {0} /\ Len(updates') = Len(updates) - 1
        /\ Head(updates) = updates[1]
        /\ \A k \in 1..Len(updates) - 1 : updates'[k] = updates[k + 1]
    BY <2>1, TailFacts
  <2>3. CASE Len(updates) = 1
    <3>1. updates' = <<>> /\ Head(updates).seq = acked
      BY <2>1, <2>2, <2>3
    <3>2. failure' \/ shown' = acked
      BY <1>4, <3>1 DEF Project, ProjectFails
    <3>3. acked \in Nat
      BY SessionAssumption DEF StateTyped
    <3>4. failure' \/ acked' <= shown'
      BY ONLY <2>1, <3>2, <3>3
    <3> QED
      BY ONLY <3>1, <3>4 DEF LastIsAcked
  <2>4. CASE Len(updates) # 1
    <3>1. updates' # <<>> /\ updates'[Len(updates')] = updates[Len(updates)]
      <4>1. Len(updates) - 1 \in 1..Len(updates) - 1 /\ Len(updates) - 1 + 1 = Len(updates)
        BY <2>2, <2>4
      <4>2. updates'[Len(updates) - 1] = updates[Len(updates)]
        BY <2>2, <4>1
      <4>3. updates' # <<>>
        BY <2>2, <2>4
      <4> QED
        BY <2>2, <4>2, <4>3
    <3> QED
      BY <2>1, <3>1 DEF LastIsAcked
  <2> QED
    BY <2>3, <2>4
<1> QED
  BY <1>1, <1>2, <1>3, <1>4, StateSteps, UNCHANGED <<stateVars, shown, failure>> => failure' \in {failure, TRUE}

\* A step appends to the queue, takes its head, empties it or leaves it alone.
LEMMA ActorStep ==
    ActorTyped /\ TimersTyped /\ [Next]_vars => ActorTyped'
<1> SUFFICES ASSUME ActorTyped, TimersTyped, [Next]_vars PROVE ActorTyped'
  OBVIOUS
<1> USE SessionAssumption DEF ActorTyped
<1> DEFINE Elsewhere == {Command(kind) : kind \in {"absent", "constructor", "idle", "stop", "ended"}}
<1>0. /\ \A kind \in {"absent", "constructor", "idle", "stop", "ended"} : Command(kind) \in Elsewhere
      /\ <<>> \in Seq(Commands) /\ Len(<<>>) <= CommandCap
  OBVIOUS
<1>1. ASSUME NEW command \in Commands, HasRoom, Enqueue(command)
      PROVE  commands' \in Seq(Commands) /\ Len(commands') <= CommandCap
  BY <1>1, AppendFacts DEF HasRoom, Enqueue
<1>2. CASE UNCHANGED actorVars
  BY <1>2 DEF actorVars
<1>3. CASE \E id \in Ids : Fire(id)
  <2> PICK id \in Ids : Fire(id)
    BY <1>3
  <2>1. TimerCommand(id) \in Commands
    BY CommandFacts DEF TimersTyped, Ids
  <2> QED
    BY <1>1, <2>1 DEF Fire
<1>4. CASE Complete
  <2>1. Command("completion") \in Commands
    BY CommandFacts
  <2> QED
    BY <1>1, <1>4, <2>1 DEF Complete
<1>5. CASE SendStart \/ SendEvent
  <2>1. Command("start") \in Commands /\ Command("event") \in Commands
    BY CommandFacts
  <2> QED
    BY <1>1, <1>5, <2>1 DEF SendStart, SendEvent, SendAndAwait
<1>6. CASE Close
  <2>1. Command("shutdown") \in Commands
    BY CommandFacts
  <2> QED
    BY <1>1, <1>6, <2>1 DEF Close
<1>7. CASE Spawn \/ Construct
  BY <1>0, <1>7 DEF Spawn, Construct
<1>8. CASE ConstructFails \/ Trap \/ End
  BY <1>0, <1>8 DEF ConstructFails, Trap, End, Abandoned
<1>9. CASE Return
  BY <1>0, <1>9 DEF Return
<1>10. CASE Take
  <2>1. /\ Head(commands) \in Commands
        /\ Tail(commands) \in Seq(Commands) /\ Len(Tail(commands)) <= CommandCap
    BY <1>10, TailFacts DEF Take
  <2> QED
    BY <1>0, <1>10, <2>1 DEF Take
<1> QED
  BY <1>2, <1>3, <1>4, <1>5, <1>6, <1>7, <1>8, <1>9, <1>10, ActorSteps DEF Actor

\* What the queue holds after a step was there before or has just been sent, and what is being
\* served after it was being served or waited in the queue.
LEMMA Provenance ==
    ASSUME ActorTyped, [Next]_vars
    PROVE  /\ \A k \in DOMAIN commands' :
                \/ \E j \in DOMAIN commands : commands'[k] = commands[j]
                \/ \E id \in Ids : Fire(id) /\ HasRoom /\ commands'[k] = TimerCommand(id)
                \/ Complete /\ commands'[k] = Command("completion")
                \/ SendStart /\ commands'[k] = Command("start")
                \/ SendEvent /\ commands'[k] = Command("event")
                \/ Close /\ commands'[k] = Command("shutdown")
           /\ \/ actor' = actor
              \/ actor' \in {Command(kind) : kind \in {"constructor", "idle", "stop", "ended"}}
              \/ \E j \in DOMAIN commands : actor' = commands[j]
<1> USE DEF ActorTyped
<1>1. ASSUME NEW command, Enqueue(command), command \in Commands
      PROVE  \A k \in DOMAIN commands' :
                commands'[k] = command \/ \E j \in DOMAIN commands : commands'[k] = commands[j]
  <2>1. /\ DOMAIN commands' = 1..Len(commands) + 1 /\ DOMAIN commands = 1..Len(commands)
        /\ Len(commands) \in Nat /\ commands'[Len(commands) + 1] = command
        /\ \A k \in 1..Len(commands) : commands'[k] = commands[k]
    BY <1>1, AppendFacts DEF Enqueue
  <2> QED
    BY <2>1
<1>2. CASE UNCHANGED actorVars
  BY <1>2 DEF actorVars
<1>3. CASE \E id \in Ids : Fire(id)
  <2> PICK id \in Ids : Fire(id)
    BY <1>3
  <2>1. actor' = actor
    BY DEF Fire
  <2>2. CASE HasRoom
    <3>1. Enqueue(TimerCommand(id))
      BY <2>2 DEF Fire
    <3>2. \A k \in DOMAIN commands' :
            commands'[k] = TimerCommand(id) \/ \E j \in DOMAIN commands : commands'[k] = commands[j]
      <4>1. /\ DOMAIN commands' = 1..Len(commands) + 1 /\ DOMAIN commands = 1..Len(commands)
            /\ Len(commands) \in Nat /\ commands'[Len(commands) + 1] = TimerCommand(id)
            /\ \A k \in 1..Len(commands) : commands'[k] = commands[k]
        BY <3>1 DEF Enqueue
      <4> QED
        BY <4>1
    <3> QED
      BY <2>1, <2>2, <3>2
  <2>3. CASE ~HasRoom
    BY <2>1, <2>3 DEF Fire
  <2> QED
    BY <2>2, <2>3
<1>4. CASE Complete
  <2>1. Command("completion") \in Commands
    BY CommandFacts
  <2> QED
    BY <1>1, <1>4, <2>1 DEF Complete
<1>5. CASE SendStart
  <2>1. Command("start") \in Commands
    BY CommandFacts
  <2> QED
    BY <1>1, <1>5, <2>1 DEF SendStart, SendAndAwait
<1>6. CASE SendEvent
  <2>1. Command("event") \in Commands
    BY CommandFacts
  <2> QED
    BY <1>1, <1>6, <2>1 DEF SendEvent, SendAndAwait
<1>7. CASE Close
  <2>1. Command("shutdown") \in Commands
    BY CommandFacts
  <2> QED
    BY <1>1, <1>7, <2>1 DEF Close
<1>8. CASE Spawn \/ Construct \/ ConstructFails \/ Trap \/ End \/ Return
  BY <1>8 DEF Spawn, Construct, ConstructFails, Trap, End, Return
<1>9. CASE Take
  <2>1. /\ 1 \in DOMAIN commands /\ Head(commands) = commands[1]
        /\ \A k \in DOMAIN Tail(commands) : k + 1 \in DOMAIN commands /\ Tail(commands)[k] = commands[k + 1]
    BY <1>9, TailFacts DEF Take
  <2>2. commands' = Tail(commands) /\ (actor' = Command("stop") \/ actor' = commands[1])
    BY <1>9, <2>1 DEF Take
  <2> QED
    BY <2>1, <2>2
<1> QED
  BY <1>2, <1>3, <1>4, <1>5, <1>6, <1>7, <1>8, <1>9, ActorSteps DEF Actor

\* What a step makes of the task of a timer, and of the set of those cancelled in time.
LEMMA TaskSteps ==
    ASSUME TimersTyped, [Next]_vars, NEW id \in Ids
    PROVE  /\ id \in Ids'
           /\ \/ timers'[id] = timers[id]
              \/ Wake(id) /\ timers'[id] = WakesUp(id)
              \/ Fire(id) /\ timers[id] = "due" /\ timers'[id] \in {"sent", "lost"}
           /\ Fire(id) /\ HasRoom => timers'[id] = "sent"
           /\ id \in early' => id \in early \/ (timers[id] = "asleep" /\ timers'[id] = "asleep")
<1> USE DEF TimersTyped, Ids
<1>1. CASE UNCHANGED timerVars
  <2>1. ~(Fire(id) /\ HasRoom)
    <3>1. Fire(id) /\ HasRoom => timers[id] = "due" /\ timers' = [timers EXCEPT ![id] = "sent"]
      BY DEF Fire
    <3> QED
      BY <1>1, <3>1 DEF timerVars
  <2> QED
    BY <1>1, <2>1 DEF timerVars
<1>2. CASE Schedule
  <2>1. /\ timers' = Append(timers, "asleep") /\ early' = early /\ ~Fire(id)
    BY <1>2 DEF Schedule, Fire, workerVars, actorVars, stateVars, timerVars
  <2>2. Len(timers') = Len(timers) + 1 /\ timers'[id] = timers[id]
    BY <2>1, AppendFacts DEF TimerStates
  <2> QED
    BY <2>1, <2>2
<1>3. CASE NewMinute \/ Return
  <2>1. timers' = timers /\ early' = early
    BY <1>3 DEF NewMinute, Return
  <2>2. ~(Fire(id) /\ HasRoom)
    <3>1. Fire(id) /\ HasRoom => timers[id] = "due" /\ timers' = [timers EXCEPT ![id] = "sent"]
      BY DEF Fire
    <3> QED
      BY <2>1, <3>1
  <2> QED
    BY <2>1, <2>2
<1>4. ASSUME NEW other \in Ids, Cancel(other) \/ Wake(other) \/ Fire(other)
      PROVE  /\ id \in Ids'
             /\ \/ timers'[id] = timers[id]
                \/ Wake(id) /\ timers'[id] = WakesUp(id)
                \/ Fire(id) /\ timers[id] = "due" /\ timers'[id] \in {"sent", "lost"}
             /\ Fire(id) /\ HasRoom => timers'[id] = "sent"
             /\ id \in early' => id \in early \/ (timers[id] = "asleep" /\ timers'[id] = "asleep")
  <2>0. Fire(id) /\ HasRoom => timers'[id] = "sent"
    BY DEF Fire
  <2>1. CASE Cancel(other)
    BY <2>0, <2>1 DEF Cancel
  <2>2. CASE Wake(other)
    <3>1. timers' = [timers EXCEPT ![other] = WakesUp(other)] /\ early' = early /\ timers[other] = "asleep"
      BY <2>2 DEF Wake
    <3>2. CASE other = id
      <4>1. id \in Ids' /\ timers'[id] = WakesUp(id)
        BY <3>1, <3>2
      <4> QED
        BY <2>0, <2>2, <3>1, <3>2, <4>1
    <3>3. CASE other # id
      BY <2>0, <3>1, <3>3
    <3> QED
      BY <3>2, <3>3
  <2>3. CASE Fire(other)
    <3>1. /\ timers[other] = "due" /\ early' = early
          /\ \E outcome \in {"sent", "lost"} : timers' = [timers EXCEPT ![other] = outcome]
      BY <2>3 DEF Fire
    <3>2. CASE other = id
      BY <2>0, <2>3, <3>1, <3>2
    <3>3. CASE other # id
      BY <2>0, <3>1, <3>3
    <3> QED
      BY <3>2, <3>3
  <2> QED
    BY <1>4, <2>1, <2>2, <2>3
<1> QED
  BY <1>1, <1>2, <1>3, <1>4, TimerSteps

LEMMA SilentStep ==
    ActorTyped /\ TimersTyped /\ Silent /\ [Next]_vars => Silent'
<1> SUFFICES ASSUME ActorTyped, TimersTyped, Silent, [Next]_vars PROVE Silent'
  OBVIOUS
<1>1. ASSUME NEW id, Sent(id)
      PROVE  id \in Ids' /\ timers'[id] = "sent"
  <2>1. id \in Ids /\ timers[id] = "sent"
    BY <1>1 DEF Sent
  <2>2. ~Wake(id)
    BY <2>1 DEF Wake
  <2> QED
    BY <2>1, <2>2, TaskSteps DEF Sent
<1>2. ASSUME NEW id \in early'
      PROVE  timers'[id] \in {"asleep", "over"}
  <2>1. id \in Ids \/ UNCHANGED early
    BY TimerSteps DEF timerVars, Schedule, NewMinute, Return, Cancel, Wake, Fire, TimersTyped, Ids
  <2>2. id \in Ids
    BY <1>2, <2>1 DEF TimersTyped
  <2>3. CASE id \in early
    <3>1. id \in cancelled /\ timers[id] \in {"asleep", "over"}
      BY <2>3 DEF Silent, TimersTyped
    <3>2. WakesUp(id) = "over"
      BY <3>1 DEF WakesUp
    <3> QED
      BY <2>2, <3>1, <3>2, TaskSteps
  <2>4. CASE id \notin early
    BY <1>2, <2>2, <2>4, TaskSteps
  <2> QED
    BY <2>3, <2>4
<1>3. ASSUME NEW k \in DOMAIN commands', commands'[k].kind = "timer"
      PROVE  commands'[k].id \in Ids' /\ timers'[commands'[k].id] = "sent"
  <2>1. CASE \E j \in DOMAIN commands : commands'[k] = commands[j]
    <3> PICK j \in DOMAIN commands : commands'[k] = commands[j]
      BY <2>1
    <3>1. Sent(commands'[k].id)
      BY <1>3 DEF Silent
    <3> QED
      BY <1>1, <3>1
  <2>2. CASE \E id \in Ids : Fire(id) /\ HasRoom /\ commands'[k] = TimerCommand(id)
    <3> PICK id \in Ids : Fire(id) /\ HasRoom /\ commands'[k] = TimerCommand(id)
      BY <2>2
    <3>1. id \in Ids' /\ timers'[id] = "sent"
      BY TaskSteps
    <3>2. commands'[k].id = id
      BY CommandFacts
    <3> QED
      BY <3>1, <3>2 DEF Sent
  <2> QED
    BY <1>3, <2>1, <2>2, Provenance, CommandFacts
<1>4. ASSUME actor'.kind = "timer"
      PROVE  actor'.id \in Ids' /\ timers'[actor'.id] = "sent"
  <2>1. CASE actor' = actor
    <3>1. Sent(actor'.id)
      BY <1>4, <2>1 DEF Silent
    <3> QED
      BY <1>1, <3>1
  <2>2. CASE \E j \in DOMAIN commands : actor' = commands[j]
    <3>1. Sent(actor'.id)
      BY <1>4, <2>2 DEF Silent
    <3> QED
      BY <1>1, <3>1
  <2> QED
    BY <1>4, <2>1, <2>2, Provenance, CommandFacts
<1> QED
  <2>1. \A id \in early' : timers'[id] \in {"asleep", "over"}
    BY <1>2
  <2>2. \A k \in DOMAIN commands' : commands'[k].kind = "timer" =>
            commands'[k].id \in Ids' /\ timers'[commands'[k].id] = "sent"
    BY <1>3
  <2> QED
    BY ONLY <1>4, <2>1, <2>2 DEF Silent, Sent

LEMMA HeardStep ==
    ActorTyped /\ WorkerTyped /\ StartIsHeard /\ CloseIsAsked /\ [Next]_vars
        => StartIsHeard' /\ CloseIsAsked'
<1> SUFFICES ASSUME ActorTyped, WorkerTyped, StartIsHeard, CloseIsAsked, [Next]_vars
             PROVE  StartIsHeard' /\ CloseIsAsked'
  OBVIOUS
<1> DEFINE Early == worker \in {"spawning", "begin", "starting"}
<1>1. Early' => Early /\ ~SendEvent
  BY WorkerSteps DEF Worker, Spawn, SpawnFails, SendStart, Started, Top, Forward,
           SendEvent, EventAnswered, Project, ProjectFails, NoUpdate, Close, Join
<1>2. worker' = "spawning" => actor'.kind = "absent"
  <2> SUFFICES ASSUME worker' = "spawning" PROVE actor'.kind = "absent"
    OBVIOUS
  <2>1. UNCHANGED worker
    BY WorkerSteps DEF Worker, Spawn, SpawnFails, SendStart, Started, Top, Forward,
           SendEvent, EventAnswered, Project, ProjectFails, NoUpdate, Close, Join
  <2>2. actor.kind = "absent" /\ worker = "spawning"
    BY <2>1 DEF StartIsHeard
  <2>3. actor \notin Commands
    BY <2>2, CommandFacts
  <2> QED
    BY <2>1, <2>2, <2>3, ActorSteps DEF actorVars, Fire, Actor, Construct, ConstructFails, Take, Return,
       Trap, End, Serving, Complete, Spawn, SendStart, SendEvent, Close
<1>3. Early' => \A k \in DOMAIN commands' : commands'[k].kind # "event"
  BY <1>1, Provenance, CommandFacts DEF StartIsHeard
<1>4. Early' => actor'.kind # "event"
  BY <1>1, Provenance, CommandFacts DEF StartIsHeard
<1>5. ASSUME Early', reply' = "ok"
      PROVE  accepted'
  <2>1. Early /\ ~SendEvent /\ actor.kind # "event"
    BY <1>1, <1>5 DEF StartIsHeard
  <2>2. accepted => accepted'
    BY ActorSteps DEF actorVars, Fire, Actor, Construct, ConstructFails, Take, Return,
       Trap, End, Complete, Spawn, SendStart, SendEvent, Close
  <2>3. CASE reply = "ok"
    BY <2>1, <2>2, <2>3 DEF StartIsHeard
  <2>4. CASE reply # "ok"
    <3>1. Return
      BY <1>5, <2>1, <2>4, ActorSteps DEF actorVars, Fire, Actor, Construct, ConstructFails, Take, Abandoned,
         Trap, End, Complete, Spawn, SendStart, SendAndAwait, Close
    <3>2. actor.kind = "start"
      BY <1>5, <2>1, <2>4, <3>1 DEF Return
    <3> QED
      BY <3>1, <3>2 DEF Return
  <2> QED
    BY <2>3, <2>4
<1>6. CloseIsAsked'
  <2>1. stop => stop'
    BY BridgeSteps DEF Raise, Stop, Forward, Complete, bridgeVars
  <2>2. CASE UNCHANGED <<worker, forwarded, lifecycle, failure>>
    BY <2>1, <2>2 DEF CloseIsAsked
  <2>3. CASE Worker
    <3>1. worker' \in {"closing", "joining"} /\ ~failure' => stop
      BY <2>3 DEF CloseIsAsked, Worker, Spawn, SpawnFails, SendStart, Started, Top, Forward,
           SendEvent, EventAnswered, Project, ProjectFails, NoUpdate, Close, Join
    <3> QED
      BY <2>1, <3>1 DEF CloseIsAsked
  <2> QED
    BY <2>2, <2>3, WorkerSteps
<1> QED
  BY <1>1, <1>2, <1>3, <1>4, <1>5, <1>6 DEF StartIsHeard

LEMMA NextInv == IInv /\ [Next]_vars => IInv'
  BY TimersStep, StateStep, WorkerStep, AckedStep, ActorStep, SilentStep, HeardStep DEF IInv

LEMMA Invariant == Spec => []IInv
  BY InitInv, NextInv, PTL DEF Spec
-----------------------------------------------------------------------------
(* The theorems.                                                           *)

\* The types, and that no update acknowledged to the guest is lost between the channel and the
\* window, whatever finds the channel full after it (state.rs:136-160, timer.rs:60-120).
THEOREM Consistent == Spec => []SessionConsistent
<1>1. IInv => TypeOK
  <2> SUFFICES ASSUME IInv PROVE TypeOK
    OBVIOUS
  <2>1. {seq, calls, acked, shown} \subseteq 0..MaxUpdates
    BY SessionAssumption DEF IInv, StateTyped
  <2>2. lifecycle \in Seq({"running", "failed", "stopped"}) /\ Len(lifecycle) <= 4
    <3>1. lifecycle \in {<<>>, <<"running">>, <<"failed">>, <<"running", "failed">>, <<"running", "stopped">>}
      BY DEF IInv, WorkerTyped, WorkerSays, Places
    <3> DEFINE Said == {"running", "failed", "stopped"}
    <3>2. <<>> \in Seq(Said) /\ Len(<<>>) <= 4
      OBVIOUS
    <3>3. \A a \in Said : <<a>> \in Seq(Said) /\ Len(<<a>>) <= 4
      OBVIOUS
    <3>4. \A a, b \in Said : <<a, b>> \in Seq(Said) /\ Len(<<a, b>>) <= 4
      OBVIOUS
    <3> QED
      BY <3>1, <3>2, <3>3, <3>4
  <2>3. {stop, failure} \subseteq BOOLEAN
    BY DEF IInv, WorkerTyped
  <2> QED
    BY <2>1, <2>2, <2>3 DEF IInv, TypeOK, TimersTyped, ActorTyped, StateTyped, WorkerTyped, TimerStates, Places
<1>2. IInv => AcknowledgedIsNotLost
  <2> SUFFICES ASSUME IInv, updates # <<>> PROVE \E k \in DOMAIN updates : updates[k].seq = acked
    BY DEF AcknowledgedIsNotLost, IInv, LastIsAcked
  <2>1. Len(updates) \in DOMAIN updates
    BY DEF IInv, StateTyped
  <2> QED
    BY <2>1 DEF IInv, LastIsAcked
<1> QED
  BY <1>1, <1>2, Invariant, PTL DEF SessionConsistent

\* A timer the guest has cancelled before it was due never reaches it, although its task runs to
\* its end (timer.rs:76-102).
THEOREM CancelledIsSilent == Spec => []CancelledInTimeIsSilent
<1>1. IInv => CancelledInTimeIsSilent
  <2> SUFFICES ASSUME IInv, NEW id \in early PROVE ~Queued(id) /\ ~Handled(id)
    BY DEF CancelledInTimeIsSilent
  <2>1. timers[id] # "sent"
    BY DEF IInv, Silent
  <2> QED
    BY <2>1, CommandFacts DEF IInv, Silent, Sent, Queued, Handled
<1> QED
  BY <1>1, Invariant, PTL

\* What the supervisor is told of a session is what SessionLifecycle promises: running only once
\* the guest has accepted start, one end, and stopped only when asked to (runtime_ui.rs:1044-1148).
THEOREM ImplementsLifecycle == Spec => KeepsLifecycle
<1> DEFINE life  == IF lifecycle = <<>> THEN "starting" ELSE lifecycle[Len(lifecycle)]
           guest == IF Ended THEN "gone" ELSE IF accepted THEN "up" ELSE "new"
<1>0. /\ <<"running">> # <<>> /\ <<"failed">> # <<>> /\ <<"running">> # <<"failed">>
      /\ <<"running">>[Len(<<"running">>)] = "running" /\ <<"failed">>[Len(<<"failed">>)] = "failed"
  OBVIOUS
<1>1. Init => LifecycleOf!Init
  BY CommandFacts DEF Init, LifecycleOf!Init, Ended
<1>2. IInv /\ [Next]_vars => [LifecycleOf!Next]_LifecycleOf!vars
  <2> SUFFICES ASSUME IInv, [Next]_vars PROVE [LifecycleOf!Next]_LifecycleOf!vars
    OBVIOUS
  <2>1. CASE Started \/ SpawnFails \/ Join
    <3>1. UNCHANGED <<guest, stop>>
      BY <2>1 DEF Started, SpawnFails, Join, actorVars, bridgeVars, Ended
    <3>2. CASE SpawnFails
      <4>1. life = "starting" /\ life' = "failed"
        BY <1>0, <3>2 DEF SpawnFails, IInv, WorkerSays
      <4> QED
        BY <3>1, <4>1 DEF LifecycleOf!Next, LifecycleOf!Fail
    <3>3. CASE Started
      <4>1. life = "starting" /\ (life' = "failed" \/ (life' = "running" /\ reply = "ok"))
        BY <1>0, <3>3 DEF Started, ComesUp, IInv, WorkerSays
      <4>2. reply = "ok" => guest # "new"
        BY <3>3 DEF Started, IInv, StartIsHeard
      <4> QED
        BY <3>1, <4>1, <4>2 DEF LifecycleOf!Next, LifecycleOf!Fail, LifecycleOf!ComeUp
    <3>4. CASE Join
      <4>1. CASE lifecycle = <<"failed">>
        <5>1. life' = life
          BY <3>4, <4>1 DEF Join
        <5> QED
          BY <3>1, <5>1 DEF LifecycleOf!vars
      <4>2. CASE lifecycle = <<"running">>
        <5>1. life = "running" /\ life' = Verdict
          <6>1. lifecycle' = Append(<<"running">>, Verdict)
            BY <1>0, <3>4, <4>2 DEF Join
          <6> QED
            BY <1>0, <4>2, <6>1
        <5>2. CASE failure
          BY <3>1, <5>1, <5>2 DEF Verdict, LifecycleOf!Next, LifecycleOf!Fail
        <5>3. CASE ~failure
          <6>1. stop /\ guest = "gone"
            BY <3>4, <5>3 DEF Join, IInv, CloseIsAsked
          <6> QED
            BY <3>1, <5>1, <5>3, <6>1 DEF Verdict, LifecycleOf!Next, LifecycleOf!Stop
        <5> QED
          BY <5>2, <5>3
      <4> QED
        BY <3>4, <4>1, <4>2 DEF Join, IInv, WorkerSays
    <3> QED
      BY <2>1, <3>2, <3>3, <3>4
  <2>2. CASE Stop
    <3>1. UNCHANGED <<life, guest>> /\ ~stop /\ stop'
      BY <2>2 DEF Stop, actorVars, workerVars, Ended
    <3> QED
      BY <3>1 DEF LifecycleOf!Next, LifecycleOf!Ask
  <2>3. CASE ~(Started \/ SpawnFails \/ Join \/ Stop)
    <3>1. UNCHANGED lifecycle
      BY <2>3, WorkerSteps DEF Worker, Spawn, SendStart, Top, Forward, SendEvent, EventAnswered, Project,
         ProjectFails, NoUpdate, Close
    <3>2. UNCHANGED stop
      BY <2>3, BridgeSteps DEF Raise, Forward, Complete, bridgeVars
    <3>3. UNCHANGED life
      BY <3>1
    <3>4. \/ UNCHANGED guest
          \/ guest = "new" /\ guest' = "up"
          \/ guest # "gone" /\ guest' = "gone"
      <4>1. accepted => accepted'
        BY ActorSteps DEF actorVars, Fire, Actor, Construct, ConstructFails, Take, Return,
           Trap, End, Complete, Spawn, SendStart, SendEvent, Close
      <4>2. actor.kind = "ended" => actor'.kind = "ended"
        <5> SUFFICES ASSUME actor.kind = "ended" PROVE actor' = actor
          OBVIOUS
        <5>1. actor \notin Commands /\ ~Spawn
          BY CommandFacts DEF Spawn, IInv, StartIsHeard
        <5> QED
          BY <5>1, ActorSteps DEF actorVars, Fire, Actor, Construct, ConstructFails, Take, Return,
             Trap, End, Serving, Complete, SendStart, SendEvent, Close
      <4>3. accepted \in BOOLEAN /\ accepted' \in BOOLEAN
        BY ActorStep DEF IInv, ActorTyped
      <4> QED
        BY <4>1, <4>2, <4>3 DEF Ended
    <3> QED
      BY <3>2, <3>3, <3>4 DEF LifecycleOf!Next, LifecycleOf!GuestStarts, LifecycleOf!GuestEnds, LifecycleOf!vars
  <2> QED
    BY <2>1, <2>2, <2>3
<1> QED
  BY <1>1, <1>2, Invariant, PTL DEF Spec, KeepsLifecycle, LifecycleOf!Spec
-----------------------------------------------------------------------------
(* The document (module Documents).  The functions that walk trees are its *)
(* parameters; of them only that each is one level over itself is used.    *)
(* UiTrees defines them by these very equations.                           *)

WalksUnfold ==
    /\ \A schema, value, depth :
          Conforms(schema, value, depth) = ConformsLevel(schema, value, depth, Conforms)
    /\ \A schema, path : Resolve(schema, path) = ResolveLevel(schema, path, Resolve)
    /\ \A value, path : At(value, path) = AtLevel(value, path, At)

-----------------------------------------------------------------------------
(* The inductive invariant.                                                *)

\* The queue is a sequence, whatever it holds.
Channel == \E S : queued \in Seq(S)

\* What has been prepared is what the renderer made of the document.
Stages ==
    /\ doc \in Docs
    /\ stage \in {"given", "refused"} => queued = << >>
    /\ stage \in {"prepared", "compiled", "running"} => Renders(doc) /\ slots = Slots(Nodes(doc))
    /\ stage \in {"prepared", "compiled"} => queued = << >>
    /\ stage \in {"given", "refused", "prepared", "compiled", "running"}

\* No two paths share a property: the Slint compiler refuses a property declared twice.
Apart == \A s, t \in slots : PropName(s.path) = PropName(t.path) => s.path = t.path

Compiles ==
    stage \in {"compiled", "running"} =>
        Apart /\ \A i \in DOMAIN Nodes(doc) : Nodes(doc)[i].node.kind # "ForEach"

\* Every State that was committed or queued conforms to the schema.
Accepted ==
    stage = "running" =>
        /\ Conforms(doc.schema, json, 0)
        /\ \A i \in DOMAIN queued : Conforms(doc.schema, queued[i], 0)

Shows(value) ==
    \A s \in slots : Projects(s, value) => properties[PropName(s.path)] = At(value, s.path)

\* The last State queued is the authoritative one, unless it found the queue full.
Latest ==
    stage = "running" =>
        /\ DOMAIN properties = {PropName(s.path) : s \in slots}
        /\ ~unsent => IF queued = << >> THEN Shows(json) ELSE queued[Len(queued)] = json

DInv == Channel /\ Stages /\ Compiles /\ Accepted /\ Latest

LEMMA DocumentInitInv == DocumentInit => DInv
<1> SUFFICES ASSUME DocumentInit PROVE DInv
  OBVIOUS
<1>1. queued \in Seq({})
  BY DEF DocumentInit
<1>2. Channel
  BY <1>1 DEF Channel
<1> QED
  BY <1>2 DEF DocumentInit, DInv, Stages, Compiles, Accepted, Latest

LEMMA PrepareInv == DInv /\ Prepare => DInv'
<1> SUFFICES ASSUME DInv, Prepare PROVE DInv'
  OBVIOUS
<1> USE DEF Prepare
<1>1. Channel'
  BY DEF DInv, Channel
<1>2. stage = "given" /\ stage' \in {"prepared", "refused"}
  OBVIOUS
<1>3. Stages'
  BY DEF DInv, Stages
<1> QED
  BY <1>1, <1>2, <1>3 DEF DInv, Compiles, Accepted, Latest

LEMMA CompileInv == DInv /\ Compile => DInv'
<1> SUFFICES ASSUME DInv, Compile PROVE DInv'
  OBVIOUS
<1>1. /\ stage = "prepared" /\ stage' \in {"compiled", "refused"}
      /\ UNCHANGED <<doc, slots, json, queued, properties, spent, unsent>>
  BY DEF Compile
<1>2. Channel' /\ Stages'
  BY <1>1 DEF DInv, Stages, Channel
<1>3. ASSUME stage' = "compiled" PROVE TRUE \in CompileOutcomes
  BY <1>1, <1>3 DEF Compile
<1>4. ASSUME stage' = "compiled" PROVE Apart /\ \A i \in DOMAIN Nodes(doc) : Nodes(doc)[i].node.kind # "ForEach"
  BY <1>3, <1>4 DEF CompileOutcomes, Apart
<1>5. Compiles'
  BY <1>1, <1>4 DEF Compiles, Apart
<1> QED
  BY <1>1, <1>2, <1>5 DEF DInv, Accepted, Latest

LEMMA OpenWindowInv == DInv /\ OpenWindow => DInv'
<1> SUFFICES ASSUME DInv, OpenWindow PROVE DInv'
  OBVIOUS
<1>1. /\ stage = "compiled" /\ stage' \in {"running", "refused"}
      /\ UNCHANGED <<doc, slots, json, queued>>
  BY DEF OpenWindow
<1>2. Channel' /\ Stages' /\ queued = << >>
  BY <1>1 DEF DInv, Stages, Channel
<1>3. Compiles'
  BY <1>1 DEF DInv, Compiles, Apart
<1>4. Accepted' /\ Latest'
  BY <1>1, <1>2 DEF OpenWindow, Accepted, Latest
<1> QED
  BY <1>2, <1>3, <1>4 DEF DInv

LEMMA SubmitInv == ASSUME DInv, NEW patch, Submit(patch) PROVE DInv'
<1> DEFINE next == MergePatch(json, patch)
           outcome == Answer(patch)
<1>1. /\ stage = "running" /\ stage' = "running"
      /\ UNCHANGED <<doc, slots, properties>>
  BY DEF Submit
<1>2. /\ json' = IF outcome \in {"ok", "queue-full"} THEN next ELSE json
      /\ queued' = IF outcome = "ok" THEN Append(queued, next) ELSE queued
      /\ unsent' = CASE outcome = "ok" -> FALSE
                     [] outcome = "queue-full" -> TRUE
                     [] OTHER -> unsent
  BY DEF Submit
<1>3. outcome \in {"ok", "queue-full"} => Conforms(doc.schema, next, 0)
  BY DEF Answer
<1>4. PICK S : queued \in Seq(S)
  BY DEF DInv, Channel
<1>5. queued \in Seq(S \cup {next})
  BY <1>4
<1>6. /\ Append(queued, next) \in Seq(S \cup {next})
      /\ Len(Append(queued, next)) = Len(queued) + 1
      /\ Append(queued, next)[Len(queued) + 1] = next
      /\ Append(queued, next) # << >>
      /\ \A i \in DOMAIN Append(queued, next) :
            (i \in DOMAIN queued /\ Append(queued, next)[i] = queued[i]) \/ Append(queued, next)[i] = next
  BY <1>5
<1> HIDE DEF next, outcome
<1>7. Channel'
  BY <1>2, <1>4, <1>6 DEF Channel
<1>8. Stages' /\ Compiles'
  BY <1>1 DEF DInv, Stages, Compiles, Apart
<1>9. Accepted'
  BY <1>1, <1>2, <1>3, <1>6 DEF DInv, Accepted
<1>10. Latest'
  <2>1. CASE outcome = "ok"
    BY <2>1, <1>1, <1>2, <1>6 DEF DInv, Latest
  <2>2. CASE outcome = "queue-full"
    BY <2>2, <1>1, <1>2 DEF DInv, Latest
  <2>3. CASE outcome \notin {"ok", "queue-full"}
    <3>1. UNCHANGED <<json, queued, unsent>>
      BY <2>3, <1>2
    <3> QED
      BY <3>1, <1>1 DEF DInv, Latest, Shows
  <2> QED
    BY <2>1, <2>2, <2>3
<1> QED
  BY <1>7, <1>8, <1>9, <1>10 DEF DInv

\* One slot that does not project leaves the properties of the others to themselves.
LEMMA ProjectedShows ==
    ASSUME Apart, NEW value, NEW s \in slots, Projects(s, value),
           DOMAIN properties = {PropName(t.path) : t \in slots}
    PROVE  Projected(value)[PropName(s.path)] = At(value, s.path)
<1> DEFINE p == PropName(s.path)
           sets == {t \in slots : PropName(t.path) = p /\ Projects(t, value)}
           c == CHOOSE t \in sets : TRUE
<1>1. s \in sets
  OBVIOUS
<1>2. c \in sets
  BY <1>1
<1>3. c.path = s.path
  BY <1>2 DEF Apart
<1>4. p \in DOMAIN properties
  OBVIOUS
<1>5. Projected(value)[p] = At(value, c.path)
  BY <1>1, <1>4 DEF Projected
<1> QED
  BY <1>3, <1>5

LEMMA ProjectNextInv == DInv /\ ProjectNext => DInv'
<1> SUFFICES ASSUME DInv, ProjectNext PROVE DInv'
  OBVIOUS
<1>1. /\ stage = "running" /\ queued # << >>
      /\ properties' = Projected(Head(queued)) /\ queued' = Tail(queued)
      /\ UNCHANGED <<doc, stage, slots, json, spent, unsent>>
  BY DEF ProjectNext
<1>2. PICK S : queued \in Seq(S)
  BY DEF DInv, Channel
<1>3. /\ Tail(queued) \in Seq(S) /\ Len(queued) \in Nat /\ Len(queued) > 0
      /\ Head(queued) = queued[1]
      /\ Len(Tail(queued)) = Len(queued) - 1
      /\ \A i \in DOMAIN Tail(queued) : i + 1 \in DOMAIN queued /\ Tail(queued)[i] = queued[i + 1]
  BY <1>1, <1>2
<1>10. Tail(queued) = << >> => Len(queued) = 1
  BY <1>3
<1>11. ASSUME Tail(queued) # << >>
       PROVE  Tail(queued)[Len(Tail(queued))] = queued[Len(queued)]
  <2>1. Len(Tail(queued)) > 0
    BY <1>1, <1>2, <1>11
  <2>2. Len(Tail(queued)) \in DOMAIN Tail(queued)
    BY <1>1, <1>2, <2>1
  <2> QED
    BY <1>3, <2>2
<1>4. Channel'
  BY <1>1, <1>3 DEF Channel
<1>5. Stages' /\ Compiles'
  BY <1>1 DEF DInv, Stages, Compiles, Apart
<1>6. Accepted'
  BY <1>1, <1>3 DEF DInv, Accepted
<1>7. DOMAIN properties' = DOMAIN properties
  BY <1>1 DEF Projected
<1>8. Apart /\ DOMAIN properties = {PropName(t.path) : t \in slots}
  BY <1>1 DEF DInv, Compiles, Latest
<1>9. Latest'
  <2>1. CASE Tail(queued) # << >>
    BY <2>1, <1>1, <1>11, <1>7 DEF DInv, Latest
  <2>2. CASE Tail(queued) = << >>
    <3>1. ~unsent => Head(queued) = json
      BY <2>2, <1>1, <1>3, <1>10 DEF DInv, Latest
    <3>2. ASSUME ~unsent PROVE Shows(json)'
      <4>1. \A s \in slots : Projects(s, json) => Projected(json)[PropName(s.path)] = At(json, s.path)
        BY <1>8, ProjectedShows
      <4>2. properties' = Projected(json)
        BY <1>1, <3>1, <3>2
      <4> QED
        BY <1>1, <4>1, <4>2 DEF Shows
    <3> QED
      BY <2>2, <1>1, <1>7, <1>8, <3>2 DEF Latest
  <2> QED
    BY <2>1, <2>2
<1> QED
  BY <1>4, <1>5, <1>6, <1>9 DEF DInv

LEMMA DocumentStepInv == DInv /\ [DocumentNext]_docVars => DInv'
<1> SUFFICES ASSUME DInv, [DocumentNext]_docVars PROVE DInv'
  OBVIOUS
<1>1. CASE NextSecond
  BY <1>1 DEF NextSecond, DInv, Channel, Stages, Compiles, Apart, Accepted, Latest, Shows
<1>2. CASE UNCHANGED docVars
  BY <1>2 DEF docVars, DInv, Channel, Stages, Compiles, Apart, Accepted, Latest, Shows
<1> QED
  BY <1>1, <1>2, PrepareInv, CompileInv, OpenWindowInv, SubmitInv, ProjectNextInv DEF DocumentNext

\* What a document that came as far as a window is, and what the guest's updates leave: every State
\* committed or queued conforms to the schema the document was validated with, no two of its
\* slots share a property, and the last State queued is the authoritative one (validate.rs:19-47,
\* state.rs:100-165).
THEOREM DocumentInvariant == DocumentSpec => []DInv
  BY DocumentInitInv, DocumentStepInv, PTL DEF DocumentSpec

\* A window that has caught up shows the newest State in every slot that can be projected
\* (runtime_ui.rs:1088-1125, state.rs:136-160).
THEOREM CaughtUpIsLatest == DocumentSpec => []ShownIsLatest
<1>1. DInv => ShownIsLatest
  BY DEF DInv, Latest, Shows, ShownIsLatest
<1> QED
  BY DocumentInvariant, <1>1, PTL

-----------------------------------------------------------------------------
(* A path that the schema resolves and requires leads, in a value that     *)
(* conforms, to a value that conforms to what the path resolves to.        *)

Leads(schema, value, path) ==
    \E d : Conforms(Resolve(schema, path), At(value, path), d)

Astray(schema, value, depth, path) ==
    /\ path \in Seq(STRING)
    /\ Conforms(schema, value, depth)
    /\ Resolve(schema, path) # NoSchema
    /\ Required(schema, path)
    /\ ~Leads(schema, value, path)

\* The induction is over the length of the path, by its smallest counterexample.
LEMMA LeastNumber ==
    ASSUME NEW T \in SUBSET Nat, T # {} PROVE \E n \in T : \A m \in T : n <= m
<1>1. PICK R : R = OpToRel(<, Nat)
  OBVIOUS
<1>2. IsWellFoundedOn(R, Nat)
  BY <1>1, NatLessThanWellFounded
<1>3. PICK n \in T : \A m \in T : ~ (<<m, n>> \in R)
  BY <1>2, WFMin
<1>4. R = {ss \in Nat \X Nat : ss[1] < ss[2]}
  BY <1>1 DEF OpToRel
<1>5. \A a, b \in Nat : <<b, a>> \in R <=> b < a
  BY <1>4
<1>6. n \in Nat /\ \A m \in T : m \in Nat /\ ~(m < n)
  BY <1>3, <1>5
<1> QED
  BY <1>6

LEMMA PrefixFacts ==
    ASSUME NEW path \in Seq(STRING), path # << >>
    PROVE  /\ Head(path) = path[1] /\ 1 \in DOMAIN path /\ SubSeq(path, 1, 0) = << >>
           /\ Tail(path) \in Seq(STRING) /\ Len(Tail(path)) \in Nat /\ Len(Tail(path)) < Len(path)
           /\ \A k \in DOMAIN Tail(path) :
                /\ k + 1 \in DOMAIN path /\ Tail(path)[k] = path[k + 1]
                /\ SubSeq(path, 1, k) # << >>
                /\ Head(SubSeq(path, 1, k)) = path[1]
                /\ Tail(SubSeq(path, 1, k)) = SubSeq(Tail(path), 1, k - 1)
<1>1. /\ Head(path) = path[1] /\ 1 \in DOMAIN path /\ SubSeq(path, 1, 0) = << >>
      /\ Tail(path) \in Seq(STRING) /\ Len(Tail(path)) \in Nat /\ Len(Tail(path)) < Len(path)
      /\ DOMAIN Tail(path) = 1 .. Len(path) - 1 /\ Len(Tail(path)) = Len(path) - 1
  OBVIOUS
<1>2. ASSUME NEW k \in DOMAIN Tail(path)
      PROVE  /\ k + 1 \in DOMAIN path /\ Tail(path)[k] = path[k + 1]
             /\ SubSeq(path, 1, k) # << >>
             /\ Head(SubSeq(path, 1, k)) = path[1]
             /\ Tail(SubSeq(path, 1, k)) = SubSeq(Tail(path), 1, k - 1)
  <2>1. k \in Nat /\ k >= 1 /\ k <= Len(path) - 1 /\ Len(path) \in Nat
    BY <1>1
  <2>2. k + 1 \in DOMAIN path /\ Tail(path)[k] = path[k + 1]
    BY <2>1
  <2> DEFINE p == SubSeq(path, 1, k)
             q == SubSeq(Tail(path), 1, k - 1)
  <2>3. p \in Seq(STRING) /\ Len(p) = k /\ \A j \in 1 .. k : p[j] = path[j]
    BY <2>1
  <2>4. q \in Seq(STRING) /\ Len(q) = k - 1 /\ \A j \in 1 .. k - 1 : q[j] = path[j + 1]
    BY <1>1, <2>1
  <2>5. p # << >> /\ Head(p) = path[1]
    BY <2>1, <2>3
  <2> HIDE DEF p, q
  <2>6. Tail(p) \in Seq(STRING) /\ Len(Tail(p)) = k - 1 /\ \A j \in 1 .. k - 1 : Tail(p)[j] = path[j + 1]
    BY <2>1, <2>3, <2>5
  <2>7. Tail(p) = q
    BY <2>1, <2>4, <2>6
  <2> QED
    BY <2>2, <2>5, <2>7 DEF p, q
<1> QED
  BY <1>1, <1>2

LEMMA AlongPath ==
    ASSUME WalksUnfold, NEW schema, NEW value, NEW path \in Seq(STRING),
           Conforms(schema, value, 0), Resolve(schema, path) # NoSchema, Required(schema, path)
    PROVE  Leads(schema, value, path)
<1> DEFINE Bad(n) == \E sch, val, dep, p : Len(p) = n /\ Astray(sch, val, dep, p)
           T == {n \in Nat : Bad(n)}
<1> SUFFICES ASSUME ~Leads(schema, value, path) PROVE FALSE
  OBVIOUS
<1>1. Astray(schema, value, 0, path) /\ Len(path) \in Nat
  BY DEF Astray
<1>2. Len(path) \in T
  BY <1>1
<1>3. PICK n \in T : \A m \in T : n <= m
  <2> HIDE DEF T
  <2> QED
    <3>1. T \in SUBSET Nat
      BY DEF T
    <3> QED
      BY <1>2, <3>1, LeastNumber
<1>4. PICK s, v, d, p : Len(p) = n /\ Astray(s, v, d, p)
  BY <1>3
<1>5. \A s2, v2, d2, p2 : Astray(s2, v2, d2, p2) => n <= Len(p2)
  <2> SUFFICES ASSUME NEW s2, NEW v2, NEW d2, NEW p2, Astray(s2, v2, d2, p2) PROVE n <= Len(p2)
    OBVIOUS
  <2>1. Len(p2) \in Nat
    BY DEF Astray
  <2>2. Len(p2) \in T
    BY <2>1
  <2> QED
    BY <1>3, <2>2
<1> HIDE DEF T, Bad
<1>6. /\ Resolve(s, p) = ResolveLevel(s, p, Resolve)
      /\ At(v, p) = AtLevel(v, p, At)
      /\ Conforms(s, v, d) = ConformsLevel(s, v, d, Conforms)
  BY DEF WalksUnfold
<1>7. CASE p = << >>
  <2>1. Resolve(s, p) = s /\ At(v, p) = v
    BY <1>6, <1>7 DEF ResolveLevel, AtLevel
  <2> QED
    BY <1>4, <2>1 DEF Astray, Leads
<1>8. CASE p # << >>
  <2> DEFINE h == Head(p)
             below == s.properties[h]
  <2>1. p \in Seq(STRING)
    BY <1>4 DEF Astray
  <2>2. /\ s.is = "object" /\ h \in DOMAIN s.properties
        /\ Resolve(s, p) = Resolve(below, Tail(p))
    BY <1>4, <1>6, <1>8 DEF Astray, ResolveLevel
  <2>3. ConformsLevel(s, v, d, Conforms)
    BY <1>4, <1>6 DEF Astray
  <2>4. /\ v.is = "object" /\ s.required \subseteq DOMAIN v.fields
        /\ \A f \in DOMAIN v.fields :
              f \in DOMAIN s.properties => Conforms(s.properties[f], v.fields[f], d + 1)
    BY <2>2, <2>3 DEF ConformsLevel
  <2>5. Resolve(s, << >>) = s
    BY DEF WalksUnfold, ResolveLevel
  <2>6. p[1] \in Resolve(s, SubSeq(p, 1, 0)).required
    <3>1. 1 \in DOMAIN p /\ 1 - 1 = 0
      BY <1>8, <2>1, PrefixFacts
    <3> QED
      BY <1>4, <3>1 DEF Astray, Required
  <2>7. h \in DOMAIN v.fields
    <3>1. h = p[1] /\ SubSeq(p, 1, 0) = << >>
      BY <1>8, <2>1, PrefixFacts
    <3>2. p[1] \in s.required
      BY <2>5, <2>6, <3>1
    <3> QED
      BY <2>4, <3>1, <3>2
  <2>8. At(v, p) = At(v.fields[h], Tail(p))
    BY <1>6, <1>8, <2>4, <2>7 DEF AtLevel
  <2>9. Required(below, Tail(p))
    <3> SUFFICES ASSUME NEW k \in DOMAIN Tail(p)
                 PROVE  Tail(p)[k] \in Resolve(below, SubSeq(Tail(p), 1, k - 1)).required
      BY DEF Required
    <3>1. /\ k + 1 \in DOMAIN p /\ Tail(p)[k] = p[k + 1]
          /\ SubSeq(p, 1, k) # << >> /\ Head(SubSeq(p, 1, k)) = h
          /\ Tail(SubSeq(p, 1, k)) = SubSeq(Tail(p), 1, k - 1)
      BY <1>8, <2>1, PrefixFacts
    <3>2. (k + 1) - 1 = k
      BY <2>1, <1>8
    <3>3. p[k + 1] \in Resolve(s, SubSeq(p, 1, k)).required
      BY <1>4, <3>1, <3>2 DEF Astray, Required
    <3>4. Resolve(s, SubSeq(p, 1, k)) = ResolveLevel(s, SubSeq(p, 1, k), Resolve)
      BY DEF WalksUnfold
    <3>5. Resolve(s, SubSeq(p, 1, k)) = Resolve(below, SubSeq(Tail(p), 1, k - 1))
      BY <2>2, <3>1, <3>4 DEF ResolveLevel
    <3> QED
      BY <3>1, <3>3, <3>5
  <2>10. Astray(below, v.fields[h], d + 1, Tail(p))
    <3>1. Tail(p) \in Seq(STRING)
      BY <1>8, <2>1, PrefixFacts
    <3>2. Conforms(below, v.fields[h], d + 1)
      BY <2>2, <2>4, <2>7
    <3>3. Resolve(below, Tail(p)) # NoSchema
      BY <1>4, <2>2 DEF Astray
    <3>4. ~Leads(below, v.fields[h], Tail(p))
      BY <1>4, <2>2, <2>8 DEF Astray, Leads
    <3> QED
      BY <2>9, <3>1, <3>2, <3>3, <3>4 DEF Astray
  <2>11. n <= Len(Tail(p))
    BY <1>5, <2>10
  <2> QED
    BY <1>3, <1>4, <1>8, <2>1, <2>11, PrefixFacts DEF T
<1> QED
  BY <1>7, <1>8

-----------------------------------------------------------------------------
(* What the registry says of the props that can be bound.                  *)

Fits(kind, name, types) ==
    \/ name \in {"text", "label", "accessibilityLabel"} /\ types = {"string"}
    \/ name = "checked" /\ types = {"boolean"}
    \/ name = "value" /\ types = {"number"}
    \/ name = "items" /\ kind = "List"
    \/ name = "values" /\ kind = "Sparkline"
    \/ name = "name" /\ kind = "Icon"

FitProps(kind, props) ==
    \A p \in DOMAIN props : props[p].bindable => Fits(kind, p, props[p].types)

FitKinds(kinds) ==
    \A k \in DOMAIN kinds :
        IF kinds[k].control THEN k \in {"If", "ForEach"} ELSE FitProps(k, kinds[k].props)

LEMMA FitPropsMerge ==
    ASSUME NEW kind, NEW ps, NEW qs, FitProps(kind, ps), FitProps(kind, qs)
    PROVE  FitProps(kind, ps ++ qs)
  BY DEF FitProps, ++

LEMMA FitKindsMerge ==
    ASSUME NEW ks, NEW ms, FitKinds(ks), FitKinds(ms) PROVE FitKinds(ks ++ ms)
  BY DEF FitKinds, ++

LEMMA FitCommon == \A kind : FitProps(kind, CommonProps) /\ FitProps(kind, None)
<1>1. \A kind : FitProps(kind, [p \in {"padding", "gap", "width", "height", "opacity", "radius"} |->
                                  Style({"number"}, 0)])
  BY DEF FitProps, Style, Prop
<1>2. \A kind : FitProps(kind, [p \in {"color", "border"} |-> Style({"string"}, 0)])
  BY DEF FitProps, Style, Prop
<1>3. \A kind : FitProps(kind, None)
  BY DEF FitProps, None
<1> QED
  BY <1>1, <1>2, <1>3, FitPropsMerge DEF CommonProps

LEMMA FitElement ==
    ASSUME NEW kind, NEW since, NEW children, NEW props, NEW inputs, FitProps(kind, props)
    PROVE  /\ ~Element(since, children, props, inputs).control
           /\ FitProps(kind, Element(since, children, props, inputs).props)
<1>1. FitProps(kind, props ++ CommonProps)
  BY FitCommon, FitPropsMerge
<1> QED
  BY <1>1 DEF Element

LEMMA FitSpoken == \A kind : FitProps(kind, Spoken)
  BY DEF FitProps, Fits, Spoken, Prop

LEMMA FitLayouts == FitKinds(Layouts)
<1> DEFINE boxes == [k \in {"Row", "Column", "Stack", "Scroll"} |-> Element(0, "many", None, {})]
           grid == [columns |-> Style({"integer"}, 0)]
           resp == [breakpoint |-> Prop({"number"}, FALSE, 4, FALSE)]
           rest == [Grid |-> Element(0, "many", grid, {}),
                    Responsive |-> Element(4, "many", resp, {})]
<1>1. FitKinds(boxes)
  BY FitCommon, FitElement DEF FitKinds
<1>2. FitProps("Grid", grid) /\ FitProps("Responsive", resp)
  BY DEF FitProps, Style, Prop
<1> HIDE DEF grid, resp
<1>3. FitKinds(rest)
  BY <1>2, FitElement DEF FitKinds
<1> QED
  BY <1>1, <1>3, FitKindsMerge DEF Layouts, grid, resp

LEMMA FitContents == FitKinds(Contents)
<1> DEFINE text == [text |-> Content("string", 0), style |-> Style({"string"}, 0),
                    colorToken |-> Style({"string"}, 5)]
           icon == [name |-> Content("string", 0), size |-> Style({"number"}, 0)]
           image == [asset |-> Prop({"string"}, FALSE, 0, FALSE)]
<1>1. FitProps("Text", text) /\ FitProps("Icon", icon) /\ FitProps("Image", image)
  BY DEF FitProps, Fits, Content, Style, Prop
<1> HIDE DEF text, icon, image
<1>2. FitKinds([Text |-> Element(0, "forbidden", text, {}),
                Icon |-> Element(0, "forbidden", icon, {}),
                Image |-> Element(0, "forbidden", image, {})])
  BY <1>1, FitElement DEF FitKinds
<1> QED
  BY <1>2 DEF Contents, text, icon, image

LEMMA FitIndicators == FitKinds(Indicators)
<1> DEFINE value == [value |-> Content("number", 0)]
           label == [label |-> Content("string", 0)]
           checked == [checked |-> Content("boolean", 0)]
           badge == [label |-> Content("string", 0), tone |-> Style({"string"}, 0)]
           meters == [k \in {"Progress", "Gauge"} |->
                        Element(0, "forbidden", value ++ Spoken, {})]
           rest == [Button |-> Element(0, "forbidden", label, {"activate"}),
                    Toggle |-> Element(0, "forbidden", checked ++ Spoken, {"toggle"}),
                    Badge |-> Element(1, "forbidden", badge, {})]
<1>1. \A k : FitProps(k, value) /\ FitProps(k, label) /\ FitProps(k, checked) /\ FitProps(k, badge)
  BY DEF FitProps, Fits, Content, Style, Prop
<1> HIDE DEF value, label, checked, badge
<1>2. \A k : FitProps(k, value ++ Spoken) /\ FitProps(k, checked ++ Spoken)
  BY <1>1, FitSpoken, FitPropsMerge
<1>3. FitKinds(meters)
  BY <1>2, FitElement DEF FitKinds
<1>4. FitKinds(rest)
  BY <1>1, <1>2, FitElement DEF FitKinds
<1> QED
  BY <1>3, <1>4, FitKindsMerge DEF Indicators, value, label, checked, badge

LEMMA FitCollections == FitKinds(Collections)
<1> DEFINE list == [items |-> Prop({"array"}, TRUE, 2, TRUE)]
           spark == [values |-> Content("array", 3), label |-> Content("string", 3),
                     tone |-> Style({"string"}, 3)]
<1>1. FitProps("List", list) /\ FitProps("Sparkline", spark)
  BY DEF FitProps, Fits, Content, Style, Prop
<1> HIDE DEF list, spark
<1>2. FitKinds([List |-> Element(0, "many", list, {}),
                Sparkline |-> Element(3, "forbidden", spark, {})])
  BY <1>1, FitElement DEF FitKinds
<1> QED
  BY <1>2 DEF Collections, list, spark

LEMMA FitRegistry == FitKinds(Registry)
<1>1. FitKinds(Controls)
  BY DEF FitKinds, Controls
<1> QED
  BY <1>1, FitLayouts, FitContents, FitIndicators, FitCollections, FitKindsMerge DEF Registry

-----------------------------------------------------------------------------
(* The renderer declares a slot as what the validated path resolves to.    *)

Agrees(slot, target) ==
    \/ slot.type \in {"string", "boolean", "number"} /\ SchemaType(target) = slot.type
    \/ /\ slot.type = "string_list"
       /\ BoundedArray(target, {"string"}, MaxListItems)
    \/ /\ slot.type = "number_list"
       /\ BoundedArray(target, {"number", "integer"}, MaxChartPoints)

BoundAgrees(slot, schema) ==
    /\ Resolve(schema, slot.path) # NoSchema
    /\ Agrees(slot, Resolve(schema, slot.path))

LEMMA ElementSlotAgrees ==
    ASSUME NEW d, NEW node, NEW item, NEW s \in SlotsOf(node),
           node.kind \in DOMAIN Registry, ~Registry[node.kind].control,
           ValidElement(d, node, item), RendersNode(node)
    PROVE  BoundAgrees(s, d.schema) /\ \E p \in BoundProps(node) : s.path = node.props[p].binding.path
<1>1. PICK p \in BoundProps(node) : s \in Slot(node.props[p].binding, SlotType(node.kind, p))
  BY DEF SlotsOf
<1> DEFINE b == node.props[p].binding
           spec == Registry[node.kind]
           target == Resolve(d.schema, b.path)
<1>2. b.from = "state" /\ s.path = b.path /\ s.type = SlotType(node.kind, p)
  BY <1>1 DEF Slot
<1>3. /\ p \in DOMAIN spec.props /\ spec.props[p].bindable
      /\ ValidBinding(node.kind, p, b, d.schema, item)
  BY <1>1 DEF ValidElement, ValidProps, BoundProps
<1>4. BindingTarget(b, d.schema, item) = target /\ target # NoSchema
  BY <1>2, <1>3 DEF ValidBinding, BindingTarget
<1>5. /\ (node.kind = "List" /\ p = "items") => BoundedArray(target, {"string"}, MaxListItems)
      /\ (node.kind = "Sparkline" /\ p = "values") =>
            BoundedArray(target, {"number", "integer"}, MaxChartPoints)
      /\ SchemaType(target) \in spec.props[p].types
  BY <1>3, <1>4 DEF ValidBinding
<1>6. Fits(node.kind, p, spec.props[p].types)
  BY <1>3, FitRegistry DEF FitKinds, FitProps
<1>7. node.kind # "Icon"
  BY DEF RendersNode
<1> HIDE DEF b, spec, target
<1>8. Agrees(s, target)
  <2>1. CASE p \in {"text", "label", "accessibilityLabel"} /\ spec.props[p].types = {"string"}
    BY <2>1, <1>2, <1>5 DEF Agrees, SlotType
  <2>2. CASE p = "checked" /\ spec.props[p].types = {"boolean"}
    BY <2>2, <1>2, <1>5 DEF Agrees, SlotType
  <2>3. CASE p = "value" /\ spec.props[p].types = {"number"}
    BY <2>3, <1>2, <1>5 DEF Agrees, SlotType
  <2>4. CASE p = "items" /\ node.kind = "List"
    BY <2>4, <1>2, <1>5 DEF Agrees, SlotType
  <2>5. CASE p = "values" /\ node.kind = "Sparkline"
    BY <2>5, <1>2, <1>5 DEF Agrees, SlotType
  <2> QED
    BY <1>6, <1>7, <2>1, <2>2, <2>3, <2>4, <2>5 DEF Fits
<1> QED
  BY <1>1, <1>2, <1>4, <1>8 DEF BoundAgrees, b, target

LEMMA ControlSlotAgrees ==
    ASSUME NEW d, NEW node, NEW s \in SlotsOf(node),
           node.kind \in DOMAIN Registry, Registry[node.kind].control, node.kind # "ForEach",
           ValidControl(d, node)
    PROVE  /\ BoundAgrees(s, d.schema)
           /\ "when" \in DOMAIN node.control /\ s.path = node.control["when"].path
<1>1. node.kind = "If"
  BY FitRegistry DEF FitKinds
<1> DEFINE b == node.control["when"]
<1>2. s \in Slot(b, "boolean")
  BY <1>1 DEF SlotsOf, ControlSlots
<1>3. /\ "when" \in DOMAIN node.control /\ b.from = "state"
      /\ BindingTarget(b, d.schema, NoSchema).is = "boolean"
  BY <1>1 DEF ValidControl
<1> HIDE DEF b
<1>4. s.path = b.path /\ s.type = "boolean"
  BY <1>2, <1>3 DEF Slot
<1>5. BindingTarget(b, d.schema, NoSchema) # NoSchema
  BY <1>3 DEF NoSchema
<1>6. BindingTarget(b, d.schema, NoSchema) = Resolve(d.schema, s.path)
  BY <1>3, <1>4, <1>5 DEF BindingTarget
<1>7. SchemaType(Resolve(d.schema, s.path)) = "boolean"
  BY <1>3, <1>6 DEF SchemaType
<1> QED
  BY <1>3, <1>4, <1>5, <1>6, <1>7 DEF BoundAgrees, Agrees, b

LEMMA SlotAgrees ==
    ASSUME DInv, stage = "running", NEW s \in slots
    PROVE  BoundAgrees(s, doc.schema) /\ Parsed(s, doc.schema)
<1> DEFINE walk == Nodes(doc)
<1>1. /\ doc \in Docs /\ Renders(doc) /\ slots = Slots(walk)
      /\ \A i \in DOMAIN walk : walk[i].node.kind # "ForEach"
  BY DEF DInv, Stages, Compiles
<1>2. PICK i \in DOMAIN walk : s \in SlotsOf(walk[i].node)
  BY <1>1 DEF Slots
<1> DEFINE node == walk[i].node
<1>3. /\ node.kind \in DOMAIN Registry
      /\ IF Registry[node.kind].control THEN ValidControl(doc, node)
         ELSE ValidElement(doc, node, walk[i].item)
      /\ RendersNode(node)
  BY <1>1 DEF Renders, ValidDocument
<1>4. /\ \A p \in BoundProps(node) : Parsed(node.props[p].binding, doc.schema)
      /\ "when" \in DOMAIN node.control => Parsed(node.control["when"], doc.schema)
  BY <1>1, DocumentsAssumption
<1> HIDE DEF walk, node
<1>5. s \in SlotsOf(node) /\ node.kind # "ForEach"
  BY <1>1, <1>2 DEF node
<1>6. CASE Registry[node.kind].control
  BY <1>3, <1>4, <1>5, <1>6, ControlSlotAgrees DEF Parsed
<1>7. CASE ~Registry[node.kind].control
  BY <1>3, <1>4, <1>5, <1>7, ElementSlotAgrees DEF Parsed
<1> QED
  BY <1>6, <1>7

-----------------------------------------------------------------------------
(* The values.  V stands for the JSON values: it is closed under the parts *)
(* of arrays and objects and under patches, and the States and patches of  *)
(* the guests are in it.                                                   *)

JsonValues(V) ==
    /\ Null \in V
    /\ \A v \in V : v.is = "array" => v.items \in Seq(V)
    /\ \A v \in V : v.is = "object" => \A f \in DOMAIN v.fields : v.fields[f] \in V
    /\ \A v, p \in V : MergePatch(v, p) \in V
    /\ \A d \in Docs : d.initial \in V /\ Patches(d) \subseteq V

Typed(V) ==
    /\ doc \in Docs
    /\ json \in V
    /\ queued \in Seq(V)

LEMMA TypedInv == ASSUME NEW CONSTANT V, JsonValues(V) PROVE DocumentSpec => []Typed(V)
<1>1. DocumentInit => Typed(V)
  BY DEF DocumentInit, Typed, JsonValues
<1>2. Typed(V) /\ [DocumentNext]_docVars => Typed(V)'
  <2> SUFFICES ASSUME Typed(V), [DocumentNext]_docVars PROVE Typed(V)'
    OBVIOUS
  <2> USE DEF Typed
  <2>1. CASE Prepare
    BY <2>1 DEF Prepare, JsonValues
  <2>2. CASE Compile
    BY <2>2 DEF Compile
  <2>3. CASE OpenWindow
    BY <2>3 DEF OpenWindow
  <2>4. ASSUME NEW p \in Patches(doc), Submit(p) PROVE Typed(V)'
    <3> DEFINE next == MergePatch(json, p)
    <3>1. next \in V
      BY <2>4 DEF JsonValues
    <3>2. json' \in {json, next} /\ queued' \in {queued, Append(queued, next)} /\ doc' = doc
      BY <2>4 DEF Submit
    <3> QED
      BY <3>1, <3>2
  <2>5. CASE NextSecond
    BY <2>5 DEF NextSecond
  <2>6. CASE ProjectNext
    BY <2>6 DEF ProjectNext
  <2>7. CASE UNCHANGED docVars
    BY <2>7 DEF docVars
  <2> QED
    BY <2>1, <2>2, <2>3, <2>4, <2>5, <2>6, <2>7 DEF DocumentNext
<1> QED
  BY <1>1, <1>2, PTL DEF DocumentSpec

LEMMA AtTyped ==
    ASSUME WalksUnfold, NEW V, JsonValues(V), NEW value \in V, NEW path \in Seq(STRING)
    PROVE  At(value, path) \in V \cup {Missing}
<1> DEFINE Bad(n) == \E v \in V, p \in Seq(STRING) :
                         Len(p) = n /\ At(v, p) \notin V \cup {Missing}
           T == {n \in Nat : Bad(n)}
<1> SUFFICES ASSUME At(value, path) \notin V \cup {Missing} PROVE FALSE
  OBVIOUS
<1>1. Len(path) \in T /\ T \in SUBSET Nat
  OBVIOUS
<1>2. PICK n \in T : \A m \in T : n <= m
  <2> HIDE DEF T
  <2> QED
    BY <1>1, LeastNumber
<1>3. PICK v \in V, p \in Seq(STRING) : Len(p) = n /\ At(v, p) \notin V \cup {Missing}
  BY <1>2
<1>4. ASSUME NEW v2 \in V, NEW p2 \in Seq(STRING), At(v2, p2) \notin V \cup {Missing}
      PROVE  n <= Len(p2)
  BY <1>2, <1>4
<1> HIDE DEF T, Bad
<1>5. At(v, p) = AtLevel(v, p, At)
  BY DEF WalksUnfold
<1>6. /\ p # << >> /\ v.is = "object" /\ Head(p) \in DOMAIN v.fields
      /\ At(v, p) = At(v.fields[Head(p)], Tail(p))
  BY <1>3, <1>5 DEF AtLevel
<1>7. v.fields[Head(p)] \in V
  BY <1>6 DEF JsonValues
<1>8. Tail(p) \in Seq(STRING) /\ Len(Tail(p)) < Len(p) /\ Len(p) \in Nat /\ Len(Tail(p)) \in Nat
  BY <1>6
<1>9. n <= Len(Tail(p))
  BY <1>3, <1>4, <1>6, <1>7, <1>8
<1> QED
  BY <1>3, <1>8, <1>9

LEMMA AgreesProjects ==
    ASSUME WalksUnfold, NEW schema, NEW value, NEW s, NEW V, JsonValues(V),
           value \in V, Conforms(schema, value, 0), Required(schema, s.path),
           BoundAgrees(s, schema), Parsed(s, schema)
    PROVE  Projects(s, value)
<1> DEFINE target == Resolve(schema, s.path)
           v == At(value, s.path)
<1>1. s.path \in Seq(STRING) /\ target # NoSchema /\ Agrees(s, target)
      /\ (target.is = "array" => target.max \in Nat \cup {Unlimited})
  BY DEF BoundAgrees, Parsed
<1>2. PICK d : Conforms(target, v, d)
  BY <1>1, AlongPath DEF Leads
<1>3. ConformsLevel(target, v, d, Conforms)
  BY <1>2 DEF WalksUnfold
<1>4. v \in V \cup {Missing}
  BY <1>1, AtTyped
<1> HIDE DEF target, v
<1>5. CASE s.type \in {"string", "boolean", "number"} /\ SchemaType(target) = s.type
  <2>1. v.is = s.type
    BY <1>3, <1>5 DEF ConformsLevel, SchemaType
  <2> QED
    BY <1>5, <2>1 DEF Projects, v
<1>6. ASSUME NEW types, NEW most \in Nat, BoundedArray(target, types, most)
      PROVE  /\ v.is = "array" /\ Len(v.items) <= most
             /\ \A i \in DOMAIN v.items : Conforms(target.of, v.items[i], d + 1)
  <2>1. /\ v.is = "array" /\ Len(v.items) <= target.max
        /\ \A i \in DOMAIN v.items : Conforms(target.of, v.items[i], d + 1)
    BY <1>3, <1>6 DEF ConformsLevel, BoundedArray, Within
  <2>2. v # Missing
    BY <2>1 DEF Missing
  <2>3. v.items \in Seq(V)
    BY <1>4, <2>1, <2>2 DEF JsonValues
  <2>4. target.max \in Nat /\ target.max <= most
    BY <1>1, <1>6 DEF BoundedArray
  <2> QED
    BY <2>1, <2>3, <2>4
<1>7. ASSUME NEW item, NEW dep, Conforms(target.of, item, dep)
      PROVE  /\ target.of.is = "string" => item.is = "string"
             /\ target.of.is \in {"number", "integer"} => item.is = "number"
  <2>1. ConformsLevel(target.of, item, dep, Conforms)
    BY <1>7 DEF WalksUnfold
  <2>2. CASE target.of.is = "string"
    BY <2>1, <2>2 DEF ConformsLevel
  <2>3. CASE target.of.is \in {"number", "integer"}
    BY <2>1, <2>3 DEF ConformsLevel
  <2> QED
    BY <2>2, <2>3
<1>8. CASE s.type = "string_list" /\ BoundedArray(target, {"string"}, MaxListItems)
  <2>1. MaxListItems \in Nat /\ target.of.is = "string"
    BY <1>8, DocumentsAssumption DEF BoundedArray
  <2> QED
    BY <1>6, <1>7, <1>8, <2>1 DEF Projects, v
<1>9. CASE s.type = "number_list" /\ BoundedArray(target, {"number", "integer"}, MaxChartPoints)
  <2>1. MaxChartPoints \in Nat /\ target.of.is \in {"number", "integer"}
    BY <1>9, DocumentsAssumption DEF BoundedArray
  <2> QED
    BY <1>6, <1>7, <1>9, <2>1 DEF Projects, v
<1> QED
  BY <1>1, <1>5, <1>8, <1>9 DEF Agrees

\* Validation, renderer and shell agree: every State the host accepts can be projected through every
\* slot whose path the schema requires (validate.rs:291-390,
\* render.rs:1160-1190, runtime_ui.rs:1104-1125).  V is the
\* set of JSON values.
THEOREM EveryStateProjects ==
    ASSUME NEW CONSTANT V, WalksUnfold, JsonValues(V)
    PROVE  DocumentSpec => []ProjectsEveryState
<1>1. DInv /\ Typed(V) => ProjectsEveryState
  <2> SUFFICES ASSUME DInv, Typed(V), stage = "running",
                      NEW value \in {json} \cup Range(queued), NEW s \in slots,
                      Required(doc.schema, s.path)
               PROVE  Projects(s, value)
    BY DEF ProjectsEveryState
  <2>1. value \in V /\ Conforms(doc.schema, value, 0)
    BY DEF DInv, Typed, Accepted, Range
  <2>2. BoundAgrees(s, doc.schema) /\ Parsed(s, doc.schema)
    BY SlotAgrees
  <2> QED
    BY <2>1, <2>2, AgreesProjects
<1>2. DocumentSpec => []DInv
  BY DocumentInvariant
<1>3. DocumentSpec => []Typed(V)
  BY TypedInv
<1> QED
  BY <1>1, <1>2, <1>3, PTL
=============================================================================
