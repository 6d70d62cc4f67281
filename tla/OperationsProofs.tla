--------------------------- MODULE OperationsProofs ---------------------------
(***************************************************************************)
(* Theorems about Operations, for every number of operations, capability   *)
(* set, queue length and limit.                                            *)
(***************************************************************************)
EXTENDS Operations, FiniteSetTheorems, TLAPS

(***************************************************************************)
(* Types.                                                                  *)
(***************************************************************************)
\* Every variable keeps its type, whatever task moves.
LEMMA TypeStep == TypeOK /\ [Next]_vars => TypeOK'
<1> SUFFICES ASSUME TypeOK, [Next]_vars PROVE TypeOK'
    OBVIOUS
<1> USE LimitsAssumption, CapabilityAssumption DEF TypeOK, Ids, Stages, Waiting, Executing,
        Finishing, Travelling, Settled, Terminals, Failures, cancelVars, taskVars,
        actorVars, idVars
<1>1. CASE Guest
  <2>1. ASSUME NEW c \in Capabilities, Submit(c) PROVE TypeOK'
    <3>1. nextId \in Ids
          BY <2>1 DEF Submit
    <3>2. Append(jobs, nextId) \in Seq(Ids)
          BY <3>1
    <3>3. jobs' \in Seq(Ids) /\ active' \subseteq Ids /\ stage' \in [Ids -> Stages]
          BY <2>1, <3>1, <3>2 DEF Submit
    <3>4. cap' \in [Ids -> Capabilities] /\ nextId' \in 1..(MaxOps + 1)
          BY <2>1, <3>1 DEF Submit
    <3> QED BY <2>1, <3>3, <3>4 DEF Submit
  <2>2. ASSUME NEW i \in Ids, Cancel(i) PROVE TypeOK'
        BY <2>2 DEF Cancel
  <2>3. ASSUME NEW i \in Ids, NEW c \in Capabilities, Take(i, c) PROVE TypeOK'
        BY <2>3 DEF Take
  <2> QED BY <1>1, <2>1, <2>2, <2>3 DEF Guest
<1>2. CASE HostSends(Call) \/ HostSends(Shutdown)
  <2>1. Call \in Commands /\ Shutdown \in Commands
        BY DEF Commands
  <2>2. \A cmd \in Commands : Append(cmdq, cmd) \in Seq(Commands)
        OBVIOUS
  <2> QED BY <1>2, <2>1, <2>2 DEF HostSends
<1>3. CASE Dispatcher
  <2>1. CASE AcquirePermit BY <2>1 DEF AcquirePermit
  <2>2. CASE SpawnWorker
    <3>1. Head(jobs) \in Ids /\ Tail(jobs) \in Seq(Ids)
          BY <2>2 DEF SpawnWorker
    <3> QED BY <2>2, <3>1 DEF SpawnWorker
  <2>3. CASE DispatcherEnds BY <2>3 DEF DispatcherEnds
  <2> QED BY <1>3, <2>1, <2>2, <2>3 DEF Dispatcher
<1>4. ASSUME NEW i \in Ids, Worker(i) \/ WorkEnds(i) \/ Expire(i) PROVE TypeOK'
  <2>1. \A from, to \in Stages : Advance(i, from, to) => TypeOK'
        BY DEF Advance
  <2>2. \A from \in Stages, f \in Failures : Fail(i, from, f) => TypeOK'
        BY DEF Fail
  <2>3. CASE CheckDeadline(i) BY <2>1, <2>2, <2>3 DEF CheckDeadline
  <2>4. CASE FirstCheck(i) BY <2>1, <2>2, <2>4 DEF FirstCheck
  <2>5. CASE CreateNotified(i) BY <2>1, <2>5 DEF CreateNotified
  <2>6. CASE SecondCheck(i) BY <2>1, <2>2, <2>6 DEF SecondCheck
  <2>7. CASE DeadlineHit(i) BY <2>2, <2>7 DEF DeadlineHit
  <2>8. CASE Park(i) BY <2>1, <2>8 DEF Park
  <2>9. CASE Wake(i) BY <2>1, <2>2, <2>9 DEF Wake
  <2>10. CASE Deactivate(i) BY <2>10 DEF Deactivate
  <2>11. CASE SendCompletion(i)
    <3>1. Append(completions, i) \in Seq(Ids)
          OBVIOUS
    <3>2. completions' \in Seq(Ids) /\ results' \subseteq Ids /\ stage' \in [Ids -> Stages]
          BY <2>11, <3>1 DEF SendCompletion
    <3>3. permits' \in Nat /\ UNCHANGED <<idVars, active, cancelVars, expired, jobs,
                  submitOpen, disp, terminal, relay, actorVars>>
          BY <2>11 DEF SendCompletion
    <3> QED BY <3>2, <3>3
  <2>12. CASE FinishOk(i) BY <2>12 DEF FinishOk
  <2>13. CASE FinishErr(i) BY <2>2, <2>13 DEF FinishErr
  <2>14. CASE Expire(i) BY <2>14 DEF Expire
  <2> QED BY <1>4, <2>3, <2>4, <2>5, <2>6, <2>7, <2>8, <2>9, <2>10, <2>11, <2>12, <2>13,
             <2>14 DEF Worker, WorkEnds
<1>5. CASE Relay
  <2>1. CASE RelayReceive
    <3>1. Head(completions) \in Ids /\ Tail(completions) \in Seq(Ids)
          BY <2>1 DEF RelayReceive
    <3> QED BY <2>1, <3>1 DEF RelayReceive
  <2>2. CASE RelayEnds BY <2>2 DEF RelayEnds
  <2>3. ASSUME NEW i \in Ids, RelayRoute(i) PROVE TypeOK'
    <3>1. Completed(i) \in Commands BY DEF Commands
    <3>2. Append(cmdq, Completed(i)) \in Seq(Commands) BY <3>1
    <3>3. cmdq' \in Seq(Commands) /\ stage' \in [Ids -> Stages]
          BY <2>3, <3>2 DEF RelayRoute
    <3> QED BY <2>3, <3>3 DEF RelayRoute
  <2>4. ASSUME NEW i \in Ids, RelayDiscard(i) PROVE TypeOK' BY <2>4 DEF RelayDiscard
  <2>5. ASSUME NEW i \in Ids, RelayStops(i) PROVE TypeOK'
    <3>1. \A j \in Ids : stage[j] \in Stages /\ {"dropped", "lost"} \subseteq Stages
          BY DEF Stages
    <3>2. stage' \in [Ids -> Stages]
          BY <2>5, <3>1 DEF RelayStops
    <3>3. completions' \in Seq(Ids) /\ relay' \in {"recv", "route", "ended"} /\ results' \subseteq Ids
          BY <2>5 DEF RelayStops
    <3>4. UNCHANGED <<idVars, active, cancelVars, expired, taskVars, terminal, actorVars>>
          BY <2>5 DEF RelayStops
    <3> QED BY <3>2, <3>3, <3>4
  <2> QED BY <1>5, <2>1, <2>2, <2>3, <2>4, <2>5 DEF Relay
<1>6. CASE CallbackEnds
  <2>1. \A from, to \in ActorStates : ActorMoves(from, to) => TypeOK'
        BY DEF ActorMoves
  <2>2. CASE \E ok \in BOOLEAN : ConstructorReturns(ok)
        BY <2>1, <2>2 DEF ConstructorReturns, ActorStates, Serving
  <2>3. CASE CallbackReturns BY <2>1, <2>3 DEF CallbackReturns, ActorStates, Serving
  <2>4. CASE CallbackFails BY <2>4 DEF CallbackFails, DrainPending, ActorStates
  <2>5. CASE StopReturns BY <2>1, <2>5 DEF StopReturns, ActorStates
  <2> QED BY <1>6, <2>2, <2>3, <2>4, <2>5 DEF CallbackEnds
<1>7. CASE ActorStep
  <2>1. CASE ActorReceives
    <3>1. Head(cmdq) \in Commands /\ Tail(cmdq) \in Seq(Commands)
          BY <2>1 DEF ActorReceives
    <3>2. Head(cmdq).kind = "completed" => Head(cmdq).id \in Ids
          BY <3>1 DEF Commands, Completed, Call, Shutdown
    <3> QED BY <2>1, <3>1, <3>2 DEF ActorReceives, NotifiedGuest, ActorStates, Serving
  <2>2. CASE CancelAll BY <2>2 DEF CancelAll, ActorStates
  <2>3. CASE DropRegistry BY <2>3 DEF DropRegistry, ActorStates
  <2>4. CASE CloseCommands BY <2>4 DEF CloseCommands, DrainPending, ActorStates
  <2>5. ASSUME NEW i \in Ids, NotifyWaiters(i) PROVE TypeOK' BY <2>5 DEF NotifyWaiters
  <2> QED BY <1>7, <2>1, <2>2, <2>3, <2>4, <2>5 DEF ActorStep
<1>8. CASE UNCHANGED vars BY <1>8 DEF vars
<1> QED BY <1>1, <1>2, <1>3, <1>4, <1>5, <1>6, <1>7, <1>8 DEF Next

\* Type correctness of the whole pipeline.
THEOREM TypeCorrect == Spec => []TypeOK
<1>1. Init => TypeOK
  BY LimitsAssumption, CapabilityAssumption
     DEF Init, TypeOK, Ids, Stages, Terminals, ActorStates, Serving
<1> QED BY <1>1, TypeStep, PTL DEF Spec
-----------------------------------------------------------------------------
(***************************************************************************)
(* The channels: each of the three queues holds exactly operations that    *)
(* stand at that stage, each once, so the task that receives one is the    *)
(* only one that can move it.                                              *)
(***************************************************************************)
Fresh == \A i \in Ids : i >= nextId => stage[i] = "absent"

Distinct(seq) == \A k, l \in 1..Len(seq) : seq[k] = seq[l] => k = l

JobsQueued ==
    /\ \A k \in 1..Len(jobs) : stage[jobs[k]] = "queued"
    /\ Distinct(jobs)

CompletionsSent ==
    /\ \A k \in 1..Len(completions) : stage[completions[k]] = "sent"
    /\ Distinct(completions)

CommandsEnqueued ==
    /\ \A k \in 1..Len(cmdq) :
          cmdq[k].kind = "completed" => stage[cmdq[k].id] = "enqueued"
    /\ \A k, l \in 1..Len(cmdq) :
          cmdq[k].kind = "completed" /\ cmdq[l] = cmdq[k] => k = l

Channels == Fresh /\ JobsQueued /\ CompletionsSent /\ CommandsEnqueued

\* A queue of distinct elements stays so when a new one is appended.
LEMMA AppendDistinct ==
    ASSUME NEW S, NEW seq \in Seq(S), Distinct(seq), NEW e \in S,
           \A k \in 1..Len(seq) : seq[k] # e
    PROVE  Distinct(Append(seq, e))
BY DEF Distinct

\* What is left after a receive is distinct and does not hold what was received.
LEMMA TailDistinct ==
    ASSUME NEW S, NEW seq \in Seq(S), Distinct(seq), seq # <<>>
    PROVE  /\ Distinct(Tail(seq))
           /\ \A k \in 1..Len(Tail(seq)) : Tail(seq)[k] = seq[k + 1] /\ k + 1 \in 1..Len(seq)
           /\ \A k \in 1..Len(Tail(seq)) : Tail(seq)[k] # Head(seq)
           /\ Head(seq) = seq[1] /\ 1 \in 1..Len(seq)
<1>1. /\ Len(seq) \in Nat \ {0} /\ Len(Tail(seq)) = Len(seq) - 1 /\ Head(seq) = seq[1]
      /\ \A k \in 1..Len(Tail(seq)) : Tail(seq)[k] = seq[k + 1]
  OBVIOUS
<1> QED BY <1>1 DEF Distinct

\* Every step keeps every channel in agreement with the stages.
LEMMA ChannelsStep == TypeOK /\ Channels /\ [Next]_vars => Channels'
<1> SUFFICES ASSUME TypeOK, Channels, [Next]_vars PROVE Channels'
    OBVIOUS
<1> USE LimitsAssumption DEF Channels
<1>0. /\ \A k \in 1..Len(jobs) : jobs[k] \in Ids
      /\ \A k \in 1..Len(completions) : completions[k] \in Ids
      /\ \A k \in 1..Len(cmdq) : cmdq[k] \in Commands
      /\ \A k \in 1..Len(cmdq) : cmdq[k].kind = "completed" => cmdq[k].id \in Ids
      /\ nextId \in Nat /\ Ids \subseteq Nat /\ nextId' \in Nat
      /\ stage \in [Ids -> Stages]
  <2>1. TypeOK' BY TypeStep
  <2>2. nextId' \in Nat BY <2>1 DEF TypeOK
  <2>3. \A cmd \in Commands : cmd.kind = "completed" => cmd.id \in Ids
        BY DEF Commands, Call, Shutdown, Completed
  <2>4. \A k \in 1..Len(cmdq) : cmdq[k] \in Commands
        BY DEF TypeOK
  <2> QED BY <2>2, <2>3, <2>4, SMTT(30) DEF TypeOK, Ids
\* A step that leaves the channels alone and moves only operations in none.
<1>1. ASSUME UNCHANGED <<nextId, jobs, completions, cmdq>>,
             \A j \in Ids : stage[j] \in {"absent", "queued", "sent", "enqueued"}
                                => stage'[j] = stage[j]
      PROVE  Channels'
  <2>1. Fresh'
        BY <1>0, <1>1 DEF Fresh
  <2>2. JobsQueued'
        BY <1>0, <1>1 DEF JobsQueued, Distinct
  <2>3. CompletionsSent'
        BY <1>0, <1>1 DEF CompletionsSent, Distinct
  <2>4. CommandsEnqueued'
        BY <1>0, <1>1 DEF CommandsEnqueued
  <2> QED BY <2>1, <2>2, <2>3, <2>4
<1>2. CASE UNCHANGED <<nextId, jobs, completions, cmdq, stage>>
  BY <1>1, <1>2
<1>3. ASSUME NEW i \in Ids, NEW to, stage[i] \notin {"absent", "queued", "sent", "enqueued"},
             stage' = [stage EXCEPT ![i] = to], UNCHANGED <<nextId, jobs, completions, cmdq>>
      PROVE  Channels'
  BY <1>0, <1>1, <1>3
<1>4. CASE Guest
  <2>1. ASSUME NEW c \in Capabilities, Submit(c) PROVE Channels'
    <3>1. nextId \in Ids /\ stage[nextId] = "absent" /\ nextId' = nextId + 1
          BY <2>1, <1>0 DEF Submit, Fresh, TypeOK, Ids
    <3>2. UNCHANGED <<completions, cmdq>>
          BY <2>1 DEF Submit, actorVars
    <3>3. CASE UNCHANGED <<jobs, stage>>
      <4>1. \A i \in Ids : i >= nextId' => i >= nextId
            BY ONLY <1>0, <3>1
      <4>2. Fresh'
            BY <3>3, <4>1 DEF Fresh
      <4>3. JobsQueued' /\ CompletionsSent' /\ CommandsEnqueued'
            BY <3>2, <3>3 DEF JobsQueued, CompletionsSent, CommandsEnqueued
      <4> QED BY <4>2, <4>3
    <3>4. CASE jobs' = Append(jobs, nextId) /\ stage' = [stage EXCEPT ![nextId] = "queued"]
      <4>1. \A k \in 1..Len(jobs) : jobs[k] # nextId
            BY <3>1 DEF JobsQueued
      <4>2. Distinct(jobs')
            BY <3>1, <3>4, <4>1, AppendDistinct DEF JobsQueued, TypeOK
      <4>3. \A k \in 1..Len(jobs') : jobs'[k] = nextId \/ (k \in 1..Len(jobs) /\ jobs'[k] = jobs[k])
            BY <3>4, <3>1 DEF TypeOK
      <4>4. JobsQueued'
            BY <1>0, <3>1, <3>4, <4>2, <4>3 DEF JobsQueued
      <4>5. Fresh' BY <1>0, <3>1, <3>4 DEF Fresh
      <4>6. CompletionsSent' /\ CommandsEnqueued'
            BY <1>0, <3>1, <3>2, <3>4 DEF CompletionsSent, CommandsEnqueued, Distinct
      <4> QED BY <4>4, <4>5, <4>6
    <3> QED BY <2>1, <3>3, <3>4 DEF Submit
  <2>2. ASSUME NEW i \in Ids, Cancel(i) PROVE Channels'
        BY <1>2, <2>2 DEF Cancel, idVars, taskVars, actorVars
  <2>3. ASSUME NEW i \in Ids, NEW c \in Capabilities, Take(i, c) PROVE Channels'
        BY <1>2, <2>3 DEF Take, idVars, taskVars
  <2> QED BY <1>4, <2>1, <2>2, <2>3 DEF Guest
<1>5. CASE HostSends(Call) \/ HostSends(Shutdown)
  <2>1. PICK cmd \in {Call, Shutdown} : cmdq' = Append(cmdq, cmd)
        BY <1>5 DEF HostSends
  <2>2. cmd \in Commands /\ cmd.kind # "completed"
        BY DEF Commands, Call, Shutdown
  <2>3. \A k \in 1..Len(cmdq') : cmdq'[k] = cmd \/ (k \in 1..Len(cmdq) /\ cmdq'[k] = cmdq[k])
        BY <2>1, <2>2 DEF TypeOK
  <2>4. UNCHANGED <<nextId, jobs, completions, stage>>
        BY <1>5 DEF HostSends, idVars, taskVars
  <2>5. CommandsEnqueued'
        BY <2>2, <2>3, <2>4 DEF CommandsEnqueued
  <2> QED BY <2>4, <2>5 DEF Fresh, JobsQueued, CompletionsSent, Distinct
<1>6. CASE Dispatcher
  <2>1. CASE AcquirePermit BY <1>2, <2>1 DEF AcquirePermit, idVars, actorVars
  <2>2. CASE SpawnWorker
    <3>1. UNCHANGED <<nextId, completions, cmdq>> /\ jobs' = Tail(jobs) /\ jobs # <<>>
          /\ stage' = [stage EXCEPT ![Head(jobs)] = "spawned"]
          BY <2>2 DEF SpawnWorker, idVars, actorVars
    <3>2. jobs \in Seq(Ids) /\ Distinct(jobs) BY DEF TypeOK, JobsQueued
    <3>3. /\ Distinct(jobs')
          /\ \A k \in 1..Len(jobs') : jobs'[k] = jobs[k + 1] /\ k + 1 \in 1..Len(jobs)
          /\ \A k \in 1..Len(jobs') : jobs'[k] # Head(jobs)
          /\ Head(jobs) = jobs[1] /\ 1 \in 1..Len(jobs)
          BY <3>1, <3>2, TailDistinct
    <3>4. Head(jobs) \in Ids /\ stage[Head(jobs)] = "queued"
          BY <1>0, <3>3 DEF JobsQueued
    <3>5. JobsQueued' BY <1>0, <3>1, <3>3, <3>4 DEF JobsQueued
    <3>6. Fresh' BY <1>0, <3>1, <3>4 DEF Fresh
    <3>7. CompletionsSent' /\ CommandsEnqueued'
          BY <1>0, <3>1, <3>4 DEF CompletionsSent, CommandsEnqueued, Distinct
    <3> QED BY <3>5, <3>6, <3>7
  <2>3. CASE DispatcherEnds BY <1>2, <2>3 DEF DispatcherEnds, idVars, actorVars
  <2> QED BY <1>6, <2>1, <2>2, <2>3 DEF Dispatcher
<1>7. ASSUME NEW i \in Ids, Worker(i) \/ WorkEnds(i) \/ Expire(i) PROVE Channels'
  <2> USE DEF idVars, taskVars, actorVars
  <2>1. \A from \in Executing, to \in Stages : Advance(i, from, to) => Channels'
        BY <1>3 DEF Advance, Executing
  <2>2. \A from \in Executing, f \in Failures : Fail(i, from, f) => Channels'
        BY <1>3 DEF Fail, Executing
  <2> USE DEF Executing, Stages, Failures
  <2>3. CASE CheckDeadline(i) BY <2>1, <2>2, <2>3 DEF CheckDeadline
  <2>4. CASE FirstCheck(i) BY <2>1, <2>2, <2>4 DEF FirstCheck
  <2>5. CASE CreateNotified(i) BY <2>1, <2>5 DEF CreateNotified
  <2>6. CASE SecondCheck(i) BY <2>1, <2>2, <2>6 DEF SecondCheck
  <2>7. CASE DeadlineHit(i) BY <2>2, <2>7 DEF DeadlineHit
  <2>8. CASE Park(i) BY <2>1, <2>8 DEF Park
  <2>9. CASE Wake(i) BY <2>1, <2>2, <2>9 DEF Wake
  <2>10. CASE Deactivate(i) BY <1>3, <2>10 DEF Deactivate
  <2>11. CASE SendCompletion(i)
    <3>1. UNCHANGED <<nextId, jobs, cmdq>> /\ stage[i] = "send"
          BY <2>11 DEF SendCompletion
    <3>2. CASE stage' = [stage EXCEPT ![i] = "dropped"] /\ UNCHANGED completions
          BY <1>3, <3>1, <3>2
    <3>3. CASE stage' = [stage EXCEPT ![i] = "sent"] /\ completions' = Append(completions, i)
      <4>1. \A k \in 1..Len(completions) : completions[k] # i
            BY <3>1 DEF CompletionsSent
      <4>2. Distinct(completions')
            BY <3>3, <4>1, AppendDistinct DEF CompletionsSent, TypeOK
      <4>3. \A k \in 1..Len(completions') :
              completions'[k] = i \/ (k \in 1..Len(completions) /\ completions'[k] = completions[k])
            BY <3>3 DEF TypeOK
      <4>4. CompletionsSent' BY <1>0, <3>3, <4>2, <4>3 DEF CompletionsSent
      <4>5. Fresh' /\ JobsQueued' /\ CommandsEnqueued'
            BY <1>0, <3>1, <3>3 DEF Fresh, JobsQueued, CommandsEnqueued, Distinct
      <4> QED BY <4>4, <4>5
    <3> QED BY <2>11, <3>2, <3>3 DEF SendCompletion
  <2>12. CASE FinishOk(i) BY <1>3, <2>12 DEF FinishOk
  <2>13. CASE FinishErr(i) BY <2>2, <2>13 DEF FinishErr
  <2>14. CASE Expire(i) BY <1>2, <2>14 DEF Expire
  <2> QED BY <1>7, <2>3, <2>4, <2>5, <2>6, <2>7, <2>8, <2>9, <2>10, <2>11, <2>12, <2>13,
             <2>14 DEF Worker, WorkEnds
<1>8. CASE Relay
  <2> USE DEF idVars, taskVars, actorVars
  <2>1. CASE RelayReceive
    <3>1. /\ UNCHANGED <<nextId, jobs, cmdq>> /\ completions' = Tail(completions)
          /\ completions # <<>> /\ stage' = [stage EXCEPT ![Head(completions)] = "routing"]
          BY <2>1 DEF RelayReceive
    <3>2. completions \in Seq(Ids) /\ Distinct(completions) BY DEF TypeOK, CompletionsSent
    <3>3. /\ Distinct(completions')
          /\ \A k \in 1..Len(completions') :
                completions'[k] = completions[k + 1] /\ k + 1 \in 1..Len(completions)
          /\ \A k \in 1..Len(completions') : completions'[k] # Head(completions)
          /\ Head(completions) = completions[1] /\ 1 \in 1..Len(completions)
          BY <3>1, <3>2, TailDistinct
    <3>4. Head(completions) \in Ids /\ stage[Head(completions)] = "sent"
          BY <1>0, <3>3 DEF CompletionsSent
    <3>5. CompletionsSent' BY <1>0, <3>1, <3>3, <3>4 DEF CompletionsSent
    <3>6. Fresh' /\ JobsQueued' /\ CommandsEnqueued'
          BY <1>0, <3>1, <3>4 DEF Fresh, JobsQueued, CommandsEnqueued, Distinct
    <3> QED BY <3>5, <3>6
  <2>2. CASE RelayEnds BY <1>2, <2>2 DEF RelayEnds
  <2>3. ASSUME NEW i \in Ids, RelayRoute(i) PROVE Channels'
    <3>1. UNCHANGED <<nextId, jobs, completions>> /\ stage[i] = "routing"
          BY <2>3 DEF RelayRoute
    <3>2. CASE UNCHANGED cmdq /\ \E to : stage' = [stage EXCEPT ![i] = to]
          BY <1>3, <3>1, <3>2
    <3>3. CASE cmdq' = Append(cmdq, Completed(i)) /\ stage' = [stage EXCEPT ![i] = "enqueued"]
      <4>1. Completed(i) \in Commands /\ Completed(i).id = i /\ Completed(i).kind = "completed"
            BY DEF Commands, Completed
      <4>2. \A k \in 1..Len(cmdq) : cmdq[k] # Completed(i)
            BY <3>1, <4>1 DEF CommandsEnqueued
      <4>3. /\ Len(cmdq') = Len(cmdq) + 1 /\ Len(cmdq) \in Nat
            /\ \A k \in 1..Len(cmdq') : (k = Len(cmdq) + 1 /\ cmdq'[k] = Completed(i))
                                         \/ (k \in 1..Len(cmdq) /\ cmdq'[k] = cmdq[k])
            BY <3>3, <4>1 DEF TypeOK
      <4>4. \A k, l \in 1..Len(cmdq') :
              cmdq'[k].kind = "completed" /\ cmdq'[l] = cmdq'[k] => k = l
            BY <4>1, <4>2, <4>3 DEF CommandsEnqueued
      <4>5. \A k \in 1..Len(cmdq') :
              cmdq'[k].kind = "completed" => stage'[cmdq'[k].id] = "enqueued"
            BY <1>0, <3>1, <3>3, <4>1, <4>3 DEF CommandsEnqueued
      <4>6. Fresh' /\ JobsQueued' /\ CompletionsSent'
            BY <1>0, <3>1, <3>3 DEF Fresh, JobsQueued, CompletionsSent, Distinct
      <4> QED BY <4>4, <4>5, <4>6 DEF CommandsEnqueued
    <3> QED BY <2>3, <3>2, <3>3 DEF RelayRoute
  <2>4. ASSUME NEW i \in Ids, RelayDiscard(i) PROVE Channels'
        BY <1>3, <2>4 DEF RelayDiscard
  <2>5. ASSUME NEW i \in Ids, RelayStops(i) PROVE Channels'
    <3>1. /\ UNCHANGED <<nextId, jobs, cmdq>> /\ completions' = <<>>
          /\ \A j \in Ids : stage[j] \in {"absent", "queued", "enqueued"} => stage'[j] = stage[j]
          BY <2>5 DEF RelayStops
    <3>2. CompletionsSent' BY <3>1 DEF CompletionsSent, Distinct
    <3>3. JobsQueued' BY <1>0, <3>1 DEF JobsQueued, Distinct
    <3>4. Fresh' BY <1>0, <3>1 DEF Fresh
    <3>5. CommandsEnqueued' BY <1>0, <3>1 DEF CommandsEnqueued
    <3> QED BY <3>2, <3>3, <3>4, <3>5
  <2> QED BY <1>8, <2>1, <2>2, <2>3, <2>4, <2>5 DEF Relay
<1> DEFINE Drained == /\ UNCHANGED <<nextId, jobs, completions>> /\ cmdq' = <<>>
                      /\ \A j \in Ids : stage[j] \in {"absent", "queued", "sent"}
                                            => stage'[j] = stage[j]
<1>9. CASE Drained
  <2>1. CommandsEnqueued' BY <1>9 DEF CommandsEnqueued
  <2>2. JobsQueued' BY <1>0, <1>9 DEF JobsQueued, Distinct
  <2>3. CompletionsSent' BY <1>0, <1>9 DEF CompletionsSent, Distinct
  <2>4. Fresh' BY <1>0, <1>9 DEF Fresh
  <2> QED BY <2>1, <2>2, <2>3, <2>4
<1>10. CASE CallbackEnds
  <2> USE DEF idVars, taskVars, actorVars
  <2>1. \A from, to : ActorMoves(from, to) => Channels'
        BY <1>2 DEF ActorMoves
  <2>2. CASE \E ok \in BOOLEAN : ConstructorReturns(ok)
        BY <2>1, <2>2 DEF ConstructorReturns
  <2>3. CASE CallbackReturns BY <2>1, <2>3 DEF CallbackReturns
  <2>4. CASE CallbackFails BY <1>9, <2>4 DEF CallbackFails, DrainPending
  <2>5. CASE StopReturns BY <2>1, <2>5 DEF StopReturns
  <2> QED BY <1>10, <2>2, <2>3, <2>4, <2>5 DEF CallbackEnds
<1>11. CASE ActorStep
  <2> USE DEF idVars, taskVars, actorVars
  <2>1. CASE ActorReceives
    <3>1. /\ UNCHANGED <<nextId, jobs, completions>> /\ cmdq # <<>> /\ cmdq' = Tail(cmdq)
          BY <2>1 DEF ActorReceives
    <3>2. /\ Len(cmdq) \in Nat \ {0} /\ Len(cmdq') = Len(cmdq) - 1 /\ Head(cmdq) = cmdq[1]
          /\ \A k \in 1..Len(cmdq') : cmdq'[k] = cmdq[k + 1]
          BY <3>1 DEF TypeOK
    <3>3. \A k, l \in 1..Len(cmdq') :
            cmdq'[k].kind = "completed" /\ cmdq'[l] = cmdq'[k] => k = l
          BY <3>2 DEF CommandsEnqueued
    <3>4. CASE Head(cmdq).kind # "completed"
      <4>1. UNCHANGED stage BY <2>1, <3>4 DEF ActorReceives
      <4> QED BY <3>1, <3>2, <3>3, <4>1
              DEF Fresh, JobsQueued, CompletionsSent, CommandsEnqueued, Distinct
    <3>5. CASE Head(cmdq).kind = "completed"
      <4> DEFINE i == Head(cmdq).id
      <4>1. i \in Ids /\ stage[i] = "enqueued" /\ Head(cmdq) = Completed(i)
            BY <1>0, <3>2, <3>5 DEF CommandsEnqueued, Commands, Call, Shutdown, Completed
      <4>2. PICK to : stage' = [stage EXCEPT ![i] = to]
            BY <2>1, <3>5 DEF ActorReceives, NotifiedGuest
      <4>3. \A k \in 2..Len(cmdq) : cmdq[k].kind = "completed" => cmdq[k].id # i
        <5>1. \A k \in 1..Len(cmdq) : cmdq[k].kind = "completed" => cmdq[k] = Completed(cmdq[k].id)
              BY <1>0 DEF Commands, Call, Shutdown, Completed
        <5> QED BY <3>2, <3>5, <4>1, <5>1 DEF CommandsEnqueued
      <4>4. \A k \in 1..Len(cmdq') :
              cmdq'[k].kind = "completed" => stage'[cmdq'[k].id] = "enqueued"
            BY <1>0, <3>2, <4>1, <4>2, <4>3 DEF CommandsEnqueued
      <4> HIDE DEF i
      <4>5. Fresh' /\ JobsQueued' /\ CompletionsSent'
        <5>1. Fresh'
              BY <1>0, <3>1, <4>1, <4>2 DEF Fresh
        <5>2. JobsQueued'
              BY <1>0, <3>1, <4>1, <4>2 DEF JobsQueued, Distinct
        <5>3. CompletionsSent'
              BY <1>0, <3>1, <4>1, <4>2 DEF CompletionsSent, Distinct
        <5> QED BY <5>1, <5>2, <5>3
      <4> QED BY <3>3, <4>4, <4>5 DEF CommandsEnqueued
    <3> QED BY <3>4, <3>5
  <2>2. CASE CancelAll BY <1>2, <2>2 DEF CancelAll
  <2>3. CASE DropRegistry BY <1>2, <2>3 DEF DropRegistry
  <2>4. CASE CloseCommands BY <1>9, <2>4 DEF CloseCommands, DrainPending
  <2>5. ASSUME NEW i \in Ids, NotifyWaiters(i) PROVE Channels'
        BY <1>2, <2>5 DEF NotifyWaiters
  <2> QED BY <1>11, <2>1, <2>2, <2>3, <2>4, <2>5 DEF ActorStep
<1>12. CASE UNCHANGED vars BY <1>2, <1>12 DEF vars
<1> QED BY <1>4, <1>5, <1>6, <1>7, <1>8, <1>10, <1>11, <1>12 DEF Next
-----------------------------------------------------------------------------
(***************************************************************************)
(* The registry, the results and the wakeups, operation by operation.      *)
(***************************************************************************)
ResultsPlaced ==
    \A i \in results : stage[i] \in Finishing \cup Travelling \cup {"told", "lost"}

ClosedAfterServing ==
    /\ \A i \in Ids : stage[i] = "closed" => actor = "gone"
    /\ \A i \in Ids : stage[i] = "lost" => actor \notin Serving

ResultKept ==
    \A i \in Ids : /\ stage[i] \in Finishing \cup Travelling \cup {"told"}
                   /\ terminal[i] = "succeeded"
                   => i \in results \cup taken

WakeupPending ==
    /\ \A i \in flagged \ notifying : stage[i] \in {"polling", "parked"} => i \in woken
    /\ actor = "dropping" => notifying = {}

Pipeline == /\ ActiveIsUnfinished /\ ResultsPlaced /\ ClosedAfterServing
            /\ ResultKept /\ WakeupPending

IInv == TypeOK /\ Channels /\ Pipeline

\* What is received from a channel stands at the channel's stage.
LEMMA Heads ==
    ASSUME TypeOK, Channels
    PROVE  /\ jobs # <<>> => Head(jobs) \in Ids /\ stage[Head(jobs)] = "queued"
           /\ completions # <<>> =>
                Head(completions) \in Ids /\ stage[Head(completions)] = "sent"
           /\ cmdq # <<>> /\ Head(cmdq).kind = "completed" =>
                Head(cmdq).id \in Ids /\ stage[Head(cmdq).id] = "enqueued"
<1>1. ASSUME jobs # <<>> PROVE Head(jobs) \in Ids /\ stage[Head(jobs)] = "queued"
  <2>1. Head(jobs) = jobs[1] /\ 1 \in 1..Len(jobs) /\ Head(jobs) \in Ids
        BY <1>1 DEF TypeOK
  <2>2. stage[jobs[1]] = "queued" BY <2>1 DEF Channels, JobsQueued
  <2> QED BY <2>1, <2>2
<1>2. ASSUME completions # <<>>
      PROVE  Head(completions) \in Ids /\ stage[Head(completions)] = "sent"
  <2>1. /\ Head(completions) = completions[1] /\ 1 \in 1..Len(completions)
        /\ Head(completions) \in Ids
        BY <1>2 DEF TypeOK
  <2>2. stage[completions[1]] = "sent" BY <2>1 DEF Channels, CompletionsSent
  <2> QED BY <2>1, <2>2
<1>3. ASSUME cmdq # <<>>, Head(cmdq).kind = "completed"
      PROVE  Head(cmdq).id \in Ids /\ stage[Head(cmdq).id] = "enqueued"
  <2>1. Head(cmdq) = cmdq[1] /\ 1 \in 1..Len(cmdq) /\ Head(cmdq) \in Commands
        BY <1>3 DEF TypeOK
  <2> QED BY <1>3, <2>1 DEF Channels, CommandsEnqueued, Commands, Call, Shutdown, Completed
<1> QED BY <1>1, <1>2, <1>3

\* Every step preserves the pipeline invariant.
LEMMA PipelineStep == IInv /\ [Next]_vars => Pipeline'
<1> SUFFICES ASSUME IInv, [Next]_vars PROVE Pipeline'
    OBVIOUS
<1>0. /\ TypeOK /\ Channels /\ Pipeline
      /\ stage \in [Ids -> Stages] /\ terminal \in [Ids -> Terminals]
      /\ active \subseteq Ids /\ results \subseteq Ids /\ flagged \subseteq Ids
      /\ notifying \subseteq Ids
  BY DEF IInv, TypeOK
<1> USE DEF Pipeline, ActiveIsUnfinished, Unfinished, ResultsPlaced, ClosedAfterServing,
        ResultKept, WakeupPending, Waiting, Executing, Finishing, Travelling,
        idVars, taskVars, actorVars, cancelVars, GuestRuns, Serving
<1>1. CASE Guest
  <2>1. ASSUME NEW c \in Capabilities, Submit(c) PROVE Pipeline'
    <3>1. nextId \in Ids /\ stage[nextId] = "absent"
          BY <2>1, <1>0, LimitsAssumption DEF Submit, Channels, Fresh, TypeOK, Ids
    <3> QED BY <2>1, <1>0, <3>1 DEF Submit
  <2>2. ASSUME NEW i \in Ids, Cancel(i) PROVE Pipeline'
        BY <1>0, <2>2 DEF Cancel
  <2>3. ASSUME NEW i \in Ids, NEW c \in Capabilities, Take(i, c) PROVE Pipeline'
        BY <1>0, <2>3 DEF Take
  <2> QED BY <1>1, <2>1, <2>2, <2>3 DEF Guest
<1>2. CASE HostSends(Call) \/ HostSends(Shutdown)
  BY <1>0, <1>2 DEF HostSends
<1>3. CASE Dispatcher
  <2>1. CASE AcquirePermit BY <1>0, <2>1 DEF AcquirePermit
  <2>2. CASE SpawnWorker BY <1>0, <2>2, Heads DEF SpawnWorker
  <2>3. CASE DispatcherEnds BY <1>0, <2>3 DEF DispatcherEnds
  <2> QED BY <1>3, <2>1, <2>2, <2>3 DEF Dispatcher
<1>4. ASSUME NEW i \in Ids, Worker(i) \/ WorkEnds(i) \/ Expire(i) PROVE Pipeline'
  <2>1. ASSUME NEW from \in Executing, NEW to \in Executing, Advance(i, from, to),
               to \in {"polling", "parked"} /\ from = "armed" => i \notin flagged,
               to \in {"polling", "parked"} => from \in {"armed", "polling", "parked"}
        PROVE  Pipeline'
    <3>1. stage' = [stage EXCEPT ![i] = to] /\ stage[i] = from
          BY <2>1 DEF Advance
    <3>2. UNCHANGED <<active, results, flagged, notifying, woken, terminal, taken, actor>>
          BY <2>1 DEF Advance
    <3>3. ActiveIsUnfinished' /\ ResultsPlaced' BY <1>0, <3>1, <3>2
    <3>4. ClosedAfterServing' /\ ResultKept' BY <1>0, <3>1, <3>2
    <3>5. WakeupPending' BY <1>0, <2>1, <3>1, <3>2
    <3> QED BY <3>3, <3>4, <3>5
  <2>2. ASSUME NEW from \in Executing, NEW f \in Failures, Fail(i, from, f)
        PROVE  Pipeline'
        BY <1>0, <2>2 DEF Fail, Failures
  <2>3. CASE CheckDeadline(i) BY <2>1, <2>2, <2>3 DEF CheckDeadline, Failures
  <2>4. CASE FirstCheck(i) BY <2>1, <2>2, <2>4 DEF FirstCheck, Failures
  <2>5. CASE CreateNotified(i) BY <2>1, <2>5 DEF CreateNotified
  <2>6. CASE SecondCheck(i) BY <2>1, <2>2, <2>6 DEF SecondCheck, Failures
  <2>7. CASE DeadlineHit(i) BY <2>2, <2>7 DEF DeadlineHit, Failures
  <2>8. CASE Park(i) BY <2>1, <2>8 DEF Park
  <2>9. CASE Wake(i) BY <2>1, <2>2, <2>9 DEF Wake, Failures
  <2>10. CASE Deactivate(i) BY <1>0, <2>10 DEF Deactivate
  <2>11. CASE SendCompletion(i) BY <1>0, <2>11 DEF SendCompletion
  <2>12. CASE FinishOk(i) BY <1>0, <2>12 DEF FinishOk
  <2>13. CASE FinishErr(i) BY <2>2, <2>13 DEF FinishErr, Failures
  <2>14. CASE Expire(i) BY <1>0, <2>14 DEF Expire
  <2> QED BY <1>4, <2>3, <2>4, <2>5, <2>6, <2>7, <2>8, <2>9, <2>10, <2>11, <2>12, <2>13,
             <2>14 DEF Worker, WorkEnds
<1>5. CASE Relay
  <2>1. CASE RelayReceive BY <1>0, <2>1, Heads DEF RelayReceive
  <2>2. CASE RelayEnds BY <1>0, <2>2 DEF RelayEnds
  <2>3. ASSUME NEW i \in Ids, RelayRoute(i) PROVE Pipeline'
        BY <1>0, <2>3 DEF RelayRoute
  <2>4. ASSUME NEW i \in Ids, RelayDiscard(i) PROVE Pipeline'
        BY <1>0, <2>4 DEF RelayDiscard
  <2>5. ASSUME NEW i \in Ids, RelayStops(i) PROVE Pipeline'
        BY <1>0, <2>5 DEF RelayStops
  <2> QED BY <1>5, <2>1, <2>2, <2>3, <2>4, <2>5 DEF Relay
<1>6. CASE CallbackEnds
  <2>1. CASE \E ok \in BOOLEAN : ConstructorReturns(ok)
        BY <1>0, <2>1 DEF ConstructorReturns, ActorMoves
  <2>2. CASE CallbackReturns BY <1>0, <2>2 DEF CallbackReturns, ActorMoves
  <2>3. CASE CallbackFails BY <1>0, <2>3 DEF CallbackFails, DrainPending
  <2>4. CASE StopReturns BY <1>0, <2>4 DEF StopReturns, ActorMoves
  <2> QED BY <1>6, <2>1, <2>2, <2>3, <2>4 DEF CallbackEnds
<1>7. CASE ActorStep
  <2>1. CASE ActorReceives
    <3>1. CASE Head(cmdq).kind # "completed" BY <1>0, <2>1, <3>1 DEF ActorReceives
    <3>2. CASE Head(cmdq).kind = "completed"
          BY <1>0, <2>1, <3>2, Heads DEF ActorReceives, NotifiedGuest
    <3> QED BY <3>1, <3>2
  <2>2. CASE CancelAll BY <1>0, <2>2 DEF CancelAll
  <2>3. CASE DropRegistry BY <1>0, <2>3 DEF DropRegistry
  <2>4. CASE CloseCommands BY <1>0, <2>4 DEF CloseCommands, DrainPending
  <2>5. ASSUME NEW i \in Ids, NotifyWaiters(i) PROVE Pipeline'
        BY <1>0, <2>5 DEF NotifyWaiters
  <2> QED BY <1>7, <2>1, <2>2, <2>3, <2>4, <2>5 DEF ActorStep
<1>8. CASE UNCHANGED vars BY <1>0, <1>8 DEF vars
<1> QED BY <1>1, <1>2, <1>3, <1>4, <1>5, <1>6, <1>7, <1>8 DEF Next

\* The inductive invariant holds of every behaviour.
THEOREM Inductive == Spec => []IInv
<1>1. Init => IInv
  <2> SUFFICES ASSUME Init PROVE IInv
      OBVIOUS
  <2>1. TypeOK
        BY LimitsAssumption, CapabilityAssumption
           DEF Init, TypeOK, Ids, Stages, Terminals, ActorStates, Serving
  <2>2. Channels
        BY DEF Init, Channels, Fresh, JobsQueued, CompletionsSent, CommandsEnqueued, Distinct
  <2>3. Pipeline
        BY DEF Init, Pipeline, ActiveIsUnfinished, Unfinished, ResultsPlaced,
               ClosedAfterServing, ResultKept, WakeupPending, Waiting, Executing, Finishing,
               Travelling
  <2> QED BY <2>1, <2>2, <2>3 DEF IInv
<1>2. IInv /\ [Next]_vars => IInv'
  BY TypeStep, ChannelsStep, PipelineStep DEF IInv
<1> QED BY <1>1, <1>2, PTL DEF Spec

\* The registry of active operations is exactly the unfinished operations: what
\* cancel and cancel_all reach is what still runs (registry.submit, run_operation).
THEOREM ActiveExact == Spec => []ActiveIsUnfinished
<1>1. IInv => ActiveIsUnfinished BY DEF IInv, Pipeline
<1> QED BY <1>1, Inductive, PTL

\* Types, and a table that agrees with the tasks (OperationRegistry).
THEOREM RegistryHolds == Spec => []RegistryConsistent
<1>1. TypeOK /\ ActiveIsUnfinished => RegistryConsistent BY DEF RegistryConsistent
<1> QED BY <1>1, TypeCorrect, ActiveExact, PTL

\* While the instance serves events, no result outlives the chance to take it:
\* every path of the relay and of the actor that drops a completion drops its result.
THEOREM NoOrphans == Spec => []NoOrphanedResult
<1>1. IInv => NoOrphanedResult
  BY DEF IInv, TypeOK, Pipeline, ResultsPlaced, ClosedAfterServing, NoOrphanedResult
<1> QED BY <1>1, Inductive, PTL

\* A guest told of a success finds its result (or has taken it already).
THEOREM SuccessKept == Spec => []SucceededIsTakable
<1>1. IInv => SucceededIsTakable
  BY DEF IInv, Pipeline, ResultKept, SucceededIsTakable, Travelling
<1> QED BY <1>1, Inductive, PTL

\* Results and completions go together.
THEOREM ResultsHold == Spec => []ResultsReachable
<1>1. NoOrphanedResult /\ SucceededIsTakable => ResultsReachable BY DEF ResultsReachable
<1> QED BY <1>1, NoOrphans, SuccessKept, PTL

\* Cancellation::cancel never misses a worker that is going to sleep.
THEOREM WakeupReaches == Spec => []NoLostWakeup
<1>1. IInv => NoLostWakeup
  BY DEF IInv, Pipeline, WakeupPending, NoLostWakeup
<1> QED BY <1>1, Inductive, PTL
-----------------------------------------------------------------------------
(***************************************************************************)
(* The retention limit.                                                    *)
(***************************************************************************)
\* The id space, and with it every set of operations, is finite.
LEMMA IdsFinite == \A S \in SUBSET Ids : IsFiniteSet(S)
<1>1. IsFiniteSet(Ids)
  BY FS_Interval, LimitsAssumption DEF Ids
<1> QED BY <1>1, FS_Subset

\* A step leaves the results no larger, or adds one while they are below the limit.
LEMMA ResultsStep ==
    ASSUME TypeOK, [Next]_vars
    PROVE  \/ results' \subseteq results
           \/ Cardinality(results) < MaxRetained /\ \E i \in Ids : results' = results \cup {i}
<1>0. ~(Cardinality(results) >= MaxRetained) => Cardinality(results) < MaxRetained
  <2>1. Cardinality(results) \in Nat BY IdsFinite, FS_CardinalityType DEF TypeOK
  <2> QED BY <2>1, LimitsAssumption
<1>1. ASSUME NEW i \in Ids, FinishOk(i)
      PROVE  \/ results' \subseteq results
             \/ ~(Cardinality(results) >= MaxRetained) /\ results' = results \cup {i}
  BY <1>1 DEF FinishOk
<1>2. ASSUME NEW i \in Ids, Worker(i) \/ FinishErr(i) \/ Expire(i)
      PROVE  results' \subseteq results
  BY <1>2 DEF Worker, FinishErr, Expire, CheckDeadline, FirstCheck, CreateNotified, SecondCheck,
              DeadlineHit, Park, Wake, Deactivate, SendCompletion, Advance, Fail
<1>3. CASE Guest
  BY <1>3 DEF Guest, Submit, Cancel, Take
<1>4. CASE Dispatcher \/ HostSends(Call) \/ HostSends(Shutdown)
  BY <1>4 DEF Dispatcher, AcquirePermit, SpawnWorker, DispatcherEnds, HostSends
<1>5. CASE Relay
  BY <1>5 DEF Relay, RelayReceive, RelayEnds, RelayRoute, RelayDiscard, RelayStops
<1>6. CASE CallbackEnds \/ ActorStep
  BY <1>6 DEF CallbackEnds, ConstructorReturns, CallbackReturns, CallbackFails, StopReturns,
              ActorMoves, ActorStep, ActorReceives, NotifiedGuest, CancelAll, DropRegistry,
              CloseCommands, NotifyWaiters
<1>7. CASE UNCHANGED vars
  BY <1>7 DEF vars
<1> QED BY <1>0, <1>1, <1>2, <1>3, <1>4, <1>5, <1>6, <1>7 DEF Next, WorkEnds

\* Concurrent workers never retain more results than max_retained_results.
THEOREM RetentionHolds == Spec => []ResultsBounded
<1>1. Init => ResultsBounded
  BY FS_EmptySet, LimitsAssumption DEF Init, ResultsBounded
<1>2. TypeOK /\ TypeOK' /\ ResultsBounded /\ [Next]_vars => ResultsBounded'
  <2> SUFFICES ASSUME TypeOK, TypeOK', ResultsBounded, [Next]_vars PROVE ResultsBounded'
      OBVIOUS
  <2>1. IsFiniteSet(results) /\ IsFiniteSet(results')
        BY IdsFinite DEF TypeOK
  <2>2. Cardinality(results) \in Nat /\ Cardinality(results') \in Nat
        BY <2>1, FS_CardinalityType
  <2>3. CASE results' \subseteq results
    <3>1. Cardinality(results') <= Cardinality(results) BY <2>1, <2>3, FS_Subset
    <3> QED BY <2>2, <3>1, LimitsAssumption DEF ResultsBounded
  <2>4. ASSUME Cardinality(results) < MaxRetained, NEW i \in Ids, results' = results \cup {i}
        PROVE  ResultsBounded'
    <3>1. Cardinality(results') <= Cardinality(results) + 1
          BY <2>1, <2>2, <2>4, FS_AddElement
    <3> QED BY <2>2, <2>4, <3>1, LimitsAssumption DEF ResultsBounded
  <2> QED BY <2>3, <2>4, ResultsStep
<1> QED BY <1>1, <1>2, TypeCorrect, PTL DEF Spec
-----------------------------------------------------------------------------
(***************************************************************************)
(* Refinement: the tasks and channels implement OperationLifecycle.        *)
(***************************************************************************)
\* The terminal is decided once, and results belong to operations that succeeded.
TerminalOnce ==
    /\ \A i \in Ids : stage[i] = "absent" \/ Unfinished(i) => terminal[i] = "none"
    /\ \A i \in results \cup taken : terminal[i] = "succeeded"
    /\ results \cap taken = {}

\* What a step does to the operations, seen through the mapping.
LEMMA PromiseStep ==
    IInv /\ IInv' /\ TerminalOnce /\ [Next]_vars
        => TerminalOnce' /\ [Promise!Next]_(Promise!vars)
<1> SUFFICES ASSUME IInv, IInv', TerminalOnce, [Next]_vars
             PROVE  TerminalOnce' /\ [Promise!Next]_(Promise!vars)
    OBVIOUS
<1> DEFINE Goal == TerminalOnce' /\ [Promise!Next]_(Promise!vars)
<1>0. /\ stage \in [Ids -> Stages] /\ stage' \in [Ids -> Stages]
      /\ terminal \in [Ids -> Terminals] /\ terminal' \in [Ids -> Terminals]
      /\ results \subseteq Ids /\ results' \subseteq Ids /\ taken \subseteq Ids
      /\ taken' \subseteq Ids
      /\ \A i \in Ids : Unfinished(i) => i \notin results
      /\ \A i \in Ids : stage[i] = "absent" => i \notin results
      /\ Pipeline /\ TypeOK /\ Channels
  BY DEF IInv, TypeOK, Pipeline, ResultsPlaced, Unfinished, Waiting, Executing, Finishing,
         Travelling
<1> DEFINE Same(i) == /\ stage'[i] = "absent" <=> stage[i] = "absent"
                      /\ Unfinished(i)' <=> Unfinished(i)
                      /\ stage'[i] = "told" <=> stage[i] = "told"
\* Steps between tasks that the guest cannot tell from no step.
<1>1. ASSUME \A i \in Ids : Same(i), servingBar' = servingBar,
             UNCHANGED <<results, taken, terminal>>
      PROVE  Goal
  <2>1. phaseBar' = phaseBar BY <1>1 DEF phaseBar
  <2>2. payloadBar' = payloadBar BY <1>1 DEF payloadBar
  <2>3. toldBar' = toldBar BY <1>1 DEF toldBar
  <2>4. TerminalOnce' BY <1>1 DEF TerminalOnce
  <2> QED BY <1>1, <2>1, <2>2, <2>3, <2>4 DEF Promise!vars
\* The instance stops serving.
<1>2. ASSUME \A i \in Ids : Same(i), servingBar, ~servingBar',
             UNCHANGED <<results, taken, terminal>>
      PROVE  Goal
  <2>1. phaseBar' = phaseBar BY <1>2 DEF phaseBar
  <2>2. payloadBar' = payloadBar BY <1>2 DEF payloadBar
  <2>3. toldBar' = toldBar BY <1>2 DEF toldBar
  <2>4. TerminalOnce' BY <1>2 DEF TerminalOnce
  <2>5. servingBar' = FALSE BY <1>2 DEF servingBar
  <2> QED BY <1>2, <2>1, <2>2, <2>3, <2>4, <2>5 DEF Promise!StopServing, Promise!Next
\* The result of an operation the guest was not told of is dropped.
<1>3. ASSUME NEW i \in Ids, \A j \in Ids : Same(j), servingBar' = servingBar,
             UNCHANGED <<taken, terminal>>, results' = results \ {i}, stage[i] # "told"
      PROVE  Goal
  <2>1. phaseBar' = phaseBar BY <1>3 DEF phaseBar
  <2>2. toldBar' = toldBar BY <1>3 DEF toldBar
  <2>3. TerminalOnce' BY <1>3 DEF TerminalOnce
  <2>4. CASE i \notin results
    <3>1. results' = results BY <1>3, <2>4
    <3> QED BY <1>1, <1>3, <3>1
  <2>5. CASE i \in results
    <3>1. payloadBar[i] = "held" /\ payloadBar' = [payloadBar EXCEPT ![i] = "dropped"]
          BY <1>3, <2>5 DEF payloadBar, TerminalOnce
    <3>2. i \notin toldBar BY <1>3 DEF toldBar
    <3>3. Promise!Drop(i) BY <1>3, <2>1, <2>2, <3>1, <3>2 DEF Promise!Drop
    <3> QED BY <2>3, <3>3 DEF Promise!Next
  <2> QED BY <2>4, <2>5
\* An unfinished operation ends with a failure and no result.
<1>4. ASSUME NEW i \in Ids, NEW f \in Failures, Unfinished(i), stage[i] # "absent",
             stage' = [stage EXCEPT ![i] = "deactivate"],
             terminal' = [terminal EXCEPT ![i] = f],
             UNCHANGED <<results, taken, actor>>
      PROVE  Goal
  <2> USE DEF Unfinished, Waiting, Executing
  <2>1. phaseBar[i] = "pending" /\ phaseBar' = [phaseBar EXCEPT ![i] = "ended"]
        BY <1>0, <1>4 DEF phaseBar
  <2>2. i \notin results /\ i \notin taken
        BY <1>0, <1>4 DEF TerminalOnce
  <2>3. payloadBar' = payloadBar
        BY <1>0, <1>4, <2>2 DEF payloadBar, Failures, TerminalOnce
  <2>4. toldBar' = toldBar BY <1>0, <1>4 DEF toldBar
  <2>5. servingBar' = servingBar BY <1>4 DEF servingBar
  <2>6. TerminalOnce' BY <1>0, <1>4, <2>2 DEF TerminalOnce
  <2>7. Promise!Fail(i, f) BY <1>4, <2>1, <2>3, <2>4, <2>5 DEF Promise!Fail
  <2> QED BY <2>6, <2>7 DEF Promise!Next
\* An operation succeeds and its result is held.
<1>5. ASSUME NEW i \in Ids, Unfinished(i), stage[i] # "absent",
             stage' = [stage EXCEPT ![i] = "deactivate"],
             terminal' = [terminal EXCEPT ![i] = "succeeded"],
             results' = results \cup {i}, UNCHANGED <<taken, actor>>
      PROVE  Goal
  <2> USE DEF Unfinished, Waiting, Executing
  <2>1. phaseBar[i] = "pending" /\ phaseBar' = [phaseBar EXCEPT ![i] = "ended"]
        BY <1>0, <1>5 DEF phaseBar
  <2>2. i \notin taken
        BY <1>0, <1>5 DEF TerminalOnce
  <2>3. payloadBar' = [payloadBar EXCEPT ![i] = "held"]
        BY <1>0, <1>5 DEF payloadBar
  <2>4. toldBar' = toldBar BY <1>0, <1>5 DEF toldBar
  <2>5. servingBar' = servingBar BY <1>5 DEF servingBar
  <2>6. TerminalOnce' BY <1>0, <1>5, <2>2 DEF TerminalOnce
  <2>7. Promise!Succeed(i) BY <1>5, <2>1, <2>3, <2>4, <2>5 DEF Promise!Succeed
  <2> QED BY <2>6, <2>7 DEF Promise!Next
<1> USE DEF idVars, taskVars, actorVars, cancelVars
\* A move of operation i between two stages of the same class.
<1> DEFINE Class(st) == IF st = "absent" THEN "absent"
                        ELSE IF st \in Waiting \cup Executing THEN "pending"
                        ELSE IF st = "told" THEN "told" ELSE "ended"
<1>6. ASSUME \A i \in Ids : Class(stage'[i]) = Class(stage[i])
      PROVE  \A i \in Ids : Same(i)
  BY <1>6 DEF Unfinished, Waiting, Executing
<1> SUFFICES Goal
    OBVIOUS
<1> HIDE DEF Goal, Same
<1>7. CASE Guest
  <2>1. ASSUME NEW c \in Capabilities, Submit(c) PROVE Goal
    <3>1. nextId \in Ids /\ stage[nextId] = "absent"
          BY <1>0, <2>1, LimitsAssumption DEF Submit, Channels, Fresh, TypeOK, Ids
    <3>2. UNCHANGED <<results, taken, terminal, actor>>
          BY <2>1 DEF Submit
    <3>3. servingBar' = servingBar BY <3>2 DEF servingBar
    <3>4. CASE UNCHANGED stage
      <4>1. \A i \in Ids : Same(i) BY <3>4 DEF Same, Unfinished
      <4> QED BY <1>1, <3>2, <3>3, <4>1
    <3>5. CASE stage' = [stage EXCEPT ![nextId] = "queued"]
      <4>1. phaseBar[nextId] = "absent" /\ phaseBar' = [phaseBar EXCEPT ![nextId] = "pending"]
            BY <1>0, <3>1, <3>5 DEF phaseBar, Unfinished, Waiting, Executing
      <4>2. payloadBar' = payloadBar BY <3>2 DEF payloadBar
      <4>3. toldBar' = toldBar BY <1>0, <3>1, <3>5 DEF toldBar
      <4>4. TerminalOnce' BY <1>0, <3>1, <3>2, <3>5 DEF TerminalOnce, Unfinished
      <4>5. Promise!Accept(nextId) BY <3>2, <3>3, <4>1, <4>2, <4>3 DEF Promise!Accept
      <4> QED BY <3>1, <4>4, <4>5 DEF Promise!Next, Goal
    <3> QED BY <2>1, <3>4, <3>5 DEF Submit
  <2>2. ASSUME NEW i \in Ids, Cancel(i) PROVE Goal
        BY <1>1, <2>2 DEF Cancel, Same, Unfinished, servingBar
  <2>3. ASSUME NEW i \in Ids, NEW c \in Capabilities, Take(i, c) PROVE Goal
    <3>1. /\ UNCHANGED <<stage, terminal, actor>> /\ i \in results
          /\ results' = results \ {i} /\ taken' = taken \cup {i}
          BY <2>3 DEF Take
    <3>2. phaseBar' = phaseBar /\ toldBar' = toldBar /\ servingBar' = servingBar
          BY <3>1 DEF phaseBar, toldBar, servingBar, Unfinished
    <3>3. payloadBar[i] = "held" /\ payloadBar' = [payloadBar EXCEPT ![i] = "taken"]
          BY <3>1 DEF payloadBar
    <3>4. TerminalOnce' BY <3>1 DEF TerminalOnce, Unfinished
    <3>5. Promise!Take(i) BY <3>1, <3>2, <3>3 DEF Promise!Take
    <3> QED BY <3>4, <3>5 DEF Promise!Next, Goal
  <2> QED BY <1>7, <2>1, <2>2, <2>3 DEF Guest
<1>8. CASE HostSends(Call) \/ HostSends(Shutdown)
  BY <1>1, <1>8 DEF HostSends, Same, Unfinished, servingBar
<1>9. CASE Dispatcher
  <2>1. CASE AcquirePermit BY <1>1, <2>1 DEF AcquirePermit, Same, Unfinished, servingBar
  <2>2. CASE SpawnWorker
    <3>1. \A i \in Ids : Class(stage'[i]) = Class(stage[i])
          BY <1>0, <2>2, Heads DEF SpawnWorker, Waiting, Executing
    <3> QED BY <1>1, <1>6, <2>2, <3>1 DEF SpawnWorker, servingBar
  <2>3. CASE DispatcherEnds BY <1>1, <2>3 DEF DispatcherEnds, Same, Unfinished, servingBar
  <2> QED BY <1>9, <2>1, <2>2, <2>3 DEF Dispatcher
<1>10. ASSUME NEW i \in Ids, Worker(i) \/ WorkEnds(i) \/ Expire(i) PROVE Goal
  <2>1. ASSUME NEW from \in Executing, NEW to \in Executing, Advance(i, from, to)
        PROVE  Goal
    <3>1. \A j \in Ids : Class(stage'[j]) = Class(stage[j])
          BY <1>0, <2>1 DEF Advance, Executing
    <3> QED BY <1>1, <1>6, <2>1, <3>1 DEF Advance, servingBar
  <2>2. ASSUME NEW from \in Executing, NEW f \in Failures, Fail(i, from, f)
        PROVE  Goal
        BY <1>4, <2>2 DEF Fail, Executing, Unfinished, Goal
  <2>3. CASE CheckDeadline(i) BY <2>1, <2>2, <2>3 DEF CheckDeadline, Failures, Executing
  <2>4. CASE FirstCheck(i) BY <2>1, <2>2, <2>4 DEF FirstCheck, Failures, Executing
  <2>5. CASE CreateNotified(i) BY <2>1, <2>5 DEF CreateNotified, Executing
  <2>6. CASE SecondCheck(i) BY <2>1, <2>2, <2>6 DEF SecondCheck, Failures, Executing
  <2>7. CASE DeadlineHit(i) BY <2>2, <2>7 DEF DeadlineHit, Failures, Executing
  <2>8. CASE Park(i) BY <2>1, <2>8 DEF Park, Executing
  <2>9. CASE Wake(i) BY <2>1, <2>2, <2>9 DEF Wake, Failures, Executing
  <2>10. CASE Deactivate(i)
    <3>1. \A j \in Ids : Class(stage'[j]) = Class(stage[j])
          BY <1>0, <2>10 DEF Deactivate, Executing, Waiting
    <3> QED BY <1>1, <1>6, <2>10, <3>1 DEF Deactivate, servingBar
  <2>11. CASE SendCompletion(i)
    <3>1. \A j \in Ids : Class(stage'[j]) = Class(stage[j])
          BY <1>0, <2>11 DEF SendCompletion, Executing, Waiting
    <3>2. stage[i] # "told" /\ UNCHANGED <<taken, terminal, actor>>
          BY <2>11 DEF SendCompletion
    <3>3. results' = results \/ results' = results \ {i}
          BY <2>11 DEF SendCompletion
    <3> QED BY <1>1, <1>3, <1>6, <3>1, <3>2, <3>3 DEF servingBar
  <2>12. CASE FinishOk(i)
    <3>1. /\ Unfinished(i) /\ stage[i] # "absent"
          /\ stage' = [stage EXCEPT ![i] = "deactivate"] /\ UNCHANGED <<taken, actor>>
          BY <2>12 DEF FinishOk, Unfinished, Executing
    <3>2. CASE /\ terminal' = [terminal EXCEPT ![i] = "result-dropped"]
               /\ UNCHANGED results
          BY <1>4, <3>1, <3>2 DEF Failures
    <3>3. CASE /\ terminal' = [terminal EXCEPT ![i] = "succeeded"]
               /\ results' = results \cup {i}
          BY <1>5, <3>1, <3>3
    <3> QED BY <2>12, <3>2, <3>3 DEF FinishOk
  <2>13. CASE FinishErr(i) BY <2>2, <2>13 DEF FinishErr, Failures, Executing
  <2>14. CASE Expire(i) BY <1>1, <2>14 DEF Expire, Same, Unfinished, servingBar
  <2> QED BY <1>10, <2>3, <2>4, <2>5, <2>6, <2>7, <2>8, <2>9, <2>10, <2>11, <2>12, <2>13,
             <2>14 DEF Worker, WorkEnds
<1>11. CASE Relay
  <2>1. CASE RelayReceive
    <3>1. \A j \in Ids : Class(stage'[j]) = Class(stage[j])
          BY <1>0, <2>1, Heads DEF RelayReceive, Waiting, Executing
    <3> QED BY <1>1, <1>6, <2>1, <3>1 DEF RelayReceive, servingBar
  <2>2. CASE RelayEnds BY <1>1, <2>2 DEF RelayEnds, Same, Unfinished, servingBar
  <2>3. ASSUME NEW i \in Ids, RelayRoute(i) PROVE Goal
    <3>1. \A j \in Ids : Class(stage'[j]) = Class(stage[j])
          BY <1>0, <2>3 DEF RelayRoute, Waiting, Executing
    <3> QED BY <1>1, <1>6, <2>3, <3>1 DEF RelayRoute, servingBar
  <2>4. ASSUME NEW i \in Ids, RelayDiscard(i) PROVE Goal
    <3>1. \A j \in Ids : Class(stage'[j]) = Class(stage[j])
          BY <1>0, <2>4 DEF RelayDiscard, Waiting, Executing
    <3> QED BY <1>3, <1>6, <2>4, <3>1 DEF RelayDiscard, servingBar
  <2>5. ASSUME NEW i \in Ids, RelayStops(i) PROVE Goal
    <3>1. \A j \in Ids : Class(stage'[j]) = Class(stage[j])
          BY <1>0, <2>5 DEF RelayStops, Waiting, Executing
    <3> QED BY <1>3, <1>6, <2>5, <3>1 DEF RelayStops, servingBar
  <2> QED BY <1>11, <2>1, <2>2, <2>3, <2>4, <2>5 DEF Relay
\* The actor moves on; completions in its channel may be lost.
<1>12. ASSUME UNCHANGED <<results, taken, terminal>>, UNCHANGED stage \/ DrainPending,
              actor' \in Serving => actor \in Serving
       PROVE  Goal
  <2>1. \A j \in Ids : Class(stage'[j]) = Class(stage[j])
        BY <1>12 DEF DrainPending, Waiting, Executing
  <2>2. servingBar \in BOOLEAN /\ servingBar' \in BOOLEAN /\ (servingBar' => servingBar)
        BY <1>12 DEF servingBar
  <2> QED BY <1>1, <1>2, <1>6, <1>12, <2>1, <2>2
<1>13. CASE CallbackEnds
  BY <1>12, <1>13 DEF CallbackEnds, ConstructorReturns, CallbackReturns, CallbackFails,
                      StopReturns, ActorMoves, Serving
<1>14. CASE ActorStep
  <2>1. CASE ActorReceives
    <3>1. CASE Head(cmdq).kind # "completed"
          BY <1>12, <2>1, <3>1 DEF ActorReceives, Serving
    <3>2. CASE Head(cmdq).kind = "completed"
      <4> DEFINE i == Head(cmdq).id
      <4>1. i \in Ids /\ stage[i] = "enqueued"
            BY <1>0, <2>1, <3>2, Heads DEF ActorReceives
      <4>2. UNCHANGED <<taken, terminal>> /\ NotifiedGuest(i) /\ actor = "idle"
            BY <2>1, <3>2 DEF ActorReceives
      <4> HIDE DEF i
      <4>3. CASE cap[i] \notin Notifiable
        <5>1. \A j \in Ids : Class(stage'[j]) = Class(stage[j])
              BY <1>0, <4>1, <4>2, <4>3 DEF NotifiedGuest, Waiting, Executing
        <5> QED BY <1>3, <1>6, <4>1, <4>2, <4>3, <5>1 DEF NotifiedGuest, servingBar
      <4>4. CASE cap[i] \in Notifiable
        <5>1. /\ stage' = [stage EXCEPT ![i] = "told"] /\ UNCHANGED results
              /\ servingBar /\ servingBar' = servingBar
              BY <4>2, <4>4 DEF NotifiedGuest, servingBar, Serving
        <5>2. phaseBar[i] = "ended" /\ phaseBar' = phaseBar
              BY <1>0, <4>1, <5>1 DEF phaseBar, Unfinished, Waiting, Executing
        <5>3. payloadBar' = payloadBar
              BY <4>2, <5>1 DEF payloadBar
        <5>4. payloadBar[i] # "dropped"
              BY <1>0, <4>1 DEF payloadBar, Pipeline, ResultKept, Travelling
        <5>5. i \notin toldBar /\ toldBar' = toldBar \cup {i}
              BY <1>0, <4>1, <5>1 DEF toldBar
        <5>6. TerminalOnce'
              BY <1>0, <4>1, <4>2, <5>1 DEF TerminalOnce, Unfinished, Waiting, Executing
        <5>7. Promise!Tell(i)
              BY <4>2, <5>1, <5>2, <5>3, <5>4, <5>5 DEF Promise!Tell
        <5> QED BY <4>1, <5>6, <5>7 DEF Promise!Next, Goal
      <4> QED BY <4>3, <4>4
    <3> QED BY <3>1, <3>2
  <2>2. CASE CancelAll BY <1>12, <2>2 DEF CancelAll, Serving
  <2>3. CASE DropRegistry BY <1>12, <2>3 DEF DropRegistry, Serving
  <2>4. CASE CloseCommands BY <1>12, <2>4 DEF CloseCommands, Serving
  <2>5. ASSUME NEW i \in Ids, NotifyWaiters(i) PROVE Goal
        BY <1>12, <2>5 DEF NotifyWaiters
  <2> QED BY <1>14, <2>1, <2>2, <2>3, <2>4, <2>5 DEF ActorStep
<1>15. CASE UNCHANGED vars BY <1>12, <1>15 DEF vars
<1> QED BY <1>7, <1>8, <1>9, <1>10, <1>11, <1>13, <1>14, <1>15 DEF Next

\* The registry, dispatcher, workers, relay and actor together keep the promise:
\* one terminal, a result taken at most once, never dropped once told of.
THEOREM PromiseKept == Spec => KeepsPromise
<1>1. Init => TerminalOnce /\ Promise!Init
  <2> SUFFICES ASSUME Init PROVE TerminalOnce /\ Promise!Init
      OBVIOUS
  <2>1. phaseBar = [i \in Ids |-> "absent"] /\ payloadBar = [i \in Ids |-> "none"]
        BY DEF Init, phaseBar, payloadBar
  <2>2. toldBar = {} /\ servingBar = TRUE
        BY DEF Init, toldBar, servingBar, Serving
  <2>3. TerminalOnce BY DEF Init, TerminalOnce
  <2> QED BY <2>1, <2>2, <2>3 DEF Init, Promise!Init
<1> QED BY <1>1, PromiseStep, Inductive, PTL DEF Spec, KeepsPromise, Promise!Spec
=============================================================================
