--------------------------- MODULE InstancesProofs ----------------------------
(***************************************************************************)
(* Theorems about Instances, for any editors, commands, clocks and any     *)
(* number of instances, and about the two modules that share its store.    *)
(* Supervisor, for any generations and any capacities of its channels: a   *)
(* session on screen is of the start that is wanted last, and what is      *)
(* shown is about it.  ControlPanel, for any schemas, configurations and   *)
(* capacities: what is saved is what the form of the instance said.        *)
(***************************************************************************)
EXTENDS Supervisor, ControlPanel, TLAPS, WellFoundedInduction

(***************************************************************************)
(* The store by itself (module Instances): types are inductive by          *)
(* themselves; who writes a record, and from what, is read off Write,      *)
(* Create and AdvanceGeneration.  Up to PlansHold nothing is said of the   *)
(* supervisor or the panel.                                                *)
(***************************************************************************)
LEMMA LaterFacts ==
    ASSUME NEW s \in 0..MaxTime, NEW t \in 0..MaxTime
    PROVE  Later(s, t) \in 0..MaxTime /\ s <= Later(s, t) /\ t <= Later(s, t)
  BY InstancesAssumption DEF Later

\* What the conditional UPDATE of a command leaves of a record.
LEMMA WrittenFacts ==
    ASSUME NEW w \in Edit, NEW t \in 0..MaxTime, InstancesTypeOK,
           record[w.id] # None, w.cmd # "delete"
    PROVE  /\ Written(w, t) \in Record
           /\ Written(w, t).updated = t
           /\ Written(w, t).gen = record[w.id].gen
           /\ w.cmd # "rollback" => Written(w, t).version = record[w.id].version
           /\ w.cmd # "configure" => Written(w, t).config = record[w.id].config
           /\ w.cmd \notin {"start", "stop"} => Written(w, t).desired = record[w.id].desired
<1> DEFINE r == [record[w.id] EXCEPT !.updated = t]
<1>1. w.id \in Ids /\ record[w.id] \in Record
  BY DEF InstancesTypeOK, Edit
<1>2. /\ r \in Record /\ r.updated = t
      /\ r.gen = record[w.id].gen /\ r.version = record[w.id].version
      /\ r.config = record[w.id].config /\ r.desired = record[w.id].desired
  BY <1>1 DEF Record
<1>3. w.config \in Configs /\ w.version \in Versions
  BY DEF Edit
<1>4. w.cmd \in {"configure", "rollback", "start", "stop"}
  BY InstancesAssumption DEF Edit, AllCommands
<1>5. Written(w, t) = CASE w.cmd = "configure" -> [r EXCEPT !.config = w.config]
                        [] w.cmd = "rollback"  -> [r EXCEPT !.version = w.version]
                        [] w.cmd = "start"     -> [r EXCEPT !.desired = "running"]
                        [] w.cmd = "stop"      -> [r EXCEPT !.desired = "stopped"]
  BY DEF Written
<1> HIDE DEF r
<1>6. CASE w.cmd = "configure"
  <2>1. Written(w, t) = [r EXCEPT !.config = w.config]
    BY <1>5, <1>6
  <2> QED
    BY <1>2, <1>3, <1>6, <2>1 DEF Record
<1>7. CASE w.cmd = "rollback"
  <2>1. Written(w, t) = [r EXCEPT !.version = w.version]
    BY <1>5, <1>7
  <2> QED
    BY <1>2, <1>3, <1>7, <2>1 DEF Record
<1>8. CASE w.cmd = "start"
  <2>1. Written(w, t) = [r EXCEPT !.desired = "running"]
    BY <1>5, <1>8
  <2> QED
    BY <1>2, <1>8, <2>1 DEF Record, Desired
<1>9. CASE w.cmd = "stop"
  <2>1. Written(w, t) = [r EXCEPT !.desired = "stopped"]
    BY <1>5, <1>9
  <2> QED
    BY <1>2, <1>9, <2>1 DEF Record, Desired
<1> QED
  BY <1>4, <1>6, <1>7, <1>8, <1>9

\* A write either deletes its record, leaves the table alone, or replaces the
\* record by what Written says, under the conditions of the UPDATE.
LEMMA WriteCases ==
    ASSUME InstancesTypeOK, NEW e \in Editors, Write(e)
    PROVE  /\ edit[e] \in Edit /\ edit[e].id \in Ids
           /\ \/ record' = [record EXCEPT ![edit[e].id] = None]
              \/ record' = record
              \/ \E t \in 0..MaxTime :
                    /\ Fresh(edit[e].id, t) /\ edit[e].cmd # "delete"
                    /\ edit[e].cmd = "rollback" => SameInstallation(edit[e])
                    /\ record' = [record EXCEPT ![edit[e].id] = Written(edit[e], t)]
<1> DEFINE w == edit[e]
<1>1. w \in Edit /\ w.id \in Ids /\ w.began \in 0..MaxTime /\ w.seen.updated \in 0..MaxTime
  BY DEF Write, InstancesTypeOK, Edit, Record
<1>2. PICK clock \in {w.began, now} :
          LET t == Later(clock, w.seen.updated) IN
          record' = IF w.cmd = "delete"
                       THEN [record EXCEPT ![w.id] = None]
                    ELSE IF Fresh(w.id, t) /\ (w.cmd = "rollback" => SameInstallation(w))
                       THEN [record EXCEPT ![w.id] = Written(w, t)]
                    ELSE record
  BY DEF Write
<1>3. Later(clock, w.seen.updated) \in 0..MaxTime
  BY <1>1, LaterFacts DEF InstancesTypeOK
<1> QED
  BY <1>1, <1>2, <1>3

LEMMA WriteRecord ==
    ASSUME InstancesTypeOK, NEW e \in Editors, Write(e)
    PROVE  /\ record' \in [Ids -> Record \cup {None}]
           /\ \A id \in Ids : record[id] = None => record'[id] = None
<1> DEFINE w == edit[e]
<1>1. record \in [Ids -> Record \cup {None}]
  BY DEF InstancesTypeOK
<1>2. w \in Edit /\ w.id \in Ids
  BY WriteCases
<1>3. CASE record' = [record EXCEPT ![w.id] = None] \/ record' = record
  BY <1>1, <1>2, <1>3
<1>4. ASSUME NEW t \in 0..MaxTime, Fresh(w.id, t), w.cmd # "delete",
             record' = [record EXCEPT ![w.id] = Written(w, t)]
      PROVE  /\ record' \in [Ids -> Record \cup {None}]
             /\ \A id \in Ids : record[id] = None => record'[id] = None
  <2>1. record[w.id] # None /\ Written(w, t) \in Record
    BY <1>2, <1>4, WrittenFacts DEF Fresh
  <2> HIDE DEF w
  <2> QED
    BY <1>1, <1>2, <1>4, <2>1
<1> QED
  BY <1>3, <1>4, WriteCases

LEMMA AdvanceRecord ==
    ASSUME InstancesTypeOK, NEW id \in Ids, NEW t \in 0..MaxTime, AdvanceGeneration(id, t)
    PROVE  /\ record[id] \in Record /\ record[id].updated <= t
           /\ Advanced(id, t) \in Record
           /\ Advanced(id, t).gen = record[id].gen + 1
           /\ Advanced(id, t).updated = t
           /\ Advanced(id, t).version = record[id].version
           /\ Advanced(id, t).config = record[id].config
           /\ Advanced(id, t).desired = record[id].desired
           /\ record' = [record EXCEPT ![id] = Advanced(id, t)]
<1>1. record[id] \in Record /\ record[id].updated <= t /\ record[id].gen < MaxGen
  BY DEF InstancesTypeOK, AdvanceGeneration, CanAdvance, Fresh
<1>2. record[id].gen + 1 \in 0..MaxGen
  BY <1>1, InstancesAssumption DEF Record
<1> QED
  BY <1>1, <1>2 DEF Advanced, AdvanceGeneration, Record
-----------------------------------------------------------------------------
LEMMA InitTyped == InstancesInit => InstancesTypeOK
  BY InstancesAssumption DEF InstancesInit, InstancesTypeOK

LEMMA CreateTyped ==
    ASSUME InstancesTypeOK, NEW e \in Editors, Create(e)
    PROVE  InstancesTypeOK'
<1>1. PICK c \in Configs, v \in Versions, d \in Desired :
          record' = [record EXCEPT ![nextId] =
             [config |-> c, version |-> v, desired |-> d, gen |-> 0, updated |-> now]]
  BY DEF Create
<1>2. [config |-> c, version |-> v, desired |-> d, gen |-> 0, updated |-> now] \in Record
  BY InstancesAssumption DEF InstancesTypeOK, Record
<1>3. record' \in [Ids -> Record \cup {None}]
  BY <1>1, <1>2 DEF InstancesTypeOK
<1>4. nextId' \in 1..(MaxIds + 1) /\ edits' \in 0..MaxEdits /\ now' = now /\ edit' = edit
  BY InstancesAssumption DEF Create, Ids, InstancesTypeOK
<1> QED
  BY <1>3, <1>4 DEF InstancesTypeOK

LEMMA ReadTyped ==
    ASSUME InstancesTypeOK, NEW e \in Editors, NEW cmd \in Commands, NEW id \in Ids,
           Read(e, cmd, id)
    PROVE  InstancesTypeOK'
<1>1. record[id] \in Record /\ now \in 0..MaxTime /\ cmd \in Commands \ {"create"}
  BY DEF Read, InstancesTypeOK
<1>2. PICK c \in Configs, v \in Versions :
          edit' = [edit EXCEPT ![e] = [cmd |-> cmd, id |-> id, seen |-> record[id],
                                       began |-> now, config |-> c, version |-> v]]
  BY DEF Read
<1>3. [cmd |-> cmd, id |-> id, seen |-> record[id],
       began |-> now, config |-> c, version |-> v] \in Edit
  BY <1>1 DEF Edit
<1>4. edit' \in [Editors -> Edit \cup {None}]
  BY <1>2, <1>3 DEF InstancesTypeOK
<1>5. edits' \in 0..MaxEdits /\ UNCHANGED <<record, nextId, now>>
  BY InstancesAssumption DEF Read, InstancesTypeOK
<1> QED
  BY <1>4, <1>5 DEF InstancesTypeOK

LEMMA WriteTyped ==
    ASSUME InstancesTypeOK, NEW e \in Editors, Write(e)
    PROVE  InstancesTypeOK'
<1>1. record' \in [Ids -> Record \cup {None}]
  BY WriteRecord
<1>2. edit' \in [Editors -> Edit \cup {None}] /\ UNCHANGED <<nextId, now, edits>>
  BY DEF Write, InstancesTypeOK
<1> QED
  BY <1>1, <1>2 DEF InstancesTypeOK

LEMMA StartTyped == InstancesTypeOK /\ SupervisorStarts => InstancesTypeOK'
<1> SUFFICES ASSUME InstancesTypeOK, SupervisorStarts PROVE InstancesTypeOK'
  OBVIOUS
<1>1. PICK id \in Ids, t \in 0..MaxTime : AdvanceGeneration(id, t)
  BY DEF SupervisorStarts
<1>2. record' \in [Ids -> Record \cup {None}]
  BY <1>1, AdvanceRecord DEF InstancesTypeOK
<1> QED
  BY <1>2 DEF SupervisorStarts, InstancesTypeOK

LEMMA NextTyped == InstancesTypeOK /\ [InstancesNext]_instanceVars => InstancesTypeOK'
<1> SUFFICES ASSUME InstancesTypeOK, [InstancesNext]_instanceVars PROVE InstancesTypeOK'
  OBVIOUS
<1>1. CASE Tick
  BY <1>1 DEF Tick, InstancesTypeOK
<1>2. CASE SupervisorStarts
  BY <1>2, StartTyped
<1>3. ASSUME NEW e \in Editors, EditorStep(e) PROVE InstancesTypeOK'
  BY <1>3, CreateTyped, ReadTyped, WriteTyped DEF EditorStep
<1>4. CASE UNCHANGED instanceVars
  BY <1>4 DEF instanceVars, InstancesTypeOK
<1> QED
  BY <1>1, <1>2, <1>3, <1>4 DEF InstancesNext

\* Types of the table, of the clock and of the commands under way.
THEOREM StoreTypeCorrect == InstancesSpec => []InstancesTypeOK
  BY InitTyped, NextTyped, PTL DEF InstancesSpec
-----------------------------------------------------------------------------
(***************************************************************************)
(* What a step may do to a record.                                         *)
(***************************************************************************)
\* The steps that touch the table, for one record.
LEMMA RecordSteps ==
    ASSUME InstancesTypeOK, InstancesNext, NEW id \in Ids
    PROVE  \/ record'[id] = record[id]
           \/ id = nextId /\ \E e \in Editors : Create(e)
           \/ \E e \in Editors : Write(e) /\ edit[e].id = id
           \/ \E t \in 0..MaxTime : AdvanceGeneration(id, t)
<1>1. record \in [Ids -> Record \cup {None}]
  BY DEF InstancesTypeOK
<1>2. CASE Tick
  BY <1>2 DEF Tick
<1>3. ASSUME NEW other \in Ids, NEW t \in 0..MaxTime, AdvanceGeneration(other, t), other # id
      PROVE  record'[id] = record[id]
  BY <1>1, <1>3 DEF AdvanceGeneration
<1>4. ASSUME NEW e \in Editors, Create(e), id # nextId
      PROVE  record'[id] = record[id]
  BY <1>1, <1>4 DEF Create
<1>5. ASSUME NEW e \in Editors, NEW cmd \in Commands, NEW other \in Ids, Read(e, cmd, other)
      PROVE  record'[id] = record[id]
  BY <1>5 DEF Read
<1>6. ASSUME NEW e \in Editors, Write(e), edit[e].id # id
      PROVE  record'[id] = record[id]
  BY <1>1, <1>6, WriteCases
<1> QED
  BY <1>2, <1>3, <1>4, <1>5, <1>6 DEF InstancesNext, SupervisorStarts, EditorStep

\* A command that arrives late never reaches another instance under the identity
\* of a deleted one (InstanceStore::create, the allocator).
THEOREM NeverReused == InstancesSpec => DeletedForGood
<1>1. ASSUME InstancesTypeOK, InstancesNext, NEW id \in Ids, id < nextId, record[id] = None
      PROVE  record'[id] = None
  <2>1. nextId \in Nat /\ id \in Nat
    BY <1>1, InstancesAssumption DEF InstancesTypeOK, Ids
  <2>2. \A t \in 0..MaxTime : ~AdvanceGeneration(id, t)
    BY <1>1 DEF AdvanceGeneration, CanAdvance, Fresh
  <2>3. ASSUME NEW e \in Editors, Write(e) PROVE record'[id] = None
    BY <1>1, <2>3, WriteRecord
  <2> QED
    BY <1>1, <2>1, <2>2, <2>3, RecordSteps
<1>2. InstancesTypeOK /\ [InstancesNext]_instanceVars =>
          [\A id \in Ids : id < nextId /\ record[id] = None => record'[id] = None]_instanceVars
  BY <1>1
<1> QED
  BY <1>2, StoreTypeCorrect, PTL DEF InstancesSpec, DeletedForGood

\* Only identities that were given out are in the table; without this a create
\* might replace a record by a younger one.
Allocated == \A id \in Ids : record[id] # None => id < nextId

LEMMA AllocatedStays ==
    InstancesTypeOK /\ Allocated /\ [InstancesNext]_instanceVars => Allocated'
<1> SUFFICES ASSUME InstancesTypeOK, Allocated, [InstancesNext]_instanceVars,
                    NEW id \in Ids, record'[id] # None
             PROVE  id < nextId'
  BY DEF Allocated
<1>1. nextId \in Nat /\ id \in Nat /\ nextId <= nextId'
  BY InstancesAssumption
     DEF InstancesTypeOK, Ids, InstancesNext, EditorStep, Create, Read, Write, Tick,
         SupervisorStarts, instanceVars
<1>2. CASE UNCHANGED instanceVars
  BY <1>2 DEF instanceVars, Allocated
<1>3. CASE record[id] # None
  <2>1. id < nextId
    BY <1>3 DEF Allocated
  <2> QED
    BY <1>1, <2>1, NextTyped DEF InstancesTypeOK
<1>4. CASE InstancesNext /\ record[id] = None
  <2>1. \A t \in 0..MaxTime : ~AdvanceGeneration(id, t)
    BY <1>4 DEF AdvanceGeneration, CanAdvance, Fresh
  <2>2. \A e \in Editors : ~Write(e)
    BY <1>4, WriteRecord
  <2>3. PICK e \in Editors : Create(e) /\ id = nextId
    BY <1>4, <2>1, <2>2, RecordSteps
  <2>4. nextId' = nextId + 1
    BY <2>3 DEF Create
  <2> QED
    BY <1>1, <2>3, <2>4
<1> QED
  BY <1>2, <1>3, <1>4

LEMMA AlwaysAllocated == InstancesSpec => []Allocated
<1>1. InstancesInit => Allocated
  BY DEF InstancesInit, Allocated
<1> QED
  BY <1>1, AllocatedStays, StoreTypeCorrect, PTL DEF InstancesSpec

\* The columns a rewritten record may differ in, and in what steps.
Kept(id) ==
    /\ record'[id].updated >= record[id].updated
    /\ record'[id].gen >= record[id].gen
    /\ record'[id].config # record[id].config => Completes(id, {"configure"})
    /\ record'[id].version # record[id].version => Completes(id, {"rollback"})
    /\ record'[id].desired # record[id].desired => Completes(id, {"start", "stop"})

\* Editors and the supervisor with clocks of their own, in any order: neither the
\* time nor the generation of a record ever falls, and each column keeps what was
\* written last to it (update_if_current, advance_generation).
THEOREM NoUpdateIsLost == InstancesSpec => UpdatesAreKept
<1>1. ASSUME InstancesTypeOK, Allocated, InstancesNext, NEW id \in Ids, Rewritten(id)
      PROVE  Kept(id)
  <2>1. /\ record \in [Ids -> Record \cup {None}] /\ record[id] \in Record
        /\ record[id].updated \in Nat /\ record[id].gen \in Nat
    BY <1>1, InstancesAssumption DEF InstancesTypeOK, Rewritten, Record
  <2>2. CASE record'[id] = record[id]
    BY <2>1, <2>2 DEF Kept
  <2>3. id # nextId
    BY <1>1 DEF Allocated, Rewritten, InstancesTypeOK
  <2>4. ASSUME NEW e \in Editors, Write(e), edit[e].id = id
        PROVE  Kept(id)
    <3>1. edit[e] \in Edit
      BY <1>1, <2>4, WriteCases
    <3>2. CASE record' = [record EXCEPT ![id] = None]
      BY <1>1, <2>1, <3>2 DEF Rewritten
    <3>3. ASSUME NEW t \in 0..MaxTime, Fresh(id, t), edit[e].cmd # "delete",
                 record' = [record EXCEPT ![id] = Written(edit[e], t)]
          PROVE  Kept(id)
      <4> DEFINE r == record[id]
                 s == Written(edit[e], t)
      <4>1. /\ s.updated = t /\ s.gen = r.gen
            /\ edit[e].cmd # "rollback" => s.version = r.version
            /\ edit[e].cmd # "configure" => s.config = r.config
            /\ edit[e].cmd \notin {"start", "stop"} => s.desired = r.desired
        BY <1>1, <2>4, <3>1, <3>3, WrittenFacts DEF Fresh
      <4>2. record'[id] = s /\ r.updated <= t
        BY <2>1, <3>3 DEF Fresh
      <4>3. edit[e] # None /\ edit'[e] = None
        BY <1>1, <2>4 DEF Write, InstancesTypeOK
      <4>4. \A cmds : edit[e].cmd \in cmds => Completes(id, cmds)
        BY <2>4, <4>3 DEF Completes
      <4> HIDE DEF s
      <4> QED
        BY <2>1, <4>1, <4>2, <4>4 DEF Kept
    <3> QED
      BY <1>1, <2>2, <2>4, <3>2, <3>3, WriteCases
  <2>5. ASSUME NEW t \in 0..MaxTime, AdvanceGeneration(id, t)
        PROVE  Kept(id)
    <3>1. /\ record[id].updated <= t /\ Advanced(id, t).updated = t
          /\ Advanced(id, t).gen = record[id].gen + 1
          /\ Advanced(id, t).version = record[id].version
          /\ Advanced(id, t).config = record[id].config
          /\ Advanced(id, t).desired = record[id].desired
          /\ record'[id] = Advanced(id, t)
      BY <1>1, <2>1, <2>5, AdvanceRecord
    <3> QED
      BY <2>1, <3>1 DEF Kept
  <2> QED
    BY <1>1, <2>2, <2>3, <2>4, <2>5, RecordSteps
<1>2. InstancesTypeOK /\ Allocated /\ [InstancesNext]_instanceVars =>
          [\A id \in Ids : Rewritten(id) =>
              /\ record'[id].updated >= record[id].updated
              /\ record'[id].gen >= record[id].gen
              /\ record'[id].config # record[id].config => Completes(id, {"configure"})
              /\ record'[id].version # record[id].version => Completes(id, {"rollback"})
              /\ record'[id].desired # record[id].desired =>
                     Completes(id, {"start", "stop"})]_instanceVars
  BY <1>1 DEF Kept
<1> QED
  BY <1>2, StoreTypeCorrect, AlwaysAllocated, PTL DEF InstancesSpec, UpdatesAreKept

\* A rollback planned from an old reading does nothing once the installation or
\* the desired state has changed (the WHERE clause of a rollback).
THEOREM PlansHold == InstancesSpec => RollbackAsPlanned
<1>1. ASSUME InstancesTypeOK, Allocated, InstancesNext, NEW id \in Ids, Rewritten(id),
             record'[id].version # record[id].version
      PROVE  /\ record[id].desired = "stopped"
             /\ \E e \in Editors : /\ edit[e] # None
                                   /\ edit[e].id = id
                                   /\ edit[e].seen.version = record[id].version
  <2>1. record \in [Ids -> Record \cup {None}]
    BY <1>1 DEF InstancesTypeOK
  <2>2. id # nextId
    BY <1>1 DEF Allocated, Rewritten, InstancesTypeOK
  <2>3. \A t \in 0..MaxTime : ~AdvanceGeneration(id, t)
    <3> SUFFICES ASSUME NEW t \in 0..MaxTime, AdvanceGeneration(id, t) PROVE FALSE
      OBVIOUS
    <3>1. record'[id] = Advanced(id, t) /\ Advanced(id, t).version = record[id].version
      BY <1>1, <2>1, AdvanceRecord
    <3> QED
      BY <1>1, <3>1
  <2>4. PICK e \in Editors : Write(e) /\ edit[e].id = id
    BY <1>1, <2>2, <2>3, RecordSteps
  <2>5. edit[e] \in Edit /\ edit[e] # None
    BY <1>1, <2>4, WriteCases DEF Write
  <2>6. PICK t \in 0..MaxTime :
            /\ Fresh(id, t) /\ edit[e].cmd # "delete"
            /\ edit[e].cmd = "rollback" => SameInstallation(edit[e])
            /\ record' = [record EXCEPT ![id] = Written(edit[e], t)]
    BY <1>1, <2>1, <2>4, WriteCases DEF Rewritten
  <2>7. record'[id] = Written(edit[e], t)
    BY <2>1, <2>6
  <2>8. edit[e].cmd = "rollback"
    BY <1>1, <2>4, <2>5, <2>6, <2>7, WrittenFacts DEF Fresh
  <2> QED
    BY <2>4, <2>5, <2>6, <2>8 DEF SameInstallation
<1>2. InstancesTypeOK /\ Allocated /\ [InstancesNext]_instanceVars =>
          [\A id \in Ids :
              (Rewritten(id) /\ record'[id].version # record[id].version) =>
                  /\ record[id].desired = "stopped"
                  /\ \E e \in Editors : /\ edit[e] # None
                                        /\ edit[e].id = id
                                        /\ edit[e].seen.version = record[id].version]_instanceVars
  BY <1>1
<1> QED
  BY <1>2, StoreTypeCorrect, AlwaysAllocated, PTL DEF InstancesSpec, RollbackAsPlanned

-----------------------------------------------------------------------------
(***************************************************************************)
(* The inductive invariant.                                                *)
(***************************************************************************)
\* What the worker has planned: the batch is made from the records listed, and what is still to be
\* prepared is in todo.
Planning == {"advance", "fetch", "send"}
Planned ==
    /\ wpc \in {"advance", "fetch"} <=> todo # {}
    /\ wpc \in Planning =>
         \A id \in Ids :
            /\ batch[id].stop = Stops(snapshot, id)
            /\ batch[id].act # "none" \/ id \in todo => Changed(snapshot, id)
            /\ id \in todo <=> Changed(snapshot, id) /\ batch[id].act = "none"
            /\ batch[id].act = "start" => batch[id].planned = FingerprintOf(snapshot[id])
    /\ wpc = "report" => \A id \in Ids : batch[id] = Nothing

\* A start in the batch or in the channel carries what it is to run.
Prints(action) ==
    /\ action.act = "start" => action.print \in Fingerprint /\ action.planned \in Fingerprint
    /\ action.act # "start" => action.gen = 0
Carried ==
    \A id \in Ids : Prints(batch[id]) /\ \A i \in DOMAIN queue : Prints(queue[i][id])

\* Only instances that were created have anything to do with sessions.
Starts(id) ==
    \/ batch[id].act = "start"
    \/ \E i \in DOMAIN queue : queue[i][id].act = "start"
Born ==
    \A id \in Ids :
        \/ id < nextId
        \/ /\ record[id] = None /\ snapshot[id] = None /\ desiredGen[id] = 0 /\ ~Starts(id)
           /\ \A t \in tasks : t.id # id

\* All that has been sent for an instance is older than generation g.
Below(id, g) ==
    /\ desiredGen[id] < g
    /\ \A i \in DOMAIN queue : queue[i][id].act = "start" => queue[i][id].gen < g
    /\ \A t \in tasks : t.id = id => t.gen < g

\* What has been sent for an instance is in the order of its generations.
SentInOrder(id) ==
    /\ sessions[id] # None => sessions[id].gen <= desiredGen[id]
    /\ \A i \in DOMAIN queue : queue[i][id].act = "start" =>
         /\ desiredGen[id] < queue[i][id].gen
         /\ \A t \in tasks : t.id = id => t.gen < queue[i][id].gen
         /\ \A j \in DOMAIN queue : queue[j][id].act = "start" /\ i < j => queue[i][id].gen < queue[j][id].gen
    /\ \A t \in tasks : t.id = id =>
         /\ 1 <= t.gen
         /\ desiredGen[id] # 0 => t.gen <= desiredGen[id]
         /\ \A u \in tasks : u.id = id /\ u.gen = t.gen => u = t

\* The record is as new as anything sent for it, and strictly newer once its generation has been
\* advanced for the start that is being prepared.
InOrder ==
    \A id \in Ids :
        /\ SentInOrder(id)
        /\ batch[id].act = "start" => Below(id, batch[id].gen)
        /\ record[id] # None => Below(id, record[id].gen + 1) /\ batch[id].gen <= record[id].gen
        /\ wpc = "fetch" /\ id = Current /\ record[id] # None => Below(id, record[id].gen)

\* An instance has a session, or a start that will give it one, ...
Live(id) == sessions[id] # None \/ \E t \in tasks : t.id = id /\ t.gen = desiredGen[id]

\* ... and has neither once the first n batches have been applied.
Ends(action) == action.act = "fail" \/ (action.stop /\ action.act # "start")
Quiet(id, n) ==
    /\ Live(id) => \E j \in 1..n : Ends(queue[j][id])
    /\ \A i \in 1..n : queue[i][id].act = "start" => \E j \in i + 1..n : Ends(queue[j][id])

\* What the worker does not know of has ended by the time its next start is applied, unless it
\* was told to forget it (hasty); so a start without a stop finds no session.
NoneLeft ==
    \A id \in Ids \ hasty :
        /\ known[id] = None => Quiet(id, Len(queue))
        /\ \A i \in DOMAIN queue : queue[i][id].act = "start" /\ ~queue[i][id].stop => Quiet(id, i - 1)

\* A start on its way has no session in its place.
StartIsShown ==
    \A t \in tasks : t.id \notin hasty /\ t.gen = desiredGen[t.id] =>
        sessions[t.id] = None /\ observed[t.id] = "starting"

\* What the worker knows of is there once the batches have been applied, or known to have failed;
\* and it was planned from the record the worker knows.
Moot(action) == action.act = "none" /\ ~action.stop
LastIn(id, i) == \A j \in i + 1..Len(queue) : Moot(queue[j][id])
Served ==
    ~closed => \A id \in Ids : known[id] # None =>
        \/ \E i \in DOMAIN queue : queue[i][id].act # "none" /\ LastIn(id, i)
        \/ LastIn(id, 0) /\ (Live(id) \/ observed[id] = "failed")
AsPlanned ==
    ~closed => \A id \in Ids \ hasty : known[id] # None =>
        /\ \A i \in DOMAIN queue :
              queue[i][id].act = "start" /\ LastIn(id, i) => queue[i][id].planned = known[id]
        /\ LastIn(id, 0) =>
              /\ sessions[id] # None => sessions[id].planned = known[id]
              /\ \A t \in tasks : t.id = id /\ t.gen = desiredGen[id] => t.planned = known[id]

IInv ==
    /\ Served /\ AsPlanned
    /\ TypeOK /\ Planned /\ Carried /\ Born /\ InOrder /\ NoneLeft
    /\ SessionIsDesired /\ ObservedIsTrue /\ StartIsShown
-----------------------------------------------------------------------------
(* Facts about the data.                                                   *)

LEMMA FirstIsLeast ==
    ASSUME NEW T \in SUBSET Nat, T # {} PROVE \E x \in T : \A y \in T : x <= y
<1>1. PICK R : R = OpToRel(<, Nat)
  OBVIOUS
<1>2. IsWellFoundedOn(R, Nat)
  BY <1>1, NatLessThanWellFounded
<1>3. PICK x \in T : \A y \in T : ~ (<<y, x>> \in R)
  BY <1>2, WFMin
<1>4. \A a, b \in Nat : <<b, a>> \in R <=> b < a
  <2>1. R = {ss \in Nat \X Nat : ss[1] < ss[2]}
    BY <1>1 DEF OpToRel
  <2> QED
    BY <2>1
<1>5. \A y \in T : ~(y < x)
  BY <1>3, <1>4
<1> QED
  BY <1>5

LEMMA CurrentIsTodo == ASSUME todo \subseteq Ids, todo # {} PROVE Current \in todo
<1>1. \E id \in todo : \A other \in todo : id <= other
  BY FirstIsLeast DEF Ids
<1> QED
  BY <1>1 DEF Current

LEMMA AppendFacts ==
    ASSUME NEW S, NEW s \in Seq(S), NEW e \in S
    PROVE  /\ Append(s, e) \in Seq(S) /\ Len(Append(s, e)) = Len(s) + 1
           /\ DOMAIN Append(s, e) = 1..Len(s) + 1 /\ DOMAIN s = 1..Len(s) /\ Len(s) \in Nat
           /\ \A k \in 1..Len(s) : Append(s, e)[k] = s[k]
           /\ Append(s, e)[Len(s) + 1] = e
  OBVIOUS

LEMMA TailFacts ==
    ASSUME NEW S, NEW s \in Seq(S), s # <<>>
    PROVE  /\ Head(s) \in S /\ Head(s) = s[1] /\ Tail(s) \in Seq(S)
           /\ Len(s) \in Nat \ {0} /\ Len(Tail(s)) = Len(s) - 1
           /\ DOMAIN Tail(s) = 1..Len(s) - 1 /\ DOMAIN s = 1..Len(s)
           /\ \A k \in 1..Len(s) - 1 : Tail(s)[k] = s[k + 1]
  OBVIOUS

LEMMA FingerprintFacts ==
    /\ \A r \in Record : FingerprintOf(r) \in Fingerprint
    /\ None \notin Fingerprint /\ None \notin Record /\ None \notin Session
  BY NoneAssumption, NothingAssumption DEF FingerprintOf, Fingerprint, Record

\* The records a plan is made from.
LEMMA PlanFacts ==
    ASSUME NEW records \in [Ids -> Record \cup {None}], NEW id \in Ids
    PROVE  /\ Wanted(records, id) \in BOOLEAN /\ Changed(records, id) \in BOOLEAN
           /\ Stops(records, id) \in BOOLEAN
           /\ NextKnown(records)[id] = None <=> ~Wanted(records, id)
           /\ Wanted(records, id) => records[id] \in Record
<1>1. ASSUME NEW other \in Ids, Wanted(records, other) PROVE records[other] \in Record
  BY <1>1 DEF Wanted
<1>3. NextKnown(records)[id] = None <=> ~Wanted(records, id)
  BY <1>1, FingerprintFacts DEF NextKnown
<1> QED
  BY <1>1, <1>3 DEF Wanted, Changed, Stops

LEMMA NextKnownTyped ==
    ASSUME NEW records \in [Ids -> Record \cup {None}]
    PROVE  NextKnown(records) \in [Ids -> Fingerprint \cup {None}]
<1>1. ASSUME NEW id \in Ids, Wanted(records, id) PROVE FingerprintOf(records[id]) \in Fingerprint
  BY <1>1, FingerprintFacts DEF Wanted
<1> QED
  BY <1>1 DEF NextKnown

LEMMA NothingTyped == Nothing \in Action /\ \A stop \in BOOLEAN : [Nothing EXCEPT !.stop = stop] \in Action
  BY InstancesAssumption DEF Nothing, Action

\* Where the worker is while it prepares a start.
LEMMA AtCurrent ==
    ASSUME TypeOK, Planned, wpc \in {"advance", "fetch"}
    PROVE  /\ Current \in todo /\ Current \in Ids
           /\ snapshot[Current] \in Record /\ Wanted(snapshot, Current) /\ Changed(snapshot, Current)
<1>1. Current \in todo /\ Current \in Ids
  BY CurrentIsTodo DEF TypeOK, Planned
<1>2. Changed(snapshot, Current)
  BY <1>1 DEF Planned, Planning
<1> QED
  BY <1>1, <1>2 DEF Changed, Wanted, TypeOK

\* The store sees its own steps only.
LEMMA StoreSteps ==
    ASSUME TypeOK, Planned, [Next]_vars
    PROVE  [InstancesNext]_instanceVars
<1>1. CASE Advance
  <2>1. CASE AdvanceGeneration(Current, Later(now, snapshot[Current].updated))
    <3>1. Current \in Ids /\ snapshot[Current].updated \in 0..MaxTime /\ now \in 0..MaxTime
      BY <1>1, AtCurrent DEF Advance, Record, TypeOK, InstancesTypeOK
    <3>2. Later(now, snapshot[Current].updated) \in 0..MaxTime
      BY <3>1 DEF Later
    <3> QED
      BY <1>1, <2>1, <3>1, <3>2 DEF Advance, EditorsIdle, InstancesNext, SupervisorStarts
  <2>2. CASE UNCHANGED record
    BY <1>1, <2>2 DEF Advance, EditorsIdle, instanceVars
  <2> QED
    BY <1>1, <2>1, <2>2 DEF Advance
<1>2. CASE Outside
  BY <1>2 DEF Outside, InstancesNext
<1>3. CASE ~Advance /\ ~Outside
  BY <1>3 DEF Next, vars, Worker, List, ListFails, Fetch, Send, TakeCommand, Poll, EditorsIdle, ApplyActions,
     TaskStarts, TaskFails, Runtime, Lifecycle, Retry, Drop, instanceVars
<1> QED
  BY <1>1, <1>2, <1>3

LEMMA StoreTyped == TypeOK /\ Planned /\ [Next]_vars => InstancesTypeOK'
  BY StoreSteps, NextTyped DEF TypeOK
-----------------------------------------------------------------------------
(* Types.                                                                  *)

WorkerTyped ==
    /\ wpc \in {"list", "advance", "fetch", "send", "report", "wait", "done"}
    /\ known \in [Ids -> Fingerprint \cup {None}]
    /\ snapshot \in [Ids -> Record \cup {None}]
    /\ todo \subseteq Ids
    /\ batch \in [Ids -> Action]

ChannelsTyped ==
    /\ queue \in Seq([Ids -> Action]) /\ Len(queue) <= QueueCap
    /\ commands \in Seq(Ids \cup {StopCommand}) /\ Len(commands) <= CommandCap

UITyped ==
    /\ sessions \in [Ids -> Session \cup {None}]
    /\ desiredGen \in [Ids -> 0..MaxGen]
    /\ tasks \subseteq Started
    /\ observed \in [Ids -> {"unknown", "starting", "running", "failed", "stopped"}]
    /\ closed \in BOOLEAN
    /\ retries \in 0..MaxRetries
    /\ hasty \subseteq Ids

LEMMA TypeParts == TypeOK <=> InstancesTypeOK /\ WorkerTyped /\ ChannelsTyped /\ UITyped
  BY DEF TypeOK, WorkerTyped, ChannelsTyped, UITyped

\* The batch with one more instance prepared.
LEMMA PreparedFacts ==
    ASSUME TypeOK, Planned, wpc \in {"advance", "fetch"},
           NEW act \in {"start", "fail"}, NEW gen \in 0..MaxGen, NEW print \in Fingerprint \cup {None},
           Prepared(act, gen, print)
    PROVE  /\ batch' \in [Ids -> Action]
           /\ batch'[Current].stop = batch[Current].stop /\ batch'[Current].act = act
           /\ batch'[Current].gen = gen /\ batch'[Current].print = print
           /\ act = "start" => /\ batch'[Current].planned \in Fingerprint
                               /\ batch'[Current].planned = FingerprintOf(snapshot[Current])
           /\ \A id \in Ids \ {Current} : batch'[id] = batch[id]
           /\ todo' = todo \ {Current} /\ wpc' \in {"send", "advance"} /\ (wpc' = "send" <=> todo' = {})
<1>1. Current \in Ids /\ FingerprintOf(snapshot[Current]) \in Fingerprint
  BY AtCurrent, FingerprintFacts
<1>2. batch \in [Ids -> Action] /\ batch[Current] \in Action
  BY <1>1 DEF TypeOK
<1> DEFINE planned == IF act = "start" THEN FingerprintOf(snapshot[Current]) ELSE None
           action  == [batch[Current] EXCEPT !.act = act, !.gen = gen, !.print = print, !.planned = planned]
<1>3. planned \in Fingerprint \cup {None}
  BY <1>1
<1>4. /\ action \in Action /\ action.stop = batch[Current].stop /\ action.act = act
      /\ action.gen = gen /\ action.print = print /\ action.planned = planned
  <2> HIDE DEF planned
  <2> QED
    BY <1>2, <1>3 DEF Action
<1>5. batch' = [batch EXCEPT ![Current] = action]
  BY <1>2 DEF Prepared, Action
<1>6. batch'[Current] = action /\ \A id \in Ids \ {Current} : batch'[id] = batch[id]
  <2> HIDE DEF action
  <2> QED
    BY <1>1, <1>2, <1>5
<1>7. batch' \in [Ids -> Action]
  <2> HIDE DEF action
  <2> QED
    BY <1>2, <1>4, <1>5
<1>8. act = "start" => planned \in Fingerprint /\ planned = FingerprintOf(snapshot[Current])
  BY <1>1
<1> QED
  BY <1>4, <1>6, <1>7, <1>8 DEF Prepared

LEMMA WorkerTypes == TypeOK /\ Planned /\ [Next]_vars => WorkerTyped'
<1> SUFFICES ASSUME TypeOK, Planned, [Next]_vars PROVE WorkerTyped'
  OBVIOUS
<1>0. WorkerTyped /\ record \in [Ids -> Record \cup {None}]
  BY DEF TypeOK, WorkerTyped, InstancesTypeOK
<1>1. CASE List
  <2>1. \A id \in Ids : Stops(record, id) \in BOOLEAN
    BY <1>0, PlanFacts
  <2>2. batch' \in [Ids -> Action]
    BY <1>1, <2>1, NothingTyped DEF List
  <2>3. known' \in [Ids -> Fingerprint \cup {None}]
    BY <1>0, <1>1, NextKnownTyped DEF List, WorkerTyped
  <2>4. wpc' \in {"send", "advance", "wait"}
    BY <1>1 DEF List
  <2> QED
    BY <1>0, <1>1, <2>2, <2>3, <2>4 DEF List, WorkerTyped
<1>2. CASE ListFails \/ Poll
  BY <1>0, <1>2, NothingTyped DEF ListFails, Poll, WorkerTyped
<1>3. CASE Advance
  <2>1. CASE Prepared("fail", 0, None)
    BY <1>0, <1>3, <2>1, PreparedFacts, InstancesAssumption DEF Advance, WorkerTyped
  <2>2. CASE ~Prepared("fail", 0, None)
    BY <1>0, <1>3, <2>2 DEF Advance, WorkerTyped
  <2> QED
    BY <2>1, <2>2
<1>4. CASE Fetch
  <2>1. CASE Prepared("fail", 0, None)
    BY <1>0, <1>4, <2>1, PreparedFacts, InstancesAssumption DEF Fetch, WorkerTyped
  <2>2. CASE record[Current] # None /\ Prepared("start", record[Current].gen, FingerprintOf(record[Current]))
    <3>1. record[Current].gen \in 0..MaxGen /\ FingerprintOf(record[Current]) \in Fingerprint
      BY <1>0, <1>4, <2>2, AtCurrent, FingerprintFacts DEF Fetch, Record
    <3> QED
      BY <1>0, <1>4, <2>2, <3>1, PreparedFacts DEF Fetch, WorkerTyped
  <2> QED
    BY <1>4, <2>1, <2>2 DEF Fetch
<1>5. CASE Send
  <2>2. known' \in [Ids -> Fingerprint \cup {None}]
    BY <1>0, <1>5, NextKnownTyped DEF Send, WorkerTyped
  <2> QED
    BY <1>0, <1>5, <2>2, NothingTyped DEF Send, Forget, WorkerTyped
<1>6. CASE TakeCommand
  BY <1>0, <1>6 DEF TakeCommand, WorkerTyped
<1>7. CASE UNCHANGED workerVars
  BY <1>0, <1>7 DEF workerVars, WorkerTyped
<1> QED
  BY <1>1, <1>2, <1>3, <1>4, <1>5, <1>6, <1>7 DEF Next, vars, workerVars, Worker, Outside, ApplyActions,
     TaskStarts, TaskFails, Runtime, Lifecycle, Retry, Drop

LEMMA ChannelTypes == TypeOK /\ [Next]_vars => ChannelsTyped'
<1> SUFFICES ASSUME TypeOK, [Next]_vars PROVE ChannelsTyped'
  OBVIOUS
<1> USE SupervisorAssumption
<1>0. ChannelsTyped /\ batch \in [Ids -> Action] /\ StopCommand \in Ids \cup {StopCommand}
  BY DEF TypeOK, ChannelsTyped
<1>1. CASE Send
  <2>1. CASE queue' = Append(queue, batch) /\ Len(queue) < QueueCap
    BY <1>0, <1>1, <2>1, AppendFacts DEF Send, ChannelsTyped
  <2>2. CASE UNCHANGED queue
    BY <1>0, <1>1, <2>2 DEF Send, ChannelsTyped
  <2> QED
    BY <1>1, <2>1, <2>2 DEF Send
<1>2. CASE TakeCommand
  BY <1>0, <1>2, TailFacts DEF TakeCommand, ChannelsTyped
<1>3. CASE ApplyActions
  BY <1>0, <1>3, TailFacts DEF ApplyActions, ChannelsTyped
<1>4. ASSUME NEW id \in Ids, Retry(id) PROVE ChannelsTyped'
  <2>1. \/ UNCHANGED commands
        \/ commands' = Append(commands, id) /\ Len(commands) < CommandCap
    BY <1>4 DEF Retry
  <2> QED
    BY <1>0, <1>4, <2>1, AppendFacts DEF Retry, ChannelsTyped
<1>5. CASE Drop
  <2>1. \/ UNCHANGED commands
        \/ commands' = Append(commands, StopCommand) /\ Len(commands) < CommandCap
    BY <1>5 DEF Drop
  <2>2. queue' \in Seq([Ids -> Action]) /\ Len(queue') <= QueueCap
    BY <1>5 DEF Drop
  <2>3. commands' \in Seq(Ids \cup {StopCommand}) /\ Len(commands') <= CommandCap
    BY <1>0, <2>1, AppendFacts DEF ChannelsTyped
  <2> QED
    BY <2>2, <2>3 DEF ChannelsTyped
<1>6. CASE UNCHANGED <<queue, commands>>
  BY <1>0, <1>6 DEF ChannelsTyped
<1> QED
  BY <1>1, <1>2, <1>3, <1>4, <1>5, <1>6 DEF Next, vars, Worker, List, ListFails, Advance, Fetch, Poll, Outside,
     TaskStarts, TaskFails, Runtime, Lifecycle

\* What applying a batch does to one instance.
LEMMA ApplyFacts ==
    ASSUME TypeOK, Carried, ApplyActions, NEW id \in Ids
    PROVE  /\ queue \in Seq([Ids -> Action]) /\ 1 \in DOMAIN queue /\ Head(queue) = queue[1]
           /\ queue[1][id] \in Action /\ Prints(queue[1][id])
           /\ Len(queue) \in Nat /\ Len(queue') = Len(queue) - 1
           /\ DOMAIN queue = 1..Len(queue) /\ DOMAIN queue' = 1..Len(queue')
           /\ \A i \in DOMAIN queue' : i + 1 \in DOMAIN queue /\ queue'[i] = queue[i + 1]
           /\ desiredGen'[id] = IF queue[1][id].act = "start" THEN queue[1][id].gen
                                ELSE IF queue[1][id].act = "fail" \/ queue[1][id].stop THEN 0
                                ELSE desiredGen[id]
           /\ sessions'[id] = IF queue[1][id].act = "fail" \/ queue[1][id].stop THEN None ELSE sessions[id]
           /\ tasks \subseteq tasks'
           /\ \E refused \in BOOLEAN :
                 /\ observed'[id] =
                      IF queue[1][id].act = "fail" \/ (refused /\ queue[1][id].act = "start") THEN "failed"
                      ELSE IF queue[1][id].act = "start" THEN "starting"
                      ELSE IF queue[1][id].stop THEN "stopped" ELSE observed[id]
                 /\ queue[1][id].act = "start" /\ ~refused =>
                      [id |-> id, gen |-> queue[1][id].gen, print |-> queue[1][id].print,
                       planned |-> queue[1][id].planned] \in tasks'
                 /\ \A t \in tasks' : t.id = id =>
                      \/ t \in tasks
                      \/ /\ queue[1][id].act = "start" /\ ~refused
                         /\ t = [id |-> id, gen |-> queue[1][id].gen, print |-> queue[1][id].print,
                                 planned |-> queue[1][id].planned]
<1>1. /\ queue \in Seq([Ids -> Action]) /\ queue # <<>> /\ queue' = Tail(queue)
  BY DEF TypeOK, ApplyActions
<1>2. /\ Head(queue) = queue[1] /\ 1 \in DOMAIN queue /\ queue[1] \in [Ids -> Action] /\ queue[1][id] \in Action
      /\ Len(queue) \in Nat /\ Len(queue') = Len(queue) - 1
      /\ DOMAIN queue = 1..Len(queue) /\ DOMAIN queue' = 1..Len(queue')
      /\ \A i \in DOMAIN queue' : i + 1 \in DOMAIN queue /\ queue'[i] = queue[i + 1]
  BY <1>1, TailFacts
<1>3. Prints(queue[1][id])
  BY <1>2 DEF Carried
<1> DEFINE starts == {other \in Ids : Head(queue)[other].act = "start"}
           fails  == {other \in Ids : Head(queue)[other].act = "fail"}
           stops  == {other \in Ids : Head(queue)[other].stop}
<1>4. PICK refused \in SUBSET starts :
        /\ desiredGen' = [other \in Ids |-> IF other \in starts THEN Head(queue)[other].gen
                                            ELSE IF other \in fails \cup stops THEN 0
                                            ELSE desiredGen[other]]
        /\ sessions' = [other \in Ids |-> IF other \in fails \cup stops THEN None ELSE sessions[other]]
        /\ observed' = [other \in Ids |-> IF other \in fails \cup refused THEN "failed"
                                          ELSE IF other \in starts THEN "starting"
                                          ELSE IF other \in stops THEN "stopped"
                                          ELSE observed[other]]
        /\ tasks' = tasks \cup {[id |-> other, gen |-> Head(queue)[other].gen, print |-> Head(queue)[other].print,
                                 planned |-> Head(queue)[other].planned] : other \in starts \ refused}
  BY DEF ApplyActions
<1>5. /\ id \in starts <=> queue[1][id].act = "start"
      /\ id \in fails <=> queue[1][id].act = "fail"
      /\ id \in stops <=> queue[1][id].stop
  BY <1>2
<1>6. desiredGen'[id] = IF queue[1][id].act = "start" THEN queue[1][id].gen
                        ELSE IF queue[1][id].act = "fail" \/ queue[1][id].stop THEN 0
                        ELSE desiredGen[id]
  BY <1>2, <1>4, <1>5
<1>7. sessions'[id] = IF queue[1][id].act = "fail" \/ queue[1][id].stop THEN None ELSE sessions[id]
  BY <1>2, <1>4, <1>5
<1>8. observed'[id] =
        IF queue[1][id].act = "fail" \/ (id \in refused /\ queue[1][id].act = "start") THEN "failed"
        ELSE IF queue[1][id].act = "start" THEN "starting"
        ELSE IF queue[1][id].stop THEN "stopped" ELSE observed[id]
  BY <1>2, <1>4, <1>5
<1>9. /\ tasks \subseteq tasks'
      /\ \A t \in tasks' : t.id = id =>
            \/ t \in tasks
            \/ /\ queue[1][id].act = "start" /\ id \notin refused
               /\ t = [id |-> id, gen |-> queue[1][id].gen, print |-> queue[1][id].print,
                       planned |-> queue[1][id].planned]
  <2> HIDE DEF fails, stops
  <2> QED
    BY <1>2, <1>4
<1>10. (id \in refused) \in BOOLEAN
  OBVIOUS
<1>11. queue[1][id].act = "start" /\ id \notin refused =>
         [id |-> id, gen |-> queue[1][id].gen, print |-> queue[1][id].print,
          planned |-> queue[1][id].planned] \in tasks'
  BY <1>2, <1>4, <1>5
<1> HIDE DEF starts, fails, stops
<1> QED
  BY <1>1, <1>2, <1>3, <1>6, <1>7, <1>8, <1>9, <1>10, <1>11

\* The same, for what happens to the channel and to the starts that run.
LEMMA ApplyShifts ==
    ASSUME TypeOK, Carried, ApplyActions, NEW id \in Ids
    PROVE  /\ 1 \in DOMAIN queue
           /\ \A i \in DOMAIN queue' : i + 1 \in DOMAIN queue /\ queue'[i] = queue[i + 1]
           /\ desiredGen'[id] \in {queue[1][id].gen, 0, desiredGen[id]}
           /\ queue[1][id].act # "start" => desiredGen'[id] \in {0, desiredGen[id]}
           /\ \A t \in tasks' : t.id = id =>
                 t \in tasks \/ (queue[1][id].act = "start" /\ t.gen = queue[1][id].gen)
<1>1. /\ 1 \in DOMAIN queue
      /\ \A i \in DOMAIN queue' : i + 1 \in DOMAIN queue /\ queue'[i] = queue[i + 1]
  BY ApplyFacts
<1>2. /\ desiredGen'[id] \in {queue[1][id].gen, 0, desiredGen[id]}
      /\ queue[1][id].act # "start" => desiredGen'[id] \in {0, desiredGen[id]}
  BY ApplyFacts
<1>3. ASSUME NEW t \in tasks', t.id = id
      PROVE  t \in tasks \/ (queue[1][id].act = "start" /\ t.gen = queue[1][id].gen)
  <2>1. \/ t \in tasks
        \/ /\ queue[1][id].act = "start"
           /\ t = [id |-> id, gen |-> queue[1][id].gen, print |-> queue[1][id].print,
                   planned |-> queue[1][id].planned]
    BY <1>3, ApplyFacts
  <2> QED
    BY <2>1
<1> QED
  BY <1>1, <1>2, <1>3

LEMMA UITypes == TypeOK /\ Carried /\ [Next]_vars => UITyped'
<1> SUFFICES ASSUME TypeOK, Carried, [Next]_vars PROVE UITyped'
  OBVIOUS
<1> USE SupervisorAssumption
<1>0. UITyped /\ known \in [Ids -> Fingerprint \cup {None}] /\ 0 \in 0..MaxGen
  BY InstancesAssumption DEF TypeOK, UITyped
<1>1. CASE ApplyActions
  <2>1. \A id \in Ids : /\ desiredGen'[id] \in 0..MaxGen
                        /\ sessions'[id] \in Session \cup {None}
                        /\ observed'[id] \in {"unknown", "starting", "running", "failed", "stopped"}
    BY <1>0, <1>1, ApplyFacts DEF UITyped, Action
  <2>2. /\ desiredGen' = [id \in Ids |-> desiredGen'[id]]
        /\ sessions' = [id \in Ids |-> sessions'[id]]
        /\ observed' = [id \in Ids |-> observed'[id]]
    BY <1>1 DEF ApplyActions
  <2>3. tasks' \subseteq Started
    <3> SUFFICES ASSUME NEW t \in tasks' PROVE t \in Started
      OBVIOUS
    <3>1. t.id \in Ids
      BY <1>0, <1>1 DEF ApplyActions, UITyped, Started
    <3>2. CASE t \in tasks
      BY <1>0, <3>2 DEF UITyped
    <3>3. CASE t \notin tasks
      <4>1. /\ queue[1][t.id] \in Action /\ Prints(queue[1][t.id]) /\ queue[1][t.id].act = "start"
            /\ t = [id |-> t.id, gen |-> queue[1][t.id].gen, print |-> queue[1][t.id].print,
                    planned |-> queue[1][t.id].planned]
        BY <1>1, <3>1, <3>3, ApplyFacts
      <4> QED
        BY <3>1, <4>1 DEF Prints, Started, Action
    <3> QED
      BY <3>2, <3>3
  <2> QED
    BY <1>0, <1>1, <2>1, <2>2, <2>3 DEF ApplyActions, UITyped
<1>2. ASSUME NEW t \in tasks, TaskStarts(t) PROVE UITyped'
  <2>1. t.id \in Ids /\ t \in Started
    BY <1>0 DEF UITyped, Started
  <2>2. [gen |-> t.gen, print |-> t.print, planned |-> t.planned,
         runtime |-> "booting", events |-> <<>>] \in Session
    BY <2>1 DEF Started, Session
  <2>3. sessions' \in [Ids -> Session \cup {None}]
    BY <1>0, <1>2, <2>1, <2>2 DEF TaskStarts, UITyped
  <2> QED
    BY <1>0, <1>2, <2>3 DEF TaskStarts, UITyped
<1>3. ASSUME NEW t \in tasks, TaskFails(t) PROVE UITyped'
  <2>1. observed' \in [Ids -> {"unknown", "starting", "running", "failed", "stopped"}]
    BY <1>0, <1>3 DEF TaskFails, UITyped
  <2> QED
    BY <1>0, <1>3, <2>1 DEF TaskFails, UITyped
<1>4. ASSUME NEW id \in Ids, Runtime(id) PROVE UITyped'
  <2> DEFINE s == sessions[id]
  <2>1. s \in Session /\ s.events \in Seq({"running", "failed"})
    BY <1>0, <1>4 DEF Runtime, UITyped, Session
  <2>2. /\ [s EXCEPT !.runtime = "up", !.events = Append(s.events, "running")] \in Session
        /\ [s EXCEPT !.runtime = "down", !.events = Append(s.events, "failed")] \in Session
    <3>1. Append(s.events, "running") \in Seq({"running", "failed"}) /\ Append(s.events, "failed") \in Seq({"running", "failed"})
      BY <2>1
    <3> HIDE DEF s
    <3> QED
      BY <2>1, <3>1 DEF Session
  <2>3. \E r \in Session : sessions' = [sessions EXCEPT ![id] = r]
    BY <1>0, <1>4, <2>1, <2>2 DEF Runtime, UITyped, Session
  <2>4. sessions' \in [Ids -> Session \cup {None}]
    BY <1>0, <2>3 DEF UITyped
  <2> QED
    BY <1>0, <1>4, <2>4 DEF Runtime, UITyped
<1>5. ASSUME NEW id \in Ids, Lifecycle(id) PROVE UITyped'
  <2> DEFINE s == sessions[id]
  <2>1. s \in Session /\ s.events \in Seq({"running", "failed"}) /\ s.events # <<>>
    BY <1>0, <1>5 DEF Lifecycle, UITyped, Session
  <2>2. Head(s.events) \in {"running", "failed"} /\ Tail(s.events) \in Seq({"running", "failed"})
    BY <2>1, TailFacts
  <2>3. [s EXCEPT !.events = Tail(s.events)] \in Session
    <3> HIDE DEF s
    <3> QED
      BY <2>1, <2>2 DEF Session
  <2>4. \E r \in Session \cup {None} : sessions' = [sessions EXCEPT ![id] = r]
    BY <1>0, <1>5, <2>1, <2>3 DEF Lifecycle, UITyped, Session
  <2>5. sessions' \in [Ids -> Session \cup {None}]
    BY <1>0, <2>4 DEF UITyped
  <2>6. observed' \in [Ids -> {"unknown", "starting", "running", "failed", "stopped"}]
    BY <1>0, <1>5, <2>2 DEF Lifecycle, UITyped
  <2> QED
    BY <1>0, <1>5, <2>5, <2>6 DEF Lifecycle, UITyped
<1>6. ASSUME NEW id \in Ids, Retry(id) PROVE UITyped'
  BY <1>0, <1>6 DEF Retry, uiVars, UITyped
<1>7. CASE Drop
  BY <1>0, <1>7 DEF Drop, UITyped
<1>8. CASE TakeCommand
  <2>1. hasty' \subseteq Ids
    <3>1. Head(commands) \in Ids \cup {StopCommand}
      BY <1>8, TailFacts DEF TakeCommand, TypeOK
    <3> QED
      BY <1>0, <1>8, <3>1 DEF TakeCommand, UITyped
  <2> QED
    BY <1>0, <1>8, <2>1 DEF TakeCommand, uiVars, UITyped
<1>9. CASE UNCHANGED <<uiVars, closed, retries, hasty>>
  BY <1>0, <1>9 DEF uiVars, UITyped
<1> QED
  BY <1>1, <1>2, <1>3, <1>4, <1>5, <1>6, <1>7, <1>8, <1>9 DEF Next, vars, uiVars, Worker, List, ListFails, Advance,
     Fetch, Send, Poll, Outside

LEMMA TypesStep == TypeOK /\ Planned /\ Carried /\ [Next]_vars => TypeOK'
  BY StoreTyped, WorkerTypes, ChannelTypes, UITypes, TypeParts
     DEF TypeOK, WorkerTyped, ChannelsTyped, UITyped
-----------------------------------------------------------------------------
(* The plan, and what is carried to the UI thread.                         *)

\* The plan when one more instance is prepared.
LEMMA PreparedStays ==
    ASSUME TypeOK, Planned, wpc \in {"advance", "fetch"}, UNCHANGED <<snapshot, known>>,
           NEW act \in {"start", "fail"}, NEW gen \in 0..MaxGen, NEW print \in Fingerprint \cup {None},
           Prepared(act, gen, print)
    PROVE  Planned'
<1>1. /\ Current \in Ids /\ Changed(snapshot, Current)
      /\ batch'[Current].stop = batch[Current].stop
      /\ batch'[Current].act = act
      /\ act = "start" => batch'[Current].planned = FingerprintOf(snapshot[Current])
      /\ \A id \in Ids \ {Current} : batch'[id] = batch[id]
      /\ todo' = todo \ {Current} /\ wpc' \in {"send", "advance"} /\ (wpc' = "send" <=> todo' = {})
  BY AtCurrent, PreparedFacts
<1>2. \A id \in Ids : (Stops(snapshot, id)' = Stops(snapshot, id)) /\ (Changed(snapshot, id)' = Changed(snapshot, id))
  BY DEF Stops, Changed, Wanted
<1>3. ASSUME NEW id \in Ids
      PROVE  /\ batch'[id].stop = Stops(snapshot, id)'
             /\ batch'[id].act # "none" \/ id \in todo' => Changed(snapshot, id)'
             /\ id \in todo' <=> Changed(snapshot, id)' /\ batch'[id].act = "none"
             /\ batch'[id].act = "start" => batch'[id].planned = FingerprintOf(snapshot[id])
  <2>1. /\ batch[id].stop = Stops(snapshot, id)
        /\ batch[id].act # "none" \/ id \in todo => Changed(snapshot, id)
        /\ id \in todo <=> Changed(snapshot, id) /\ batch[id].act = "none"
        /\ batch[id].act = "start" => batch[id].planned = FingerprintOf(snapshot[id])
    BY DEF Planned, Planning
  <2>2. CASE id = Current
    BY <1>1, <1>2, <2>1, <2>2
  <2>3. CASE id # Current
    BY <1>1, <1>2, <2>1, <2>3
  <2> QED
    BY <2>2, <2>3
<1> QED
  BY <1>1, <1>3 DEF Planned

LEMMA PlannedStep == TypeOK /\ Planned /\ [Next]_vars => Planned'
<1> SUFFICES ASSUME TypeOK, Planned, [Next]_vars PROVE Planned'
  OBVIOUS
<1>1. CASE List
  <2>1. /\ snapshot' = record /\ todo' = {id \in Ids : Changed(record, id)}
        /\ batch' = [id \in Ids |-> [Nothing EXCEPT !.stop = Stops(record, id)]]
    BY <1>1 DEF List
  <2>2. CASE \E id \in Ids : Changed(record, id) \/ Stops(record, id)
    <3>1. known' = known /\ wpc' = IF todo' = {} THEN "send" ELSE "advance"
      BY <1>1, <2>2 DEF List
    <3>2. \A id \in Ids : /\ Stops(snapshot, id)' = Stops(record, id)
                          /\ Changed(snapshot, id)' = Changed(record, id)
      BY <2>1, <3>1 DEF Stops, Changed, Wanted
    <3>3. \A id \in Ids : batch'[id].stop = Stops(record, id) /\ batch'[id].act = "none"
      BY <2>1 DEF Nothing
    <3>4. \A id \in Ids : id \in todo' <=> Changed(record, id)
      BY <2>1
    <3> QED
      BY <3>1, <3>2, <3>3, <3>4 DEF Planned
  <2>3. CASE ~ \E id \in Ids : Changed(record, id) \/ Stops(record, id)
    <3>1. wpc' = "wait" /\ todo' = {}
      BY <1>1, <2>3 DEF List
    <3> QED
      BY <3>1 DEF Planned, Planning
  <2> QED
    BY <2>2, <2>3
<1>2. CASE ListFails
  BY <1>2 DEF ListFails, Planned, Planning
<1>3. CASE Poll \/ TakeCommand \/ Send
  <2>1. wpc' \in {"list", "wait", "done"} /\ todo' = todo /\ wpc \notin {"advance", "fetch"}
    BY <1>3 DEF Poll, TakeCommand, Send
  <2> QED
    BY <2>1 DEF Planned, Planning
<1>4. CASE Advance
  <2>1. CASE Prepared("fail", 0, None)
    BY <1>4, <2>1, PreparedStays, InstancesAssumption DEF Advance
  <2>2. CASE ~Prepared("fail", 0, None)
    <3>1. wpc = "advance" /\ wpc' = "fetch" /\ UNCHANGED <<todo, batch, snapshot, known>>
      BY <1>4, <2>2 DEF Advance
    <3> QED
      BY <3>1 DEF Planned, Planning, Stops, Changed, Wanted
  <2> QED
    BY <2>1, <2>2
<1>5. CASE Fetch
  <2>1. CASE Prepared("fail", 0, None)
    BY <1>5, <2>1, PreparedStays, InstancesAssumption DEF Fetch
  <2>2. CASE record[Current] # None /\ Prepared("start", record[Current].gen, FingerprintOf(record[Current]))
    <3>1. record[Current].gen \in 0..MaxGen /\ FingerprintOf(record[Current]) \in Fingerprint
      BY <1>5, <2>2, AtCurrent, FingerprintFacts DEF Fetch, Record, TypeOK, InstancesTypeOK
    <3> QED
      BY <1>5, <2>2, <3>1, PreparedStays DEF Fetch
  <2> QED
    BY <1>5, <2>1, <2>2 DEF Fetch
<1>6. CASE UNCHANGED workerVars
  BY <1>6 DEF workerVars, Planned, Planning, Stops, Changed, Wanted
<1> QED
  BY <1>1, <1>2, <1>3, <1>4, <1>5, <1>6 DEF Next, vars, workerVars, Worker, Outside, ApplyActions,
     TaskStarts, TaskFails, Runtime, Lifecycle, Retry, Drop

\* What a batch may be after a step: as it was, without an action, or with one more prepared.
LEMMA BatchSteps ==
    ASSUME TypeOK, Planned, [Next]_vars, NEW id \in Ids
    PROVE  \/ batch'[id] = batch[id]
           \/ batch'[id].act = "none" /\ batch'[id].gen = 0
           \/ /\ id = Current /\ id \in todo /\ batch'[id].act = "fail" /\ batch'[id].gen = 0
              /\ batch'[id].stop = batch[id].stop /\ wpc \in {"advance", "fetch"}
           \/ /\ wpc = "fetch" /\ id = Current /\ id \in todo /\ record[id] \in Record
              /\ batch'[id].act = "start" /\ batch'[id].gen = record[id].gen
              /\ batch'[id].stop = batch[id].stop
              /\ batch'[id].print \in Fingerprint /\ batch'[id].planned \in Fingerprint
              /\ UNCHANGED <<record, queue, desiredGen, tasks>>
<1>1. CASE List \/ ListFails \/ Send
  BY <1>1 DEF List, ListFails, Send, Forget, Nothing
<1>2. CASE Advance
  <2>1. CASE Prepared("fail", 0, None)
    BY <1>2, <2>1, PreparedFacts, AtCurrent, InstancesAssumption DEF Advance
  <2> QED
    BY <1>2, <2>1 DEF Advance
<1>3. CASE Fetch
  <2>1. CASE Prepared("fail", 0, None)
    BY <1>3, <2>1, PreparedFacts, AtCurrent, InstancesAssumption DEF Fetch
  <2>2. CASE record[Current] # None /\ Prepared("start", record[Current].gen, FingerprintOf(record[Current]))
    <3>1. /\ record[Current] \in Record /\ record[Current].gen \in 0..MaxGen
          /\ FingerprintOf(record[Current]) \in Fingerprint
      BY <1>3, <2>2, AtCurrent, FingerprintFacts DEF Fetch, Record, TypeOK, InstancesTypeOK
    <3> QED
      BY <1>3, <2>2, <3>1, PreparedFacts, AtCurrent DEF Fetch, uiVars
  <2> QED
    BY <1>3, <2>1, <2>2 DEF Fetch
<1>4. CASE UNCHANGED batch
  BY <1>4
<1> QED
  BY <1>1, <1>2, <1>3, <1>4 DEF Next, vars, workerVars, Worker, Outside, ApplyActions, TakeCommand, Poll,
     TaskStarts, TaskFails, Runtime, Lifecycle, Retry, Drop

\* The channel after a step.
LEMMA QueueSteps ==
    ASSUME TypeOK, [Next]_vars
    PROVE  \/ queue' = queue
           \/ Send /\ queue' = Append(queue, batch) /\ wpc \in {"send", "report"}
              /\ (known' = IF wpc = "send" THEN NextKnown(snapshot) ELSE known)
           \/ ApplyActions
           \/ Drop
  BY DEF Next, vars, Worker, List, ListFails, Advance, Fetch, Send, TakeCommand, Poll, Outside,
     TaskStarts, TaskFails, Runtime, Lifecycle, Retry

LEMMA CarriedStep == TypeOK /\ Planned /\ Carried /\ [Next]_vars => Carried'
<1> SUFFICES ASSUME TypeOK, Planned, Carried, [Next]_vars, NEW id \in Ids
             PROVE  Prints(batch'[id]) /\ \A i \in DOMAIN queue' : Prints(queue'[i][id])
  BY DEF Carried
<1>1. Prints(batch'[id])
  BY BatchSteps DEF Carried, Prints
<1>2. ASSUME NEW i \in DOMAIN queue' PROVE Prints(queue'[i][id])
  <2>1. CASE queue' = queue
    BY <2>1 DEF Carried
  <2>2. CASE queue' = Append(queue, batch)
    <3>1. queue \in Seq([Ids -> Action]) /\ batch \in [Ids -> Action]
      BY DEF TypeOK
    <3> QED
      BY <2>2, <3>1, AppendFacts DEF Carried
  <2>3. CASE ApplyActions
    BY <2>3, ApplyFacts DEF Carried
  <2>4. CASE Drop
    BY <2>4 DEF Drop
  <2> QED
    BY <2>1, <2>2, <2>3, <2>4, QueueSteps
<1> QED
  BY <1>1, <1>2

\* The generation wanted, and the starts that run for it.
LEMMA TaskSteps ==
    ASSUME TypeOK, [Next]_vars
    PROVE  \/ UNCHANGED desiredGen /\ tasks' \subseteq tasks
           \/ ApplyActions
           \/ Drop
  BY DEF Next, vars, uiVars, Worker, List, ListFails, Advance, Fetch, Send, TakeCommand, Poll, Outside,
     TaskStarts, TaskFails, Runtime, Lifecycle, Retry

LEMMA BornStep == TypeOK /\ Planned /\ Carried /\ Born /\ [Next]_vars => Born'
<1> SUFFICES ASSUME TypeOK, Planned, Carried, Born, [Next]_vars, NEW id \in Ids, ~(id < nextId')
             PROVE  /\ record'[id] = None /\ snapshot'[id] = None /\ desiredGen'[id] = 0 /\ ~Starts(id)'
                    /\ \A t \in tasks' : t.id # id
  BY DEF Born
<1>1. nextId \in Nat /\ nextId <= nextId' /\ id \in Nat /\ nextId' \in Nat
  <2>1. nextId' \in {nextId, nextId + 1}
    BY StoreSteps DEF InstancesNext, EditorStep, Create, Read, Write, Tick, SupervisorStarts, instanceVars
  <2> QED
    BY <2>1, InstancesAssumption DEF TypeOK, InstancesTypeOK, Ids
<1>2. /\ record[id] = None /\ snapshot[id] = None /\ desiredGen[id] = 0 /\ ~Starts(id)
      /\ \A t \in tasks : t.id # id
  BY <1>1 DEF Born
<1>3. record'[id] = None
  <2>1. Allocated
    BY DEF Born, Allocated
  <2> QED
    BY <1>1, <2>1, AllocatedStays, StoreSteps DEF Allocated, TypeOK
<1>4. snapshot'[id] = None
  <2>1. snapshot' = snapshot \/ snapshot' = record \/ snapshot'[id] = None
    BY DEF Next, vars, workerVars, Worker, List, ListFails, Advance, Fetch, Send, Forget, TakeCommand, Poll,
       Outside, ApplyActions, TaskStarts, TaskFails, Runtime, Lifecycle, Retry, Drop
  <2> QED
    BY <1>2, <2>1
<1>5. batch'[id].act # "start"
  <2>1. id \notin todo \/ wpc \notin {"advance", "fetch"}
    BY <1>2 DEF Planned, Planning, Changed, Wanted
  <2> QED
    BY <1>2, <2>1, BatchSteps DEF Starts
<1>6. ASSUME NEW i \in DOMAIN queue' PROVE queue'[i][id].act # "start"
  <2>1. CASE queue' = queue
    BY <1>2, <2>1 DEF Starts
  <2>2. CASE queue' = Append(queue, batch)
    <3>1. queue \in Seq([Ids -> Action]) /\ batch \in [Ids -> Action]
      BY DEF TypeOK
    <3> QED
      BY <1>2, <2>2, <3>1, AppendFacts DEF Starts
  <2>3. CASE ApplyActions
    BY <1>2, <2>3, ApplyShifts DEF Starts
  <2>4. CASE Drop
    BY <2>4 DEF Drop
  <2> QED
    BY <2>1, <2>2, <2>3, <2>4, QueueSteps
<1>7. desiredGen'[id] = 0 /\ \A t \in tasks' : t.id # id
  <2>1. CASE ApplyActions
    <3>1. queue[1][id].act # "start"
      BY <1>2, <2>1, ApplyFacts DEF Starts
    <3> QED
      BY <1>2, <2>1, <3>1, ApplyFacts
  <2>2. CASE Drop
    BY <2>2 DEF Drop
  <2> QED
    BY <1>2, <2>1, <2>2, TaskSteps
<1> QED
  BY <1>3, <1>4, <1>5, <1>6, <1>7 DEF Starts
-----------------------------------------------------------------------------
(* The order of the generations.                                           *)

LEMMA GenFacts ==
    ASSUME TypeOK, NEW id \in Ids
    PROVE  /\ desiredGen[id] \in Nat /\ batch[id] \in Action /\ batch[id].gen \in Nat
           /\ \A i \in DOMAIN queue : queue[i] \in [Ids -> Action] /\ queue[i][id] \in Action /\ queue[i][id].gen \in Nat
           /\ \A t \in tasks : t.gen \in Nat /\ t.id \in Ids
           /\ record[id] # None => record[id].gen \in Nat
           /\ sessions[id] # None => sessions[id].gen \in Nat
<1>1. 0..MaxGen \subseteq Nat
  BY InstancesAssumption
<1>2. \A action \in Action : action.gen \in 0..MaxGen
  BY DEF Action
<1>3. \A i \in DOMAIN queue : queue[i] \in [Ids -> Action]
  BY DEF TypeOK
<1>4. /\ \A t \in Started : t.gen \in 0..MaxGen /\ t.id \in Ids
      /\ \A r \in Record : r.gen \in 0..MaxGen
      /\ \A s \in Session : s.gen \in 0..MaxGen
  BY DEF Started, Record, Session
<1> QED
  BY <1>1, <1>2, <1>3, <1>4 DEF TypeOK, InstancesTypeOK

\* What has been sent stays below a generation, except for what is sent now.
LEMMA BelowStays ==
    ASSUME TypeOK, Carried, [Next]_vars, NEW id \in Ids, NEW g \in Nat, Below(id, g),
           Send /\ batch[id].act = "start" => batch[id].gen < g
    PROVE  Below(id, g)'
<1>0. /\ desiredGen[id] \in Nat
      /\ \A i \in DOMAIN queue : queue[i][id].gen \in Nat
  BY GenFacts
<1>1. CASE ApplyActions
  <2>1. desiredGen'[id] < g
    <3>1. CASE queue[1][id].act = "start"
      BY <1>0, <1>1, <3>1, ApplyShifts DEF Below
    <3>2. CASE queue[1][id].act # "start"
      BY <1>0, <1>1, <3>2, ApplyShifts DEF Below
    <3> QED
      BY <3>1, <3>2
  <2>2. \A t \in tasks' : t.id = id => t.gen < g
    BY <1>1, ApplyShifts DEF Below
  <2>3. \A i \in DOMAIN queue' : queue'[i][id].act = "start" => queue'[i][id].gen < g
    BY <1>1, ApplyShifts DEF Below
  <2> QED
    BY <2>1, <2>2, <2>3 DEF Below
<1>2. CASE Drop
  BY <1>0, <1>2 DEF Drop, Below
<1>3. CASE UNCHANGED desiredGen /\ tasks' \subseteq tasks
  <2>1. CASE queue' = queue
    BY <1>3, <2>1 DEF Below
  <2>2. CASE Send /\ queue' = Append(queue, batch)
    <3>1. queue \in Seq([Ids -> Action]) /\ batch \in [Ids -> Action]
      BY DEF TypeOK
    <3>2. \A i \in DOMAIN queue' : queue'[i][id].act = "start" => queue'[i][id].gen < g
      BY <2>2, <3>1, AppendFacts DEF Below
    <3> QED
      BY <1>3, <3>2 DEF Below
  <2> QED
    BY <1>1, <1>2, <2>1, <2>2, QueueSteps
<1> QED
  BY <1>1, <1>2, <1>3, TaskSteps

\* The session of an instance after a step.
LEMMA SessionSteps ==
    ASSUME TypeOK, Carried, [Next]_vars, NEW id \in Ids
    PROVE  \/ sessions'[id] = None
           \/ sessions[id] # None /\ sessions'[id] # None /\ sessions'[id].gen = sessions[id].gen
           \/ \E t \in tasks : /\ TaskStarts(t) /\ t.id = id /\ t.gen = desiredGen[id]
                               /\ sessions'[id].gen = t.gen
<1>0. sessions \in [Ids -> Session \cup {None}]
  BY DEF TypeOK
<1>1. CASE ApplyActions
  BY <1>1, ApplyFacts
<1>2. ASSUME NEW t \in tasks, TaskStarts(t)
      PROVE  \/ sessions'[id] = sessions[id]
             \/ t.id = id /\ t.gen = desiredGen[id] /\ sessions'[id].gen = t.gen
  <2>1. CASE t.id = id /\ StillDesired(t)
    <3>1. sessions'[id] = [gen |-> t.gen, print |-> t.print, planned |-> t.planned,
                           runtime |-> "booting", events |-> <<>>]
      BY <1>0, <1>2, <2>1 DEF TaskStarts
    <3> QED
      BY <2>1, <3>1 DEF StillDesired
  <2>2. CASE ~(t.id = id /\ StillDesired(t))
    BY <1>0, <1>2, <2>2 DEF TaskStarts
  <2> QED
    BY <2>1, <2>2
<1>3. ASSUME NEW other \in Ids, Runtime(other) \/ Lifecycle(other)
      PROVE  \/ sessions'[id] = sessions[id]
             \/ sessions'[id] = None
             \/ sessions[id] # None /\ sessions'[id] # None /\ sessions'[id].gen = sessions[id].gen
  <2>1. CASE other # id
    BY <1>0, <1>3, <2>1 DEF Runtime, Lifecycle
  <2>2. CASE other = id
    <3>1. sessions[id] \in Session /\ DOMAIN sessions[id] = {"gen", "print", "planned", "runtime", "events"}
      BY <1>0, <1>3, <2>2 DEF Runtime, Lifecycle, Session
    <3>2. CASE Runtime(id)
      <4>1. \/ \E events : sessions'[id] = [sessions[id] EXCEPT !.runtime = "up", !.events = events]
            \/ \E events : sessions'[id] = [sessions[id] EXCEPT !.runtime = "down", !.events = events]
        BY <1>0, <3>1, <3>2 DEF Runtime
      <4>2. sessions'[id].gen = sessions[id].gen
        BY <3>1, <4>1
      <4> QED
        BY <3>1, <4>2, FingerprintFacts
    <3>3. CASE Lifecycle(id)
      <4>1. \/ sessions'[id] = None
            \/ \E events : sessions'[id] = [sessions[id] EXCEPT !.events = events]
        BY <1>0, <3>3 DEF Lifecycle
      <4>2. CASE \E events : sessions'[id] = [sessions[id] EXCEPT !.events = events]
        <5>1. sessions'[id].gen = sessions[id].gen
          BY <3>1, <4>2 DEF Session
        <5> QED
          BY <3>1, <5>1, FingerprintFacts
      <4> QED
        BY <4>1, <4>2
    <3> QED
      BY <1>3, <2>2, <3>2, <3>3
  <2> QED
    BY <2>1, <2>2
<1>4. CASE Drop
  BY <1>4 DEF Drop
<1>5. CASE UNCHANGED sessions
  BY <1>5
<1> QED
  BY <1>1, <1>2, <1>3, <1>4, <1>5 DEF Next, vars, uiVars, Worker, List, ListFails, Advance, Fetch, Send, TakeCommand,
     Poll, Outside, TaskFails, Retry

\* The generation of a record after a step.
LEMMA GenSteps ==
    ASSUME TypeOK, Planned, [Next]_vars, NEW id \in Ids, record'[id] # None
    PROVE  \/ record[id] # None /\ record'[id].gen \in {record[id].gen, record[id].gen + 1}
           \/ id = nextId /\ record'[id].gen = 0 /\ Outside
<1>0. InstancesTypeOK /\ record \in [Ids -> Record \cup {None}]
  BY DEF TypeOK, InstancesTypeOK
<1>1. CASE record'[id] = record[id]
  BY <1>1
<1>2. ASSUME NEW e \in Editors, Create(e), id = nextId
      PROVE  record'[id].gen = 0
  BY <1>0, <1>2 DEF Create
<1>3. ASSUME NEW e \in Editors, Write(e), edit[e].id = id
      PROVE  record[id] # None /\ record'[id].gen = record[id].gen
  <2>1. record[id] # None
    BY <1>0, <1>3, WriteRecord
  <2>2. CASE record' = record
    BY <2>1, <2>2
  <2>3. CASE record' = [record EXCEPT ![id] = None]
    BY <1>0, <2>3
  <2>4. ASSUME NEW t \in 0..MaxTime, edit[e].cmd # "delete",
               record' = [record EXCEPT ![id] = Written(edit[e], t)]
        PROVE  record'[id].gen = record[id].gen
    <3>1. edit[e] \in Edit
      BY <1>0, <1>3, WriteCases
    <3>2. Written(edit[e], t).gen = record[id].gen
      BY <1>0, <1>3, <2>1, <2>4, <3>1, WrittenFacts
    <3> QED
      BY <1>0, <2>4, <3>2
  <2> QED
    BY <1>0, <1>3, <2>1, <2>2, <2>3, <2>4, WriteCases
<1>4. ASSUME NEW t \in 0..MaxTime, AdvanceGeneration(id, t)
      PROVE  record[id] # None /\ record'[id].gen = record[id].gen + 1
  BY <1>0, <1>4, AdvanceRecord, FingerprintFacts
<1>5. CASE Outside
  BY <1>0, <1>1, <1>2, <1>3, <1>4, <1>5, RecordSteps DEF Outside, InstancesNext
<1>6. CASE ~Outside
  <2>1. \/ UNCHANGED record
        \/ Advance /\ AdvanceGeneration(Current, Later(now, snapshot[Current].updated))
    BY <1>6 DEF Next, vars, instanceVars, Worker, List, ListFails, Advance, Fetch, Send, TakeCommand, Poll,
       ApplyActions, TaskStarts, TaskFails, Runtime, Lifecycle, Retry, Drop
  <2>2. CASE Advance /\ AdvanceGeneration(Current, Later(now, snapshot[Current].updated))
    <3>1. Current \in Ids /\ snapshot[Current].updated \in 0..MaxTime /\ now \in 0..MaxTime
      BY <2>2, AtCurrent DEF Advance, Record, TypeOK, InstancesTypeOK
    <3>2. Later(now, snapshot[Current].updated) \in 0..MaxTime
      BY <3>1 DEF Later
    <3>3. CASE Current = id
      BY <1>4, <2>2, <3>2, <3>3
    <3>4. CASE Current # id
      BY <1>0, <1>1, <2>2, <3>1, <3>4 DEF AdvanceGeneration
    <3> QED
      BY <3>3, <3>4
  <2> QED
    BY <1>1, <2>1, <2>2
<1> QED
  BY <1>5, <1>6

LEMMA SentStep ==
    ASSUME TypeOK, Carried, InOrder, [Next]_vars, NEW id \in Ids
    PROVE  SentInOrder(id)'
<1>0. /\ SentInOrder(id)
      /\ desiredGen[id] \in Nat /\ \A i \in DOMAIN queue : queue[i][id].gen \in Nat
      /\ \A t \in tasks : t.gen \in Nat
      /\ sessions[id] # None => sessions[id].gen \in Nat
  BY GenFacts DEF InOrder
<1>1. CASE ApplyActions
  <2> DEFINE a == queue[1][id]
  <2>1. /\ 1 \in DOMAIN queue /\ DOMAIN queue = 1..Len(queue) /\ DOMAIN queue' = 1..Len(queue') /\ Len(queue) \in Nat
        /\ Len(queue') = Len(queue) - 1
        /\ \A i \in DOMAIN queue' : i + 1 \in DOMAIN queue /\ queue'[i] = queue[i + 1]
        /\ desiredGen'[id] = IF a.act = "start" THEN a.gen
                             ELSE IF a.act = "fail" \/ a.stop THEN 0 ELSE desiredGen[id]
        /\ sessions'[id] = IF a.act = "fail" \/ a.stop THEN None ELSE sessions[id]
        /\ \A t \in tasks' : t.id = id =>
              t \in tasks \/ (a.act = "start" /\ t = [id |-> id, gen |-> a.gen, print |-> a.print, planned |-> a.planned])
        /\ a.gen \in Nat
    BY <1>0, <1>1, ApplyFacts
  <2>2. ASSUME NEW i \in DOMAIN queue', queue'[i][id].act = "start",
               NEW j \in DOMAIN queue', queue'[j][id].act = "start", i < j
        PROVE  queue'[i][id].gen < queue'[j][id].gen
    <3>1. /\ i + 1 \in DOMAIN queue /\ queue'[i] = queue[i + 1]
          /\ j + 1 \in DOMAIN queue /\ queue'[j] = queue[j + 1] /\ i + 1 < j + 1
      BY <2>1, <2>2
    <3> QED
      BY <1>0, <2>2, <3>1 DEF SentInOrder
  <2>3. CASE a.act = "start"
    <3>1. /\ desiredGen[id] < a.gen /\ \A t \in tasks : t.id = id => t.gen < a.gen
          /\ desiredGen'[id] = a.gen
      BY <1>0, <2>1, <2>3 DEF SentInOrder
    <3>2. \A i \in DOMAIN queue' : queue'[i][id].act = "start" => a.gen < queue'[i][id].gen
      BY <1>0, <2>1, <2>3 DEF SentInOrder
    <3>3. sessions'[id] # None => sessions'[id].gen <= desiredGen'[id]
      BY <1>0, <2>1, <3>1 DEF SentInOrder
    <3>4. ASSUME NEW t \in tasks', t.id = id
          PROVE  1 <= t.gen /\ t.gen <= a.gen /\ t.gen \in Nat /\ \A u \in tasks' : u.id = id /\ u.gen = t.gen => u = t
      <4>1. CASE t \in tasks
        BY <1>0, <2>1, <3>1, <3>4, <4>1 DEF SentInOrder
      <4>2. CASE t \notin tasks
        BY <1>0, <2>1, <3>1, <3>4, <4>2 DEF SentInOrder
      <4> QED
        BY <4>1, <4>2
    <3>5. ASSUME NEW i \in DOMAIN queue', queue'[i][id].act = "start", NEW t \in tasks', t.id = id
          PROVE  t.gen < queue'[i][id].gen
      <4>1. queue'[i][id].gen \in Nat
        BY <1>0, <2>1
      <4> QED
        BY <2>1, <3>2, <3>4, <3>5, <4>1
    <3> HIDE DEF a
    <3> QED
      BY <2>2, <3>1, <3>2, <3>3, <3>4, <3>5 DEF SentInOrder
  <2>4. CASE a.act # "start"
    <3>1. desiredGen'[id] \in {0, desiredGen[id]} /\ \A t \in tasks' : t.id = id => t \in tasks
      BY <2>1, <2>4
    <3>2. sessions'[id] # None => sessions'[id].gen <= desiredGen'[id]
      BY <1>0, <2>1, <2>4 DEF SentInOrder
    <3>3. \A i \in DOMAIN queue' : queue'[i][id].act = "start" =>
            /\ desiredGen'[id] < queue'[i][id].gen
            /\ \A t \in tasks' : t.id = id => t.gen < queue'[i][id].gen
      BY <1>0, <2>1, <3>1 DEF SentInOrder
    <3>4. \A t \in tasks' : t.id = id =>
            /\ 1 <= t.gen /\ (desiredGen'[id] # 0 => t.gen <= desiredGen'[id])
            /\ \A u \in tasks' : u.id = id /\ u.gen = t.gen => u = t
      BY <1>0, <3>1 DEF SentInOrder
    <3> HIDE DEF a
    <3> QED
      BY <2>2, <3>2, <3>3, <3>4 DEF SentInOrder
  <2> QED
    BY <2>3, <2>4
<1>2. CASE Drop
  BY <1>2 DEF Drop, SentInOrder
<1>3. CASE UNCHANGED desiredGen /\ tasks' \subseteq tasks
  <2>1. sessions'[id] # None => sessions'[id].gen <= desiredGen'[id]
    <3>1. CASE sessions[id] # None /\ sessions'[id].gen = sessions[id].gen
      BY <1>0, <1>3, <3>1 DEF SentInOrder
    <3>2. CASE sessions'[id].gen = desiredGen[id]
      BY <1>0, <1>3, <3>2
    <3> QED
      BY <3>1, <3>2, SessionSteps
  <2>2. CASE queue' = queue
    BY <1>0, <1>3, <2>1, <2>2 DEF SentInOrder
  <2>3. CASE queue' = Append(queue, batch)
    <3>1. queue \in Seq([Ids -> Action]) /\ batch \in [Ids -> Action]
      BY DEF TypeOK
    <3>2. /\ DOMAIN queue' = 1..Len(queue) + 1 /\ DOMAIN queue = 1..Len(queue) /\ Len(queue) \in Nat
          /\ \A i \in 1..Len(queue) : queue'[i] = queue[i]
          /\ queue'[Len(queue) + 1] = batch
      BY <2>3, <3>1, AppendFacts
    <3>3. batch[id].act = "start" => Below(id, batch[id].gen)
      BY DEF InOrder
    <3>4. ASSUME NEW i \in DOMAIN queue', queue'[i][id].act = "start"
          PROVE  /\ desiredGen'[id] < queue'[i][id].gen
                 /\ \A t \in tasks' : t.id = id => t.gen < queue'[i][id].gen
                 /\ \A j \in DOMAIN queue' : queue'[j][id].act = "start" /\ i < j => queue'[i][id].gen < queue'[j][id].gen
      <4>1. CASE i = Len(queue) + 1
        BY <1>3, <3>2, <3>3, <3>4, <4>1 DEF Below
      <4>2. CASE i \in 1..Len(queue)
        <5>1. /\ desiredGen'[id] < queue'[i][id].gen
              /\ \A t \in tasks' : t.id = id => t.gen < queue'[i][id].gen
          BY <1>0, <1>3, <3>2, <3>4, <4>2 DEF SentInOrder
        <5>2. ASSUME NEW j \in DOMAIN queue', queue'[j][id].act = "start", i < j
              PROVE  queue'[i][id].gen < queue'[j][id].gen
          <6>1. CASE j = Len(queue) + 1
            BY <3>2, <3>3, <3>4, <4>2, <5>2, <6>1 DEF Below
          <6>2. CASE j \in 1..Len(queue)
            BY <1>0, <3>2, <3>4, <4>2, <5>2, <6>2 DEF SentInOrder
          <6> QED
            BY <3>2, <6>1, <6>2
        <5> QED
          BY <5>1, <5>2
      <4> QED
        BY <3>2, <4>1, <4>2
    <3>5. \A t \in tasks' : t.id = id =>
            /\ 1 <= t.gen /\ (desiredGen'[id] # 0 => t.gen <= desiredGen'[id])
            /\ \A u \in tasks' : u.id = id /\ u.gen = t.gen => u = t
      BY <1>0, <1>3 DEF SentInOrder
    <3> QED
      BY <2>1, <3>4, <3>5 DEF SentInOrder
  <2> QED
    BY <1>1, <1>2, <2>2, <2>3, QueueSteps
<1> QED
  BY <1>1, <1>2, <1>3, TaskSteps

LEMMA InOrderStep ==
    TypeOK /\ Planned /\ Carried /\ Born /\ InOrder /\ [Next]_vars => InOrder'
<1> SUFFICES ASSUME TypeOK, Planned, Carried, Born, InOrder, [Next]_vars, NEW id \in Ids
             PROVE  /\ SentInOrder(id)'
                    /\ batch'[id].act = "start" => Below(id, batch[id].gen)'
                    /\ record'[id] # None => Below(id, record[id].gen + 1)' /\ batch'[id].gen <= record'[id].gen
                    /\ wpc' = "fetch" /\ id = Current' /\ record'[id] # None => Below(id, record[id].gen)'
  BY DEF InOrder
<1>0. /\ desiredGen[id] \in Nat /\ batch[id].gen \in Nat /\ batch[id] \in Action
      /\ \A i \in DOMAIN queue : queue[i][id].gen \in Nat
      /\ \A t \in tasks : t.gen \in Nat
      /\ record[id] # None => record[id].gen \in Nat
  BY GenFacts
<1>1. SentInOrder(id)'
  BY SentStep
<1>2. Send => batch'[id].act = "none" /\ batch'[id].gen = 0
  BY DEF Send, Forget, Nothing
<1>3. batch'[id].act = "start" => Below(id, batch[id].gen)'
  <2> SUFFICES ASSUME batch'[id].act = "start" PROVE Below(id, batch[id].gen)'
    OBVIOUS
  <2>1. CASE batch'[id] = batch[id]
    <3>1. Below(id, batch[id].gen)
      BY <2>1 DEF InOrder
    <3>2. \A g : g = batch[id].gen => Below(id, g)'
      BY <1>0, <1>2, <3>1, BelowStays
    <3> QED
      BY <2>1, <3>2 DEF Below
  <2>2. CASE /\ wpc = "fetch" /\ id = Current /\ record[id] \in Record /\ batch'[id].gen = record[id].gen
             /\ UNCHANGED <<record, queue, desiredGen, tasks>>
    <3>1. Below(id, record[id].gen)
      BY <2>2, FingerprintFacts DEF InOrder
    <3> QED
      BY <2>2, <3>1 DEF Below
  <2> QED
    BY <2>1, <2>2, BatchSteps
<1>4. CASE record[id] # None /\ record'[id] # None /\ record'[id].gen \in {record[id].gen, record[id].gen + 1}
  <2> DEFINE g == record[id].gen
  <2>0. g \in Nat /\ record'[id].gen \in Nat /\ g <= record'[id].gen
    BY <1>0, <1>4
  <2>1. Below(id, g + 1) /\ batch[id].gen <= g
    BY <1>4 DEF InOrder
  <2>2. \A h \in Nat : Below(id, h) /\ g <= h /\ batch[id].gen < h => Below(id, h)'
    BY BelowStays
  <2>3. \A h \in Nat : g + 1 <= h => Below(id, h)
    BY <1>0, <2>0, <2>1 DEF Below
  <2>4. ASSUME NEW h \in Nat, g + 1 <= h PROVE Below(id, h)'
    BY <1>0, <2>0, <2>1, <2>2, <2>3, <2>4
  <2>5. record'[id].gen + 1 \in Nat /\ g + 1 <= record'[id].gen + 1
    BY <2>0
  <2>6. Below(id, record[id].gen + 1)'
    <3>1. \A h : h = record'[id].gen + 1 => Below(id, h)'
      BY <2>4, <2>5
    <3> QED
      BY <3>1 DEF Below
  <2>7. batch'[id].gen <= record'[id].gen
    BY <1>0, <2>0, <2>1, BatchSteps
  <2>8. ASSUME wpc' = "fetch", id = Current' PROVE Below(id, record[id].gen)'
    <3>1. \/ wpc = "fetch" /\ Current' = Current /\ ~Send
          \/ wpc = "advance" /\ Current' = Current /\ ~Send
             /\ AdvanceGeneration(Current, Later(now, snapshot[Current].updated))
      BY <2>8 DEF Next, vars, workerVars, Worker, List, ListFails, Advance, Fetch, Prepared, Send, TakeCommand, Poll,
         Outside, ApplyActions, TaskStarts, TaskFails, Runtime, Lifecycle, Retry, Drop, Current
    <3>2. CASE wpc = "fetch" /\ Current' = Current /\ ~Send
      <4>1. Below(id, g)
        BY <1>4, <2>8, <3>2 DEF InOrder
      <4>2. \A h \in Nat : g <= h => Below(id, h)
        BY <1>0, <2>0, <4>1 DEF Below
      <4>3. \A h \in Nat : g <= h => Below(id, h)'
        BY <3>2, <4>2, BelowStays
      <4>4. \A h : h = record'[id].gen => Below(id, h)'
        BY <2>0, <4>3
      <4> QED
        BY <4>4 DEF Below
    <3>3. CASE /\ wpc = "advance" /\ Current' = Current /\ ~Send
               /\ AdvanceGeneration(Current, Later(now, snapshot[Current].updated))
      <4>1. record'[id].gen = g + 1
        BY <1>4, <2>8, <3>3, AtCurrent DEF AdvanceGeneration, Advanced, TypeOK, InstancesTypeOK, Record
      <4>2. \A h : h = record'[id].gen => Below(id, h)'
        BY <2>0, <2>4, <4>1
      <4> QED
        BY <4>2 DEF Below
    <3> QED
      BY <3>1, <3>2, <3>3
  <2> QED
    BY <1>1, <1>3, <1>4, <2>6, <2>7, <2>8
<1>5. CASE id = nextId /\ record'[id].gen = 0 /\ Outside
  <2>1. ~(id < nextId)
    BY <1>5, InstancesAssumption DEF TypeOK, InstancesTypeOK
  <2>2. /\ desiredGen[id] = 0 /\ ~Starts(id) /\ snapshot[id] = None /\ \A t \in tasks : t.id # id
    BY <2>1 DEF Born
  <2>3. UNCHANGED <<queue, desiredGen, tasks, batch, todo, wpc, snapshot>>
    BY <1>5 DEF Outside, workerVars, uiVars
  <2>4. batch[id].gen = 0
    BY <2>2 DEF Starts, Carried, Prints
  <2>5. Below(id, record[id].gen + 1)'
    BY <1>5, <2>2, <2>3 DEF Below, Starts
  <2>6. ~(wpc' = "fetch" /\ id = Current')
    <3>1. Current' = Current
      BY <2>3 DEF Current
    <3> QED
      BY <2>2, <2>3, <3>1, AtCurrent, FingerprintFacts
  <2> QED
    BY <1>1, <1>3, <1>5, <2>3, <2>4, <2>5, <2>6
<1> QED
  BY <1>1, <1>3, <1>4, <1>5, GenSteps
-----------------------------------------------------------------------------
(* What is left of an instance the worker does not know of.                *)

\* A session, or a start for one, appears in no other way than by applying a start.
LEMMA LiveSteps ==
    ASSUME TypeOK, Carried, InOrder, [Next]_vars, NEW id \in Ids, Live(id)'
    PROVE  \/ Live(id) /\ ~Drop /\ ~(ApplyActions /\ Ends(queue[1][id]))
           \/ ApplyActions /\ queue[1][id].act = "start"
<1>0. \A t \in tasks : t.id = id => 1 <= t.gen /\ t.gen \in Nat
  BY GenFacts DEF InOrder, SentInOrder
<1>1. CASE ApplyActions
  <2>1. CASE queue[1][id].act = "start"
    BY <1>1, <2>1
  <2>2. CASE Ends(queue[1][id])
    <3>1. sessions'[id] = None /\ (queue[1][id].act # "start" => desiredGen'[id] = 0)
      BY <1>1, <2>2, ApplyFacts DEF Ends
    <3>2. queue[1][id].act # "start" => \A t \in tasks' : t.id = id => t \in tasks
      BY <1>1, ApplyFacts
    <3> QED
      BY <1>0, <1>1, <3>1, <3>2 DEF Live
  <2>3. CASE queue[1][id].act # "start" /\ ~Ends(queue[1][id])
    <3>1. sessions'[id] = sessions[id] /\ desiredGen'[id] = desiredGen[id] /\ \A t \in tasks' : t.id = id => t \in tasks
      BY <1>1, <2>3, ApplyFacts DEF Ends
    <3>2. Live(id) /\ ~Drop
      <4>1. ~Drop
        BY <1>1 DEF Drop, ApplyActions
      <4> QED
        BY <3>1, <4>1 DEF Live
    <3> QED
      BY <2>3, <3>2
  <2> QED
    BY <2>1, <2>2, <2>3
<1>2. CASE Drop
  BY <1>2 DEF Drop, Live
<1>3. CASE UNCHANGED desiredGen /\ tasks' \subseteq tasks /\ ~ApplyActions /\ ~Drop
  <2>1. CASE sessions'[id] = None
    BY <1>3, <2>1 DEF Live
  <2>2. CASE sessions'[id] # None
    BY <1>3, <2>2, SessionSteps DEF Live
  <2> QED
    BY <2>1, <2>2
<1> QED
  BY <1>1, <1>2, <1>3, TaskSteps

LEMMA QuietStays ==
    ASSUME TypeOK, Carried, InOrder, [Next]_vars, ~ApplyActions, ~Drop, NEW id \in Ids,
           NEW n \in 0..Len(queue), Quiet(id, n), \A i \in DOMAIN queue : queue'[i] = queue[i]
    PROVE  Quiet(id, n)'
<1>1. Live(id)' => Live(id)
  BY LiveSteps
<1>2. Len(queue) \in Nat /\ DOMAIN queue = 1..Len(queue)
  BY DEF TypeOK
<1>3. \A i \in 1..n : queue'[i] = queue[i]
  BY <1>2
<1>4. \A i \in 1..n : i + 1..n \subseteq 1..n
  OBVIOUS
<1>5. Live(id)' => \E j \in 1..n : Ends(queue'[j][id])
  BY <1>1, <1>3 DEF Quiet
<1>6. \A i \in 1..n : queue'[i][id].act = "start" => \E j \in i + 1..n : Ends(queue'[j][id])
  BY <1>3, <1>4 DEF Quiet
<1> QED
  BY <1>5, <1>6 DEF Quiet, Ends

LEMMA QuietShifts ==
    ASSUME TypeOK, Carried, InOrder, ApplyActions, NEW id \in Ids,
           NEW n \in 1..Len(queue), Quiet(id, n)
    PROVE  Quiet(id, n - 1)'
<1>1. /\ DOMAIN queue = 1..Len(queue) /\ DOMAIN queue' = 1..Len(queue) - 1 /\ Len(queue) \in Nat
      /\ \A i \in 1..Len(queue) - 1 : queue'[i] = queue[i + 1]
  BY ApplyFacts
<1>2. \A j \in 2..n : j - 1 \in 1..n - 1 /\ queue'[j - 1] = queue[j]
  BY <1>1
<1>3. Live(id)' => \E j \in 1..n - 1 : Ends(queue'[j][id])
  <2> SUFFICES ASSUME Live(id)' PROVE \E j \in 1..n - 1 : Ends(queue'[j][id])
    OBVIOUS
  <2>1. CASE Live(id) /\ ~Ends(queue[1][id])
    <3>1. PICK j \in 1..n : Ends(queue[j][id])
      BY <2>1 DEF Quiet
    <3>2. j \in 2..n
      BY <2>1, <3>1
    <3> QED
      BY <1>2, <3>1, <3>2
  <2>2. CASE queue[1][id].act = "start"
    <3>1. PICK j \in 2..n : Ends(queue[j][id])
      BY <2>2 DEF Quiet
    <3> QED
      BY <1>2, <3>1
  <2> QED
    BY <2>1, <2>2, LiveSteps DEF Next
<1>4. ASSUME NEW i \in 1..n - 1, queue'[i][id].act = "start"
      PROVE  \E j \in i + 1..n - 1 : Ends(queue'[j][id])
  <2>1. i + 1 \in 1..n /\ queue[i + 1][id].act = "start"
    BY <1>1, <1>4
  <2>2. PICK j \in (i + 1) + 1..n : Ends(queue[j][id])
    BY <2>1 DEF Quiet
  <2>3. j - 1 \in i + 1..n - 1 /\ queue'[j - 1] = queue[j]
    BY <1>2, <2>2
  <2> QED
    BY <2>2, <2>3
<1> QED
  BY <1>3, <1>4 DEF Quiet, Ends

\* How an instance gets out of what the worker knows.
LEMMA KnownSteps ==
    ASSUME TypeOK, Planned, [Next]_vars, NEW id \in Ids, known'[id] = None
    PROVE  \/ known[id] = None
           \/ Send /\ queue' = Append(queue, batch) /\ wpc = "send" /\ ~Wanted(snapshot, id)
           \/ TakeCommand /\ (id \in hasty' \/ ~Alive(id))
<1>0. /\ record \in [Ids -> Record \cup {None}] /\ snapshot \in [Ids -> Record \cup {None}]
      /\ known \in [Ids -> Fingerprint \cup {None}]
  BY DEF TypeOK, InstancesTypeOK
<1>1. CASE List
  <2>1. CASE known' = known
    BY <2>1
  <2>2. CASE known' = NextKnown(record) /\ ~Stops(record, id)
    BY <1>0, <2>2, PlanFacts DEF Stops
  <2> QED
    BY <1>1, <2>1, <2>2 DEF List
<1>2. CASE Send
  <2>1. CASE known' = known
    BY <2>1
  <2>2. CASE known' # known
    <3>1. queue' = Append(queue, batch) /\ wpc = "send" /\ known' = NextKnown(snapshot)
      BY <1>2, <2>2 DEF Send
    <3> QED
      BY <1>0, <1>2, <3>1, PlanFacts
  <2> QED
    BY <2>1, <2>2
<1>3. CASE TakeCommand
  <2>1. CASE Head(commands) = StopCommand
    BY <1>3, <2>1 DEF TakeCommand
  <2>2. CASE Head(commands) # StopCommand
    <3>1. /\ known' = [known EXCEPT ![Head(commands)] = None]
          /\ hasty' = IF known[Head(commands)] # None /\ Alive(Head(commands)) THEN hasty \cup {Head(commands)} ELSE hasty
      BY <1>3, <2>2 DEF TakeCommand
    <3>2. CASE Head(commands) = id
      BY <1>3, <3>1, <3>2
    <3>3. CASE Head(commands) # id
      BY <1>0, <3>1, <3>3
    <3> QED
      BY <3>2, <3>3
  <2> QED
    BY <2>1, <2>2
<1>4. CASE UNCHANGED known
  BY <1>4
<1> QED
  BY <1>1, <1>2, <1>3, <1>4 DEF Next, vars, workerVars, Worker, ListFails, Advance, Fetch, Poll, Outside, ApplyActions,
     TaskStarts, TaskFails, Runtime, Lifecycle, Retry, Drop

LEMMA NoneLeftStep ==
    TypeOK /\ Planned /\ Carried /\ InOrder /\ NoneLeft /\ [Next]_vars => NoneLeft'
<1> SUFFICES ASSUME TypeOK, Planned, Carried, InOrder, NoneLeft, [Next]_vars, NEW id \in Ids, id \notin hasty'
             PROVE  /\ known'[id] = None => Quiet(id, Len(queue))'
                    /\ \A i \in DOMAIN queue' : queue'[i][id].act = "start" /\ ~queue'[i][id].stop => Quiet(id, i - 1)'
  BY DEF NoneLeft
<1>0. /\ queue \in Seq([Ids -> Action]) /\ batch \in [Ids -> Action]
      /\ Len(queue) \in Nat /\ DOMAIN queue = 1..Len(queue)
      /\ snapshot \in [Ids -> Record \cup {None}]
  BY DEF TypeOK
<1>1. id \notin hasty
  BY DEF Next, vars, Worker, List, ListFails, Advance, Fetch, Send, TakeCommand, Poll, Outside, ApplyActions,
     TaskStarts, TaskFails, Runtime, Lifecycle, Retry, Drop
<1>2. /\ known[id] = None => Quiet(id, Len(queue))
      /\ \A i \in DOMAIN queue : queue[i][id].act = "start" /\ ~queue[i][id].stop => Quiet(id, i - 1)
  BY <1>1 DEF NoneLeft
<1>3. CASE Drop
  <2>1. queue' = <<>> /\ ~Live(id)'
    BY <1>3 DEF Drop, Live
  <2> QED
    BY <2>1 DEF Quiet
<1>4. CASE ApplyActions
  <2>1. /\ known' = known /\ Len(queue') = Len(queue) - 1 /\ DOMAIN queue' = 1..Len(queue) - 1
        /\ Len(queue) \in 1..Len(queue)
        /\ \A i \in DOMAIN queue' : i + 1 \in 1..Len(queue) /\ queue'[i] = queue[i + 1]
    BY <1>0, <1>4, ApplyFacts DEF ApplyActions, workerVars
  <2>2. known'[id] = None => Quiet(id, Len(queue))'
    <3> PICK n \in 1..Len(queue) : n = Len(queue)
      BY <2>1
    <3>1. known'[id] = None => Quiet(id, n - 1)'
      BY <1>2, <1>4, <2>1, QuietShifts
    <3>2. Len(queue') = n - 1
      BY <2>1
    <3> QED
      BY <3>1, <3>2 DEF Quiet
  <2>3. ASSUME NEW i \in DOMAIN queue', queue'[i][id].act = "start", ~queue'[i][id].stop
        PROVE  Quiet(id, i - 1)'
    <3>1. Quiet(id, i + 1 - 1) /\ i \in 1..Len(queue) /\ i + 1 - 1 = i
      BY <1>0, <1>2, <2>1, <2>3
    <3> QED
      BY <1>4, <3>1, QuietShifts
  <2> QED
    BY <2>2, <2>3
<1>5. CASE ~Drop /\ ~ApplyActions /\ queue' = queue
  <2>1. ASSUME NEW n \in 0..Len(queue), Quiet(id, n) PROVE Quiet(id, n)'
    BY <1>5, <2>1, QuietStays
  <2>2. ASSUME NEW i \in DOMAIN queue', queue'[i][id].act = "start", ~queue'[i][id].stop
        PROVE  Quiet(id, i - 1)'
    BY <1>0, <1>2, <1>5, <2>1, <2>2
  <2>3. ASSUME known'[id] = None PROVE Quiet(id, Len(queue))
    <3>1. CASE known[id] = None
      BY <1>2, <3>1
    <3>2. CASE ~Alive(id)
      BY <1>0, <3>2 DEF Alive, Live, Quiet
    <3>3. queue' # Append(queue, batch)
      <4>1. Len(Append(queue, batch)) = Len(queue) + 1
        <5>1. queue \in Seq([Ids -> Action]) /\ batch \in [Ids -> Action]
          BY <1>0
        <5> QED
          BY ONLY <5>1, AppendFacts
      <4>2. \A n \in Nat : n + 1 # n
        OBVIOUS
      <4> QED
        BY <1>0, <1>5, <4>1, <4>2
    <3> QED
      BY <2>3, <3>1, <3>2, <3>3, KnownSteps
  <2>4. known'[id] = None => Quiet(id, Len(queue))'
    <3>1. \A n : n = Len(queue') /\ known'[id] = None => Quiet(id, n)'
      BY <1>0, <1>5, <2>1, <2>3
    <3> QED
      BY <3>1 DEF Quiet
  <2> QED
    BY <2>2, <2>4
<1>6. CASE /\ ~Drop /\ ~ApplyActions /\ Send /\ queue' = Append(queue, batch) /\ wpc \in {"send", "report"}
           /\ (known' = IF wpc = "send" THEN NextKnown(snapshot) ELSE known)
  <2> PICK n \in Nat : n = Len(queue)
    BY <1>0
  <2>1. /\ Len(queue') = n + 1 /\ DOMAIN queue' = 1..n + 1 /\ n \in Nat
        /\ \A i \in 1..n : queue'[i] = queue[i]
        /\ queue'[n + 1] = batch /\ n \in 0..Len(queue)
    BY <1>0, <1>6, AppendFacts
  <2>2. ASSUME NEW k \in 0..n, Quiet(id, k) PROVE Quiet(id, k)'
    BY <1>0, <1>6, <2>1, <2>2, QuietStays
  <2>3. ASSUME batch[id].act = "start", ~batch[id].stop PROVE Quiet(id, n)'
    <3>1. wpc = "send"
      BY <1>6, <2>3 DEF Planned, Nothing
    <3>2. ~Stops(snapshot, id) /\ Changed(snapshot, id)
      BY <2>3, <3>1 DEF Planned, Planning
    <3>3. known[id] = None
      BY <3>2 DEF Stops
    <3> QED
      BY <1>2, <2>1, <2>2, <3>3
  <2>4. ASSUME NEW i \in DOMAIN queue', queue'[i][id].act = "start", ~queue'[i][id].stop
        PROVE  Quiet(id, i - 1)'
    <3>1. CASE i = n + 1
      <4>1. i - 1 = n
        BY <2>1, <3>1
      <4> QED
        BY <2>1, <2>3, <2>4, <3>1, <4>1
    <3>2. CASE i \in 1..n
      BY <1>0, <1>2, <2>1, <2>2, <2>4, <3>2
    <3> QED
      BY <2>1, <3>1, <3>2
  <2>5. ASSUME known'[id] = None PROVE Quiet(id, n + 1)'
    <3>1. batch[id].act # "start" /\ (Ends(batch[id]) \/ known[id] = None)
      <4>1. CASE wpc = "report"
        BY <1>6, <2>5, <4>1 DEF Planned, Nothing
      <4>2. CASE wpc = "send"
        <5>1. ~Wanted(snapshot, id)
          BY <1>0, <1>6, <2>5, <4>2, PlanFacts
        <5>2. /\ batch[id].stop = Stops(snapshot, id)
              /\ batch[id].act # "none" => Changed(snapshot, id)
          BY <4>2 DEF Planned, Planning
        <5>3. batch[id].act = "none" /\ (known[id] # None => batch[id].stop)
          BY <5>1, <5>2 DEF Changed, Stops
        <5> QED
          BY <5>3 DEF Ends
      <4> QED
        BY <1>6, <4>1, <4>2
    <3>2. CASE Ends(batch[id])
      <4>1. Ends(queue'[n + 1][id]) /\ queue'[n + 1][id].act # "start" /\ n + 1 \in 1..n + 1
        BY <2>1, <3>1, <3>2
      <4>2. \A i \in 1..n + 1 : queue'[i][id].act = "start" => n + 1 \in i + 1..n + 1
        BY <2>1, <4>1
      <4> QED
        BY <4>1, <4>2 DEF Quiet, Ends
    <3>3. CASE known[id] = None
      <4>1. Quiet(id, n)'
        BY <1>2, <2>1, <2>2, <3>3
      <4>2. Live(id)' => \E j \in 1..n + 1 : Ends(queue'[j][id])
        <5>1. Live(id)' => \E j \in 1..n : Ends(queue'[j][id])
          BY <4>1 DEF Quiet, Ends
        <5> QED
          BY <2>1, <5>1
      <4>3. ASSUME NEW i \in 1..n + 1, queue'[i][id].act = "start"
            PROVE  \E j \in i + 1..n + 1 : Ends(queue'[j][id])
        <5>1. i \in 1..n
          BY <2>1, <3>1, <4>3
        <5>2. \E j \in i + 1..n : Ends(queue'[j][id])
          BY <4>1, <4>3, <5>1 DEF Quiet, Ends
        <5> QED
          BY <2>1, <5>2
      <4> QED
        BY <4>2, <4>3 DEF Quiet, Ends
    <3> QED
      BY <3>1, <3>2, <3>3
  <2>6. known'[id] = None => Quiet(id, Len(queue))'
    <3>1. \A k : k = Len(queue') /\ known'[id] = None => Quiet(id, k)'
      BY <2>1, <2>5
    <3> QED
      BY <3>1 DEF Quiet
  <2> QED
    BY <2>4, <2>6
<1> QED
  BY <1>3, <1>4, <1>5, <1>6, QueueSteps
-----------------------------------------------------------------------------
(* What is on screen.                                                      *)

LEMMA HastyStays == [Next]_vars => hasty \subseteq hasty'
  BY DEF Next, vars, Worker, List, ListFails, Advance, Fetch, Send, TakeCommand, Poll, Outside, ApplyActions,
     TaskStarts, TaskFails, Runtime, Lifecycle, Retry, Drop

\* A start without a stop finds no session.
LEMMA StartFindsNone ==
    ASSUME TypeOK, NoneLeft, ApplyActions, Carried, NEW id \in Ids \ hasty,
           queue[1][id].act = "start", ~queue[1][id].stop
    PROVE  ~Live(id)
<1>1. 1 \in DOMAIN queue
  BY ApplyFacts
<1>2. Quiet(id, 1 - 1)
  BY <1>1 DEF NoneLeft
<1> QED
  BY <1>2 DEF Quiet

\* What applying a batch leaves on screen of one instance.
LEMMA ScreenApplied ==
    ASSUME TypeOK, Carried, InOrder, NoneLeft, SessionIsDesired, ObservedIsTrue, StartIsShown, ApplyActions,
           NEW id \in Ids \ hasty
    PROVE  /\ sessions'[id] # None => sessions'[id].gen = desiredGen'[id] /\ observed'[id] \in {"starting", "running"}
           /\ observed'[id] = "running" => sessions'[id] # None
           /\ \A t \in tasks' : t.id = id /\ t.gen = desiredGen'[id] =>
                sessions'[id] = None /\ observed'[id] = "starting"
<1> DEFINE a == queue[1][id]
<1>0. /\ a \in Action /\ 1 \in DOMAIN queue
      /\ desiredGen'[id] = IF a.act = "start" THEN a.gen
                           ELSE IF a.act = "fail" \/ a.stop THEN 0 ELSE desiredGen[id]
      /\ sessions'[id] = IF a.act = "fail" \/ a.stop THEN None ELSE sessions[id]
      /\ \E refused \in BOOLEAN :
            /\ observed'[id] =
                 IF a.act = "fail" \/ (refused /\ a.act = "start") THEN "failed"
                 ELSE IF a.act = "start" THEN "starting"
                 ELSE IF a.stop THEN "stopped" ELSE observed[id]
            /\ \A t \in tasks' : t.id = id =>
                 t \in tasks \/ (a.act = "start" /\ ~refused)
  BY ApplyFacts
<1>1. /\ sessions[id] # None => sessions[id].gen = desiredGen[id] /\ observed[id] \in {"starting", "running"}
      /\ observed[id] = "running" => sessions[id] # None
      /\ \A t \in tasks : t.id = id /\ t.gen = desiredGen[id] => sessions[id] = None /\ observed[id] = "starting"
  BY DEF SessionIsDesired, ObservedIsTrue, StartIsShown
<1>2. /\ \A t \in tasks : t.id = id => 1 <= t.gen /\ t.gen \in Nat
      /\ a.act = "start" => \A t \in tasks : t.id = id => t.gen < a.gen
      /\ a.gen \in Nat
  BY <1>0, GenFacts DEF InOrder, SentInOrder
<1>3. CASE a.act = "start"
  <2>1. sessions'[id] = None
    <3>1. CASE a.stop
      BY <1>0, <3>1
    <3>2. CASE ~a.stop
      BY <1>0, <1>3, <3>2, StartFindsNone DEF Live
    <3> QED
      BY <3>1, <3>2
  <2>2. observed'[id] # "running"
    BY <1>0, <1>3
  <2>3. ASSUME NEW t \in tasks', t.id = id, t.gen = desiredGen'[id] PROVE observed'[id] = "starting"
    <3>1. t \notin tasks
      BY <1>0, <1>2, <1>3, <2>3
    <3> QED
      BY <1>0, <1>3, <2>3, <3>1
  <2> QED
    BY <2>1, <2>2, <2>3
<1>4. CASE a.act # "start" /\ (a.act = "fail" \/ a.stop)
  <2>1. sessions'[id] = None /\ desiredGen'[id] = 0 /\ observed'[id] # "running"
    BY <1>0, <1>4
  <2>2. \A t \in tasks' : t.id = id => t.gen # 0
    BY <1>0, <1>2, <1>4
  <2> QED
    BY <2>1, <2>2
<1>5. CASE a.act # "start" /\ ~(a.act = "fail" \/ a.stop)
  BY <1>0, <1>1, <1>5
<1> QED
  BY <1>3, <1>4, <1>5

LEMMA ScreenStep ==
    TypeOK /\ Carried /\ InOrder /\ NoneLeft /\ SessionIsDesired /\ ObservedIsTrue /\ StartIsShown /\ [Next]_vars
        => SessionIsDesired' /\ ObservedIsTrue' /\ StartIsShown'
<1> SUFFICES ASSUME TypeOK, Carried, InOrder, NoneLeft, SessionIsDesired, ObservedIsTrue, StartIsShown, [Next]_vars
             PROVE  SessionIsDesired' /\ ObservedIsTrue' /\ StartIsShown'
  OBVIOUS
<1> DEFINE Shown(id) ==
       /\ sessions[id] # None => sessions[id].gen = desiredGen[id] /\ observed[id] \in {"starting", "running"}
       /\ observed[id] = "running" => sessions[id] # None
       /\ \A t \in tasks : t.id = id /\ t.gen = desiredGen[id] => sessions[id] = None /\ observed[id] = "starting"
<1>0. /\ sessions \in [Ids -> Session \cup {None}] /\ desiredGen \in [Ids -> 0..MaxGen]
      /\ observed \in [Ids -> {"unknown", "starting", "running", "failed", "stopped"}]
  BY DEF TypeOK
<1>1. \A id \in Ids \ hasty : Shown(id)
  BY DEF SessionIsDesired, ObservedIsTrue, StartIsShown
<1>2. SUFFICES ASSUME NEW id \in Ids \ hasty PROVE Shown(id)'
  <2>1. \A t \in tasks' : t.id \in Ids
    BY UITypes DEF UITyped, Started
  <2> QED
    BY <2>1, <1>2, HastyStays DEF SessionIsDesired, ObservedIsTrue, StartIsShown
<1>3. CASE ApplyActions
  BY <1>3, ScreenApplied
<1>4. ASSUME NEW t \in tasks, TaskStarts(t)
      PROVE  Shown(id)'
  <2>1. CASE t.id = id /\ t.gen = desiredGen[id]
    <3>1. /\ sessions'[id] = [gen |-> t.gen, print |-> t.print, planned |-> t.planned,
                              runtime |-> "booting", events |-> <<>>]
          /\ observed' = observed /\ desiredGen' = desiredGen /\ tasks' = tasks \ {t}
      BY <1>0, <1>4, <2>1 DEF TaskStarts, StillDesired
    <3>2. \A u \in tasks' : ~(u.id = id /\ u.gen = desiredGen[id])
      BY <2>1, <3>1 DEF InOrder, SentInOrder
    <3>3. sessions'[id].gen = desiredGen[id] /\ observed[id] = "starting"
      BY <1>1, <2>1, <3>1
    <3>4. sessions'[id] # None
      <4>1. t \in Started
        BY DEF TypeOK
      <4>2. sessions'[id] \in Session
        BY <3>1, <4>1 DEF Started, Session
      <4> QED
        BY <4>2, FingerprintFacts
    <3> QED
      BY <3>1, <3>2, <3>3, <3>4
  <2>2. CASE ~(t.id = id /\ t.gen = desiredGen[id])
    <3>1. sessions'[id] = sessions[id] /\ observed' = observed /\ desiredGen' = desiredGen /\ tasks' \subseteq tasks
      BY <1>0, <1>4, <2>2 DEF TaskStarts, StillDesired
    <3> QED
      BY <1>1, <3>1
  <2> QED
    BY <2>1, <2>2
<1>5. ASSUME NEW t \in tasks, TaskFails(t)
      PROVE  Shown(id)'
  <2>1. CASE t.id = id /\ t.gen = desiredGen[id]
    <3>1. /\ observed'[id] = "failed" /\ sessions' = sessions /\ desiredGen' = desiredGen /\ tasks' = tasks \ {t}
      BY <1>0, <1>5, <2>1 DEF TaskFails, StillDesired
    <3>2. \A u \in tasks' : ~(u.id = id /\ u.gen = desiredGen[id])
      BY <2>1, <3>1 DEF InOrder, SentInOrder
    <3>3. sessions[id] = None
      BY <1>1, <2>1
    <3> QED
      BY <3>1, <3>2, <3>3
  <2>2. CASE ~(t.id = id /\ t.gen = desiredGen[id])
    <3>1. observed'[id] = observed[id] /\ sessions' = sessions /\ desiredGen' = desiredGen /\ tasks' \subseteq tasks
      BY <1>0, <1>5, <2>2 DEF TaskFails, StillDesired
    <3> QED
      BY <1>1, <3>1
  <2> QED
    BY <2>1, <2>2
<1>6. ASSUME NEW other \in Ids, Runtime(other)
      PROVE  Shown(id)'
  <2>1. UNCHANGED <<observed, desiredGen, tasks>> /\ sessions[other] # None
    BY <1>6 DEF Runtime
  <2>2. sessions[id] = None => sessions'[id] = None
    BY <1>0, <1>6, <2>1 DEF Runtime
  <2>3. sessions[id] # None => sessions'[id] # None
    <3>1. CASE other # id
      BY <1>0, <1>6, <3>1 DEF Runtime
    <3>2. CASE other = id
      <4>1. sessions[id] \in Session /\ sessions[id].events \in Seq({"running", "failed"})
        BY <1>0, <2>1, <3>2 DEF Session
      <4>2. \E r \in {"up", "down"}, e \in {"running", "failed"} :
              sessions'[id] = [sessions[id] EXCEPT !.runtime = r, !.events = Append(sessions[id].events, e)]
        BY <1>0, <1>6, <3>2, <4>1 DEF Runtime, Session
      <4>3. \A e \in {"running", "failed"} : Append(sessions[id].events, e) \in Seq({"running", "failed"})
        BY <4>1
      <4>4. sessions'[id] \in Session
        BY <4>1, <4>2, <4>3 DEF Session
      <4> QED
        BY <4>4, FingerprintFacts
    <3> QED
      BY <3>1, <3>2
  <2>4. sessions'[id] # None => sessions[id] # None /\ sessions'[id].gen = desiredGen[id]
    <3>1. ~ \E t \in tasks : TaskStarts(t) /\ t.id = id /\ t.gen = desiredGen[id]
      BY <2>1 DEF TaskStarts
    <3> QED
      BY <1>1, <2>2, <3>1, SessionSteps
  <2> QED
    BY <1>1, <2>1, <2>2, <2>3, <2>4
<1>7. ASSUME NEW other \in Ids, Lifecycle(other)
      PROVE  Shown(id)'
  <2>1. UNCHANGED <<desiredGen, tasks>>
    BY <1>7 DEF Lifecycle
  <2>2. CASE other # id
    <3>1. sessions'[id] = sessions[id] /\ observed'[id] = observed[id]
      BY <1>0, <1>7, <2>2 DEF Lifecycle
    <3> QED
      BY <1>1, <2>1, <3>1
  <2>3. CASE other = id
    <3>1. /\ sessions[id] \in Session /\ sessions[id].events \in Seq({"running", "failed"})
          /\ sessions[id].events # <<>> /\ sessions[id] # None
      BY <1>0, <1>7, <2>3 DEF Lifecycle, Session
    <3>2. /\ Head(sessions[id].events) \in {"running", "failed"}
          /\ Tail(sessions[id].events) \in Seq({"running", "failed"})
      BY <3>1, TailFacts
    <3>3. /\ observed'[id] = Head(sessions[id].events)
          /\ sessions'[id] = IF Head(sessions[id].events) = "failed" THEN None
                             ELSE [sessions[id] EXCEPT !.events = Tail(sessions[id].events)]
      BY <1>0, <1>7, <2>3, <3>1 DEF Lifecycle, Session
    <3>4. [sessions[id] EXCEPT !.events = Tail(sessions[id].events)] \in Session
      BY <3>1, <3>2 DEF Session
    <3>5. [sessions[id] EXCEPT !.events = Tail(sessions[id].events)].gen = sessions[id].gen
      BY <3>1 DEF Session
    <3>6. \A t \in tasks : ~(t.id = id /\ t.gen = desiredGen[id])
      BY <1>1, <3>1
    <3> QED
      BY <1>1, <2>1, <3>1, <3>2, <3>3, <3>4, <3>5, <3>6, FingerprintFacts
  <2> QED
    BY <2>2, <2>3
<1>8. CASE Drop
  BY <1>8 DEF Drop
<1>9. CASE UNCHANGED <<sessions, desiredGen, tasks, observed>>
  BY <1>1, <1>9
<1> HIDE DEF Shown
<1> QED
  BY <1>3, <1>4, <1>5, <1>6, <1>7, <1>8, <1>9 DEF Next, vars, uiVars, Worker, List, ListFails, Advance,
     Fetch, Send, TakeCommand, Poll, Outside, Retry
-----------------------------------------------------------------------------
(* What the worker knows of.                                               *)

\* What the worker knows of an instance after a step.
LEMMA KnowsSteps ==
    ASSUME TypeOK, Planned, [Next]_vars, NEW id \in Ids, known'[id] # None
    PROVE  \/ known'[id] = known[id]
           \/ /\ Send /\ queue' = Append(queue, batch) /\ wpc = "send" /\ Wanted(snapshot, id)
              /\ known'[id] = FingerprintOf(snapshot[id])
<1>0. /\ record \in [Ids -> Record \cup {None}] /\ snapshot \in [Ids -> Record \cup {None}]
      /\ known \in [Ids -> Fingerprint \cup {None}]
  BY DEF TypeOK, InstancesTypeOK
<1>1. CASE List
  <2>1. CASE known' = known
    BY <2>1
  <2>2. CASE known' = NextKnown(record) /\ ~Changed(record, id)
    BY <1>0, <2>2 DEF Changed, NextKnown
  <2> QED
    BY <1>1, <2>1, <2>2 DEF List
<1>2. CASE Send
  <2>1. CASE known' = known
    BY <2>1
  <2>2. CASE known' # known
    <3>1. queue' = Append(queue, batch) /\ wpc = "send" /\ known' = NextKnown(snapshot)
      BY <1>2, <2>2 DEF Send
    <3> QED
      BY <1>0, <1>2, <3>1 DEF NextKnown
  <2> QED
    BY <2>1, <2>2
<1>3. CASE TakeCommand
  <2>1. known' = known \/ known' = [known EXCEPT ![Head(commands)] = None]
    BY <1>3 DEF TakeCommand
  <2> QED
    BY <1>0, <2>1
<1>4. CASE UNCHANGED known
  BY <1>4
<1> QED
  BY <1>1, <1>2, <1>3, <1>4 DEF Next, vars, workerVars, Worker, ListFails, Advance, Fetch, Poll, Outside, ApplyActions,
     TaskStarts, TaskFails, Runtime, Lifecycle, Retry, Drop

\* The session of an instance, its plan, and what is shown, by steps that apply no batch.
LEMMA LastingSteps ==
    ASSUME TypeOK, Carried, [Next]_vars, ~ApplyActions, ~Drop, NEW id \in Ids
    PROVE  /\ Live(id) \/ observed[id] = "failed" => Live(id)' \/ observed'[id] = "failed"
           /\ sessions'[id] # None =>
                \/ sessions[id] # None /\ sessions'[id].planned = sessions[id].planned
                \/ \E t \in tasks : /\ t.id = id /\ t.gen = desiredGen[id]
                                    /\ sessions'[id].planned = t.planned
<1>0. /\ sessions \in [Ids -> Session \cup {None}] /\ desiredGen \in [Ids -> 0..MaxGen]
      /\ observed \in [Ids -> {"unknown", "starting", "running", "failed", "stopped"}]
      /\ tasks \subseteq Started
  BY DEF TypeOK
<1> DEFINE Lasts ==
      /\ Live(id) \/ observed[id] = "failed" => Live(id)' \/ observed'[id] = "failed"
      /\ sessions'[id] # None =>
           \/ sessions[id] # None /\ sessions'[id].planned = sessions[id].planned
           \/ \E t \in tasks : /\ t.id = id /\ t.gen = desiredGen[id]
                               /\ sessions'[id].planned = t.planned
<1> SUFFICES Lasts
  OBVIOUS
<1>1. ASSUME NEW t \in tasks, TaskStarts(t)
      PROVE  Lasts
  <2>1. /\ observed' = observed /\ desiredGen' = desiredGen /\ tasks' = tasks \ {t} /\ t.id \in Ids
    BY <1>0, <1>1 DEF TaskStarts, Started
  <2>2. CASE t.id = id /\ t.gen = desiredGen[id]
    <3>1. sessions'[id] = [gen |-> t.gen, print |-> t.print, planned |-> t.planned,
                           runtime |-> "booting", events |-> <<>>]
      BY <1>0, <1>1, <2>2 DEF TaskStarts, StillDesired
    <3>2. sessions'[id] \in Session /\ sessions'[id].planned = t.planned
      BY <1>0, <3>1 DEF Started, Session
    <3>3. Live(id)'
      BY <3>2, FingerprintFacts DEF Live
    <3> QED
      BY <2>2, <3>2, <3>3
  <2>3. CASE ~(t.id = id /\ t.gen = desiredGen[id])
    <3>1. sessions'[id] = sessions[id]
      BY <1>0, <1>1, <2>3 DEF TaskStarts, StillDesired
    <3>2. Live(id) => Live(id)'
      BY <2>1, <2>3, <3>1 DEF Live
    <3> QED
      BY <2>1, <3>1, <3>2
  <2> QED
    BY <2>2, <2>3
<1>2. ASSUME NEW t \in tasks, TaskFails(t)
      PROVE  Lasts
  <2>1. /\ sessions' = sessions /\ desiredGen' = desiredGen /\ tasks' = tasks \ {t} /\ t.id \in Ids
    BY <1>0, <1>2 DEF TaskFails, Started
  <2>2. CASE t.id = id /\ t.gen = desiredGen[id]
    <3>1. observed'[id] = "failed"
      BY <1>0, <1>2, <2>2 DEF TaskFails, StillDesired
    <3> QED
      BY <2>1, <3>1
  <2>3. CASE ~(t.id = id /\ t.gen = desiredGen[id])
    <3>1. observed'[id] = observed[id]
      BY <1>0, <1>2, <2>3 DEF TaskFails, StillDesired
    <3>2. Live(id) => Live(id)'
      BY <2>1, <2>3 DEF Live
    <3> QED
      BY <2>1, <3>1, <3>2
  <2> QED
    BY <2>2, <2>3
<1>3. ASSUME NEW other \in Ids, Runtime(other)
      PROVE  Lasts
  <2>1. UNCHANGED <<observed, desiredGen, tasks>> /\ sessions[other] # None
    BY <1>3 DEF Runtime
  <2>2. CASE other # id
    <3>1. sessions'[id] = sessions[id]
      BY <1>0, <1>3, <2>2 DEF Runtime
    <3> QED
      BY <2>1, <3>1 DEF Live
  <2>3. CASE other = id
    <3>1. sessions[id] \in Session /\ sessions[id].events \in Seq({"running", "failed"})
      BY <1>0, <2>1, <2>3 DEF Session
    <3>2. \E r \in {"up", "down"}, e \in {"running", "failed"} :
            sessions'[id] = [sessions[id] EXCEPT !.runtime = r, !.events = Append(sessions[id].events, e)]
      BY <1>0, <1>3, <2>3, <3>1 DEF Runtime, Session
    <3>3. \A e \in {"running", "failed"} : Append(sessions[id].events, e) \in Seq({"running", "failed"})
      BY <3>1
    <3>4. sessions'[id] \in Session
      BY <3>1, <3>2, <3>3 DEF Session
    <3>5. sessions'[id].planned = sessions[id].planned
      BY <3>1, <3>2 DEF Session
    <3>6. Live(id)'
      BY <3>4, FingerprintFacts DEF Live
    <3> QED
      BY <2>1, <2>3, <3>5, <3>6
  <2> QED
    BY <2>2, <2>3
<1>4. ASSUME NEW other \in Ids, Lifecycle(other)
      PROVE  Lasts
  <2>1. UNCHANGED <<desiredGen, tasks>>
    BY <1>4 DEF Lifecycle
  <2>2. CASE other # id
    <3>1. sessions'[id] = sessions[id] /\ observed'[id] = observed[id]
      BY <1>0, <1>4, <2>2 DEF Lifecycle
    <3> QED
      BY <2>1, <3>1 DEF Live
  <2>3. CASE other = id
    <3>1. /\ sessions[id] \in Session /\ sessions[id].events \in Seq({"running", "failed"})
          /\ sessions[id].events # <<>> /\ sessions[id] # None
      BY <1>0, <1>4, <2>3 DEF Lifecycle, Session
    <3>2. Tail(sessions[id].events) \in Seq({"running", "failed"})
      BY <3>1, TailFacts
    <3>3. /\ observed'[id] = Head(sessions[id].events)
          /\ sessions'[id] = IF Head(sessions[id].events) = "failed" THEN None
                             ELSE [sessions[id] EXCEPT !.events = Tail(sessions[id].events)]
      BY <1>0, <1>4, <2>3, <3>1 DEF Lifecycle, Session
    <3>4. /\ [sessions[id] EXCEPT !.events = Tail(sessions[id].events)] \in Session
          /\ [sessions[id] EXCEPT !.events = Tail(sessions[id].events)].planned = sessions[id].planned
      BY <3>1, <3>2 DEF Session
    <3>5. Live(id)' \/ observed'[id] = "failed"
      BY <3>3, <3>4, FingerprintFacts DEF Live
    <3> QED
      BY <3>1, <3>3, <3>4, <3>5
  <2> QED
    BY <2>2, <2>3
<1>5. CASE UNCHANGED <<sessions, desiredGen, tasks, observed>>
  BY <1>5 DEF Live
<1> HIDE DEF Lasts
<1> QED
  BY <1>1, <1>2, <1>3, <1>4, <1>5 DEF Next, vars, uiVars, Worker, List, ListFails, Advance,
     Fetch, Send, TakeCommand, Poll, Outside, Retry

\* Applying a batch serves what it starts or fails.
LEMMA ServedApplied ==
    ASSUME TypeOK, Carried, ApplyActions, NEW id \in Ids,
           \/ \E i \in DOMAIN queue : queue[i][id].act # "none" /\ LastIn(id, i)
           \/ LastIn(id, 0) /\ (Live(id) \/ observed[id] = "failed")
    PROVE  \/ \E i \in DOMAIN queue' : queue'[i][id].act # "none" /\ LastIn(id, i)'
           \/ LastIn(id, 0)' /\ (Live(id)' \/ observed'[id] = "failed")
<1>0. /\ 1 \in DOMAIN queue /\ DOMAIN queue = 1..Len(queue) /\ DOMAIN queue' = 1..Len(queue')
      /\ Len(queue) \in Nat /\ Len(queue') = Len(queue) - 1
      /\ \A i \in DOMAIN queue' : queue'[i] = queue[i + 1]
  BY ApplyFacts
<1>1. ASSUME NEW i \in 1..Len(queue), LastIn(id, i) PROVE LastIn(id, i - 1)'
  <2> SUFFICES ASSUME NEW j \in (i - 1) + 1..Len(queue') PROVE Moot(queue'[j][id])
    BY DEF LastIn, Moot
  <2>1. j + 1 \in i + 1..Len(queue) /\ j \in DOMAIN queue'
    BY <1>0
  <2> QED
    BY <1>0, <1>1, <2>1 DEF LastIn
<1>2. CASE \E i \in DOMAIN queue : i # 1 /\ queue[i][id].act # "none" /\ LastIn(id, i)
  <2> PICK i \in DOMAIN queue : i # 1 /\ queue[i][id].act # "none" /\ LastIn(id, i)
    BY <1>2
  <2>1. i - 1 \in DOMAIN queue' /\ queue'[i - 1] = queue[i] /\ LastIn(id, i - 1)'
    BY <1>0, <1>1
  <2> QED
    BY <2>1
<1>3. CASE queue[1][id].act # "none" /\ LastIn(id, 1)
  <2>1. LastIn(id, 0)'
    BY <1>0, <1>1, <1>3 DEF LastIn
  <2>2. CASE queue[1][id].act = "start"
    <3>1. desiredGen'[id] = queue[1][id].gen
      BY <2>2, ApplyFacts
    <3>2. \/ observed'[id] = "failed"
          \/ [id |-> id, gen |-> queue[1][id].gen, print |-> queue[1][id].print,
              planned |-> queue[1][id].planned] \in tasks'
      BY <2>2, ApplyFacts
    <3> QED
      BY <2>1, <3>1, <3>2 DEF Live
  <2>3. CASE queue[1][id].act = "fail"
    BY <2>1, <2>3, ApplyFacts
  <2> QED
    BY <1>0, <1>3, <2>2, <2>3, ApplyFacts DEF Action
<1>4. CASE LastIn(id, 0) /\ (Live(id) \/ observed[id] = "failed")
  <2>1. Moot(queue[1][id]) /\ LastIn(id, 1)
    BY <1>0, <1>4 DEF LastIn
  <2>2. LastIn(id, 0)'
    BY <1>0, <1>1, <2>1 DEF LastIn
  <2>3. /\ desiredGen'[id] = desiredGen[id] /\ sessions'[id] = sessions[id] /\ observed'[id] = observed[id]
        /\ tasks \subseteq tasks'
    BY <2>1, ApplyFacts DEF Moot
  <2> QED
    BY <1>4, <2>2, <2>3 DEF Live
<1> QED
  BY <1>2, <1>3, <1>4

LEMMA ClosedStays == [Next]_vars /\ ~closed' => ~closed /\ ~Drop
<1>1. Drop => closed' = TRUE
  BY DEF Drop
<1>2. [Next]_vars => Drop \/ UNCHANGED closed
  BY DEF Next, vars, Worker, List, ListFails, Advance, Fetch, Send, TakeCommand, Poll, Outside, ApplyActions,
     TaskStarts, TaskFails, Runtime, Lifecycle, Retry
<1> QED
  BY <1>1, <1>2

\* A batch that is sent has something for an instance, or the worker knew as much before.
LEMMA SentServes ==
    ASSUME TypeOK, Planned, [Next]_vars, NEW id \in Ids, known'[id] # None,
           wpc \in {"send", "report"}, queue' = Append(queue, batch),
           known' = IF wpc = "send" THEN NextKnown(snapshot) ELSE known
    PROVE  \/ known'[id] = known[id] /\ Moot(batch[id])
           \/ /\ batch[id].act # "none"
              /\ batch[id].act = "start" => batch[id].planned = known'[id]
<1>1. CASE wpc = "report"
  <2>1. batch[id] = Nothing /\ known' = known
    BY <1>1 DEF Planned
  <2> QED
    BY <2>1 DEF Moot, Nothing
<1>2. CASE wpc = "send"
  <2>1. /\ batch[id].stop = Stops(snapshot, id)
        /\ batch[id].act # "none" => Changed(snapshot, id)
        /\ id \in todo <=> Changed(snapshot, id) /\ batch[id].act = "none"
        /\ batch[id].act = "start" => batch[id].planned = FingerprintOf(snapshot[id])
    BY <1>2 DEF Planned, Planning
  <2>2. todo = {}
    BY <1>2 DEF Planned
  <2>3. known'[id] = FingerprintOf(snapshot[id]) /\ Wanted(snapshot, id)
    BY <1>2 DEF NextKnown
  <2> QED
    BY <2>1, <2>2, <2>3 DEF Moot, Stops, Changed
<1> QED
  BY <1>1, <1>2

\* The last action in the channel, when the channel stays or grows by a batch.
LEMMA LastGrows ==
    ASSUME TypeOK, [Next]_vars, NEW id \in Ids, NEW i \in Nat, queue' = Append(queue, batch), i <= Len(queue)
    PROVE  /\ LastIn(id, i)' <=> LastIn(id, i) /\ Moot(batch[id])
           /\ LastIn(id, Len(queue) + 1)'
<1> PICK n \in Nat : n = Len(queue)
  BY DEF TypeOK
<1>1. /\ Len(queue') = n + 1 /\ DOMAIN queue' = 1..n + 1
      /\ \A k \in 1..n : queue'[k] = queue[k]
      /\ queue'[n + 1] = batch
  BY AppendFacts DEF TypeOK
<1>2. LastIn(id, i)' <=> \A j \in i + 1..n + 1 : Moot(queue'[j][id])
  BY <1>1 DEF LastIn, Moot
<1>3. LastIn(id, i) <=> \A j \in i + 1..n : Moot(queue[j][id])
  BY DEF LastIn
<1>4. n + 1 \in i + 1..n + 1 /\ \A j \in i + 1..n + 1 : j = n + 1 \/ (j \in i + 1..n /\ j \in 1..n)
  OBVIOUS
<1>5. \A j \in i + 1..n : j \in i + 1..n + 1
  OBVIOUS
<1>6. LastIn(id, i)' <=> LastIn(id, i) /\ Moot(batch[id])
  <2>1. ASSUME LastIn(id, i)' PROVE LastIn(id, i) /\ Moot(batch[id])
    <3>1. \A j \in i + 1..n : Moot(queue[j][id])
      BY <1>1, <1>2, <1>4, <1>5, <2>1
    <3> QED
      BY <1>1, <1>2, <1>3, <1>4, <2>1, <3>1
  <2>2. ASSUME LastIn(id, i), Moot(batch[id]) PROVE LastIn(id, i)'
    <3>1. ASSUME NEW j \in i + 1..n + 1 PROVE Moot(queue'[j][id])
      BY <1>1, <1>3, <1>4, <2>2
    <3> QED
      BY <1>2, <3>1
  <2> QED
    BY <2>1, <2>2
<1>7. \A m : m = n + 1 => LastIn(id, m)'
  BY <1>1 DEF LastIn
<1> QED
  BY <1>6, <1>7 DEF LastIn

LEMMA ServedStep == TypeOK /\ Planned /\ Carried /\ Served /\ [Next]_vars => Served'
<1> SUFFICES ASSUME TypeOK, Planned, Carried, Served, [Next]_vars, ~closed', NEW id \in Ids, known'[id] # None
             PROVE  \/ \E i \in DOMAIN queue' : queue'[i][id].act # "none" /\ LastIn(id, i)'
                    \/ LastIn(id, 0)' /\ (Live(id)' \/ observed'[id] = "failed")
  BY DEF Served
<1>0. ~closed /\ ~Drop
  BY ClosedStays
<1>1. known[id] # None =>
        \/ \E i \in DOMAIN queue : queue[i][id].act # "none" /\ LastIn(id, i)
        \/ LastIn(id, 0) /\ (Live(id) \/ observed[id] = "failed")
  BY <1>0 DEF Served
<1>2. CASE ApplyActions
  <2>1. known' = known
    BY <1>2 DEF ApplyActions, workerVars
  <2> QED
    BY <1>1, <1>2, <2>1, ServedApplied
<1>3. CASE ~ApplyActions /\ queue' = queue
  <2>1. queue' # Append(queue, batch)
    <3>1. Len(Append(queue, batch)) = Len(queue) + 1 /\ Len(queue) \in Nat
      BY AppendFacts DEF TypeOK
    <3> QED
      BY <1>3, <3>1
  <2>2. known'[id] = known[id]
    BY <2>1, KnowsSteps
  <2>3. Live(id) \/ observed[id] = "failed" => Live(id)' \/ observed'[id] = "failed"
    BY <1>0, <1>3, LastingSteps
  <2>4. ASSUME NEW i \in Nat, LastIn(id, i) PROVE LastIn(id, i)'
    BY <1>3, <2>4 DEF LastIn, Moot
  <2>5. DOMAIN queue \subseteq Nat
    BY DEF TypeOK
  <2> QED
    BY <1>1, <1>3, <2>2, <2>3, <2>4, <2>5
<1>4. CASE /\ ~ApplyActions /\ wpc \in {"send", "report"} /\ queue' = Append(queue, batch)
           /\ (known' = IF wpc = "send" THEN NextKnown(snapshot) ELSE known)
  <2> PICK n \in Nat : n = Len(queue)
    BY DEF TypeOK
  <2>1. /\ DOMAIN queue' = 1..n + 1 /\ DOMAIN queue = 1..n
        /\ \A k \in 1..n : queue'[k] = queue[k]
        /\ queue'[n + 1] = batch
    BY <1>4, AppendFacts DEF TypeOK
  <2>2. CASE batch[id].act # "none"
    <3>1. \A m : m = n + 1 => LastIn(id, m)'
      BY <1>4, LastGrows DEF LastIn
    <3> QED
      BY <2>1, <2>2, <3>1
  <2>3. CASE batch[id].act = "none"
    <3>1. known'[id] = known[id] /\ Moot(batch[id])
      BY <1>4, <2>3, SentServes
    <3>2. ASSUME NEW i \in 0..n, LastIn(id, i) PROVE LastIn(id, i)'
      BY <1>4, <3>1, <3>2, LastGrows
    <3>3. Live(id) \/ observed[id] = "failed" => Live(id)' \/ observed'[id] = "failed"
      BY <1>0, <1>4, LastingSteps
    <3>4. CASE \E i \in DOMAIN queue : queue[i][id].act # "none" /\ LastIn(id, i)
      BY <2>1, <3>2, <3>4
    <3>5. CASE LastIn(id, 0) /\ (Live(id) \/ observed[id] = "failed")
      BY <3>2, <3>3, <3>5
    <3> QED
      BY <1>1, <3>1, <3>4, <3>5
  <2> QED
    BY <2>2, <2>3
<1> QED
  BY <1>0, <1>2, <1>3, <1>4, QueueSteps

\* What applying a batch leaves of the plan it was made from.
LEMMA PlannedApplied ==
    ASSUME TypeOK, Carried, InOrder, NoneLeft, ApplyActions, NEW id \in Ids \ hasty, NEW print,
           \A i \in DOMAIN queue : queue[i][id].act = "start" /\ LastIn(id, i) => queue[i][id].planned = print,
           LastIn(id, 0) =>
              /\ sessions[id] # None => sessions[id].planned = print
              /\ \A t \in tasks : t.id = id /\ t.gen = desiredGen[id] => t.planned = print
    PROVE  /\ \A i \in DOMAIN queue' :
                 queue'[i][id].act = "start" /\ LastIn(id, i)' => queue'[i][id].planned = print
           /\ LastIn(id, 0)' =>
                 /\ sessions'[id] # None => sessions'[id].planned = print
                 /\ \A t \in tasks' : t.id = id /\ t.gen = desiredGen'[id] => t.planned = print
<1>0. /\ 1 \in DOMAIN queue /\ DOMAIN queue = 1..Len(queue) /\ DOMAIN queue' = 1..Len(queue')
      /\ Len(queue) \in Nat /\ Len(queue') = Len(queue) - 1
      /\ \A i \in DOMAIN queue' : i + 1 \in DOMAIN queue /\ queue'[i] = queue[i + 1]
  BY ApplyFacts
<1>1. ASSUME NEW i \in 0..Len(queue'), LastIn(id, i)' PROVE LastIn(id, i + 1)
  <2> SUFFICES ASSUME NEW j \in (i + 1) + 1..Len(queue) PROVE Moot(queue[j][id])
    BY DEF LastIn
  <2>1. j - 1 \in i + 1..Len(queue') /\ j - 1 \in DOMAIN queue' /\ (j - 1) + 1 = j
    BY <1>0
  <2>2. Moot(queue'[j - 1][id])
    BY <1>1, <2>1 DEF LastIn, Moot
  <2> QED
    BY <1>0, <2>1, <2>2
<1>2. ASSUME NEW i \in DOMAIN queue', queue'[i][id].act = "start", LastIn(id, i)'
      PROVE  queue'[i][id].planned = print
  <2>1. i + 1 \in DOMAIN queue /\ queue'[i] = queue[i + 1] /\ LastIn(id, i + 1)
    BY <1>0, <1>1, <1>2
  <2> QED
    BY <1>2, <2>1
<1>3. ASSUME LastIn(id, 0)'
      PROVE  /\ sessions'[id] # None => sessions'[id].planned = print
             /\ \A t \in tasks' : t.id = id /\ t.gen = desiredGen'[id] => t.planned = print
  <2> DEFINE a == queue[1][id]
  <2>0. /\ a \in Action
        /\ desiredGen'[id] = IF a.act = "start" THEN a.gen
                             ELSE IF a.act = "fail" \/ a.stop THEN 0 ELSE desiredGen[id]
        /\ sessions'[id] = IF a.act = "fail" \/ a.stop THEN None ELSE sessions[id]
        /\ \A t \in tasks' : t.id = id =>
             t \in tasks \/ (a.act = "start" /\ t.planned = a.planned)
    <3>1. ASSUME NEW t \in tasks', t.id = id
          PROVE  t \in tasks \/ (a.act = "start" /\ t.planned = a.planned)
      <4>1. \/ t \in tasks
            \/ /\ a.act = "start"
               /\ t = [id |-> id, gen |-> a.gen, print |-> a.print, planned |-> a.planned]
        BY <3>1, ApplyFacts
      <4> QED
        BY <4>1
    <3> QED
      BY <3>1, ApplyFacts
  <2>1. /\ \A t \in tasks : t.id = id => 1 <= t.gen /\ t.gen \in Nat
        /\ a.act = "start" => \A t \in tasks : t.id = id => t.gen < a.gen
        /\ a.gen \in Nat
    BY <1>0, GenFacts DEF InOrder, SentInOrder
  <2>2. LastIn(id, 1)
    <3>1. 0 \in 0..Len(queue') /\ 0 + 1 = 1
      BY <1>0
    <3> QED
      BY <1>1, <1>3, <3>1
  <2>3. CASE a.act = "start"
    <3>1. a.planned = print
      BY <1>0, <2>2, <2>3
    <3>2. sessions'[id] = None
      <4>1. CASE a.stop
        BY <2>0, <4>1
      <4>2. CASE ~a.stop
        BY <2>0, <2>3, <4>2, StartFindsNone DEF Live
      <4> QED
        BY <4>1, <4>2
    <3>3. ASSUME NEW t \in tasks', t.id = id, t.gen = desiredGen'[id] PROVE t.planned = print
      <4>1. t \notin tasks
        BY <2>0, <2>1, <2>3, <3>3
      <4> QED
        BY <2>0, <3>1, <3>3, <4>1
    <3> QED
      BY <3>2, <3>3
  <2>4. CASE a.act # "start" /\ (a.act = "fail" \/ a.stop)
    <3>1. sessions'[id] = None /\ desiredGen'[id] = 0
      BY <2>0, <2>4
    <3>2. \A t \in tasks' : t.id = id => t.gen # 0
      BY <2>0, <2>1, <2>4
    <3> QED
      BY <3>1, <3>2
  <2>5. CASE a.act # "start" /\ ~(a.act = "fail" \/ a.stop)
    <3>1. Moot(a)
      BY <2>0, <2>5 DEF Moot, Action
    <3>2. LastIn(id, 0)
      <4>1. \A j \in 0 + 1..Len(queue) : j = 1 \/ j \in 1 + 1..Len(queue)
        BY <1>0
      <4> QED
        BY <2>2, <3>1, <4>1 DEF LastIn
    <3> QED
      BY <2>0, <2>5, <3>2
  <2> QED
    BY <2>3, <2>4, <2>5
<1> QED
  BY <1>2, <1>3

LEMMA AsPlannedStep ==
    TypeOK /\ Planned /\ Carried /\ InOrder /\ NoneLeft /\ AsPlanned /\ [Next]_vars => AsPlanned'
<1> SUFFICES ASSUME TypeOK, Planned, Carried, InOrder, NoneLeft, AsPlanned, [Next]_vars,
                    ~closed', NEW id \in Ids, id \notin hasty', known'[id] # None
             PROVE  /\ \A i \in DOMAIN queue' :
                         queue'[i][id].act = "start" /\ LastIn(id, i)' => queue'[i][id].planned = known'[id]
                    /\ LastIn(id, 0)' =>
                         /\ sessions'[id] # None => sessions'[id].planned = known'[id]
                         /\ \A t \in tasks' : t.id = id /\ t.gen = desiredGen'[id] => t.planned = known'[id]
  BY DEF AsPlanned
<1>0. ~closed /\ ~Drop /\ id \notin hasty
  BY ClosedStays, HastyStays
<1>1. known[id] # None =>
        /\ \A i \in DOMAIN queue :
              queue[i][id].act = "start" /\ LastIn(id, i) => queue[i][id].planned = known[id]
        /\ LastIn(id, 0) =>
              /\ sessions[id] # None => sessions[id].planned = known[id]
              /\ \A t \in tasks : t.id = id /\ t.gen = desiredGen[id] => t.planned = known[id]
  BY <1>0 DEF AsPlanned
<1>2. CASE ApplyActions
  <2>1. known' = known
    BY <1>2 DEF ApplyActions, workerVars
  <2> PICK print : print = known[id]
    OBVIOUS
  <2>2. known'[id] = print /\ known[id] = print
    BY <2>1
  <2> QED
    BY <1>0, <1>1, <1>2, <2>2, PlannedApplied
<1>3. CASE ~ApplyActions /\ LastIn(id, 0) /\ known'[id] = known[id]
  <2>1. UNCHANGED desiredGen /\ tasks' \subseteq tasks
    BY <1>0, <1>3, TaskSteps
  <2>2. sessions'[id] # None =>
          \/ sessions[id] # None /\ sessions'[id].planned = sessions[id].planned
          \/ \E t \in tasks : /\ t.id = id /\ t.gen = desiredGen[id]
                              /\ sessions'[id].planned = t.planned
    BY <1>0, <1>3, LastingSteps
  <2>3. /\ sessions'[id] # None => sessions'[id].planned = known'[id]
        /\ \A t \in tasks' : t.id = id /\ t.gen = desiredGen'[id] => t.planned = known'[id]
    BY <1>1, <1>3, <2>1, <2>2
  <2>4. ASSUME NEW i \in DOMAIN queue', queue'[i][id].act = "start" PROVE queue'[i][id].planned = known'[id]
    <3>1. CASE queue' = queue
      <4>1. i \in 0 + 1..Len(queue)
        BY <2>4, <3>1 DEF TypeOK
      <4> QED
        BY <1>3, <2>4, <3>1, <4>1 DEF LastIn, Moot
    <3>2. CASE /\ wpc \in {"send", "report"} /\ queue' = Append(queue, batch)
               /\ (known' = IF wpc = "send" THEN NextKnown(snapshot) ELSE known)
      <4>1. /\ DOMAIN queue' = 1..Len(queue) + 1 /\ Len(queue) \in Nat
            /\ \A k \in 1..Len(queue) : queue'[k] = queue[k]
            /\ queue'[Len(queue) + 1] = batch
        BY <3>2, AppendFacts DEF TypeOK
      <4>2. CASE i = Len(queue) + 1
        BY <2>4, <3>2, <4>1, <4>2, SentServes DEF Moot
      <4>3. CASE i # Len(queue) + 1
        <5>1. i \in 0 + 1..Len(queue) /\ queue'[i] = queue[i]
          BY <4>1, <4>3
        <5> QED
          BY <1>3, <2>4, <5>1 DEF LastIn, Moot
      <4> QED
        BY <4>2, <4>3
    <3> QED
      BY <1>0, <1>3, <3>1, <3>2, QueueSteps
  <2> QED
    BY <2>3, <2>4
<1>4. CASE ~ApplyActions /\ queue' = queue
  <2>1. queue' # Append(queue, batch)
    <3>1. Len(Append(queue, batch)) = Len(queue) + 1 /\ Len(queue) \in Nat
      BY AppendFacts DEF TypeOK
    <3> QED
      BY <1>4, <3>1
  <2>2. known'[id] = known[id]
    BY <2>1, KnowsSteps
  <2>3. ASSUME NEW i \in Nat, LastIn(id, i)' PROVE LastIn(id, i)
    BY <1>4, <2>3 DEF LastIn, Moot
  <2>4. DOMAIN queue \subseteq Nat
    BY DEF TypeOK
  <2>5. CASE LastIn(id, 0)
    BY <1>3, <1>4, <2>2, <2>5
  <2>6. CASE ~LastIn(id, 0)
    BY <1>1, <1>4, <2>2, <2>3, <2>4, <2>6
  <2> QED
    BY <2>5, <2>6
<1>5. CASE /\ ~ApplyActions /\ wpc \in {"send", "report"} /\ queue' = Append(queue, batch)
           /\ (known' = IF wpc = "send" THEN NextKnown(snapshot) ELSE known)
  <2> PICK n \in Nat : n = Len(queue)
    BY DEF TypeOK
  <2>1. /\ DOMAIN queue' = 1..n + 1 /\ DOMAIN queue = 1..n
        /\ \A k \in 1..n : queue'[k] = queue[k]
        /\ queue'[n + 1] = batch
    BY <1>5, AppendFacts DEF TypeOK
  <2>2. ASSUME NEW i \in 0..n, LastIn(id, i)' PROVE LastIn(id, i) /\ Moot(batch[id])
    BY <1>5, <2>2, LastGrows
  <2>3. CASE batch[id].act # "none"
    <3>1. ASSUME NEW i \in 0..n, LastIn(id, i)' PROVE FALSE
      BY <2>2, <2>3, <3>1 DEF Moot
    <3>2. batch[id].act = "start" => batch[id].planned = known'[id]
      BY <1>5, <2>3, SentServes DEF Moot
    <3>3. ASSUME NEW i \in DOMAIN queue', queue'[i][id].act = "start", LastIn(id, i)'
          PROVE  queue'[i][id].planned = known'[id]
      <4>1. i \notin 0..n
        BY <3>1, <3>3
      <4>2. i = n + 1
        BY <2>1, <4>1
      <4> QED
        BY <2>1, <3>2, <3>3, <4>2
    <3>4. ~LastIn(id, 0)'
      BY <3>1
    <3> QED
      BY <3>3, <3>4
  <2>4. CASE batch[id].act = "none"
    <3>1. known'[id] = known[id] /\ Moot(batch[id])
      BY <1>5, <2>4, SentServes
    <3>2. CASE LastIn(id, 0)
      BY <1>3, <1>5, <3>1, <3>2
    <3>3. CASE ~LastIn(id, 0)
      <4>1. ~LastIn(id, 0)'
        BY <2>2, <3>3
      <4>2. ASSUME NEW i \in DOMAIN queue', queue'[i][id].act = "start", LastIn(id, i)'
            PROVE  queue'[i][id].planned = known'[id]
        <5>1. i # n + 1
          BY <2>1, <2>4, <4>2
        <5>2. i \in 1..n /\ i \in 0..n /\ queue'[i] = queue[i]
          BY <2>1, <5>1
        <5> QED
          BY <1>1, <2>1, <2>2, <3>1, <4>2, <5>2
      <4> QED
        BY <4>1, <4>2
    <3> QED
      BY <3>2, <3>3
  <2> QED
    BY <2>3, <2>4
<1> QED
  BY <1>0, <1>2, <1>4, <1>5, QueueSteps
-----------------------------------------------------------------------------
LEMMA InvHoldsAtFirst == Init => IInv
<1> SUFFICES ASSUME Init PROVE IInv
  OBVIOUS
<1> USE DEF Init
<1>0. 0 \in 0..MaxGen /\ 0 \in 0..MaxRetries /\ Nothing \in Action
  BY InstancesAssumption, SupervisorAssumption, NothingTyped
<1>1. InstancesTypeOK
  BY InitTyped
<1> DEFINE idle == [id \in Ids |-> Nothing]
<1>a. /\ wpc \in {"list", "done"} /\ Len(queue) \in {0, 1} /\ DOMAIN queue = 1..Len(queue)
      /\ \A i \in DOMAIN queue : queue[i] = idle
      /\ queue \in Seq([Ids -> Action])
  <2>1. idle \in [Ids -> Action]
    BY <1>0
  <2> HIDE DEF idle
  <2>2. wpc \in {"list", "done"} /\ queue \in {<<>>, <<idle>>}
    BY DEF StoreOpened, idle
  <2>3. CASE queue = <<>>
    BY <2>2, <2>3
  <2>4. CASE queue = <<idle>>
    BY <2>1, <2>2, <2>4
  <2> QED
    BY <2>2, <2>3, <2>4
<1>b. \A i \in DOMAIN queue, id \in Ids : queue[i][id] = Nothing
  BY <1>a
<1> HIDE DEF idle
<1>2. WorkerTyped /\ UITyped
  BY <1>0, <1>a DEF WorkerTyped, UITyped
<1>3. ChannelsTyped
  BY <1>a, SupervisorAssumption DEF ChannelsTyped
<1>4. TypeOK
  BY <1>1, <1>2, <1>3, TypeParts
<1>5. Planned
  BY <1>a DEF Planned, Planning
<1>6. Carried
  BY <1>b DEF Carried, Prints, Nothing
<1>7. Born
  BY <1>b DEF Born, Starts, Nothing, InstancesInit
<1>8. InOrder
  BY <1>0, <1>a, <1>b DEF InOrder, SentInOrder, Nothing, InstancesInit
<1>9. NoneLeft
  BY <1>a, <1>b DEF NoneLeft, Quiet, Live, Nothing
<1>10. SessionIsDesired /\ ObservedIsTrue /\ StartIsShown
  BY DEF SessionIsDesired, ObservedIsTrue, StartIsShown
<1>11. Served /\ AsPlanned
  BY DEF Served, AsPlanned
<1> QED
  BY <1>4, <1>5, <1>6, <1>7, <1>8, <1>9, <1>10, <1>11 DEF IInv

LEMMA InvHoldsNext == IInv /\ [Next]_vars => IInv'
  BY TypesStep, PlannedStep, CarriedStep, BornStep, InOrderStep, NoneLeftStep, ScreenStep, ServedStep,
     AsPlannedStep DEF IInv

LEMMA SupervisorInvariant == Spec => []IInv
  BY InvHoldsAtFirst, InvHoldsNext, PTL DEF Spec
-----------------------------------------------------------------------------
(* The theorems.                                                           *)

\* For any number of instances, editors, channels and drops: generations grow from the session to
\* the record, a late start never comes back over a later stop, failure or restart, and what is
\* shown is about the session that is there (instance_supervisor.rs:480-600).
THEOREM SessionsAreWanted == Spec => []SessionsMatch
<1>1. IInv => GenerationsOrdered
  <2> SUFFICES ASSUME IInv PROVE GenerationsOrdered
    OBVIOUS
  <2>1. ASSUME NEW id \in Ids
        PROVE  /\ sessions[id] # None => sessions[id].gen <= desiredGen[id]
               /\ \A t \in tasks : t.id = id /\ desiredGen[id] # 0 => t.gen <= desiredGen[id]
               /\ \A i \in DOMAIN queue : queue[i][id].act = "start" =>
                    /\ desiredGen[id] < queue[i][id].gen
                    /\ \A j \in DOMAIN queue : queue[j][id].act = "start" =>
                         (i < j => queue[i][id].gen < queue[j][id].gen)
               /\ batch[id].act = "start" =>
                    /\ desiredGen[id] < batch[id].gen
                    /\ \A i \in DOMAIN queue : queue[i][id].act = "start" => queue[i][id].gen < batch[id].gen
               /\ record[id] # None =>
                    /\ desiredGen[id] <= record[id].gen
                    /\ \A i \in DOMAIN queue : queue[i][id].act = "start" => queue[i][id].gen <= record[id].gen
                    /\ batch[id].gen <= record[id].gen
    <3>1. SentInOrder(id) /\ (batch[id].act = "start" => Below(id, batch[id].gen))
      BY DEF IInv, InOrder
    <3>2. record[id] # None => Below(id, record[id].gen + 1) /\ batch[id].gen <= record[id].gen
      BY DEF IInv, InOrder
    <3>3. record[id] # None =>
            /\ desiredGen[id] <= record[id].gen
            /\ \A i \in DOMAIN queue : queue[i][id].act = "start" => queue[i][id].gen <= record[id].gen
      BY <3>2, GenFacts DEF IInv, Below
    <3> QED
      BY <3>1, <3>2, <3>3 DEF SentInOrder, Below
  <2> QED
    BY <2>1 DEF GenerationsOrdered
<1> QED
  BY <1>1, SupervisorInvariant, PTL DEF SessionsMatch, IInv

\* For any number of instances, editors, channels and drops: once everything has arrived, an instance
\* that is wanted has a session or failed, any other has none, and a session runs the configuration
\* of its record (instance_supervisor.rs:332-420).
THEOREM PlansAreRight == Spec => []PlansMatch
<1>1. ASSUME IInv, Settled, NEW id \in Ids
      PROVE  /\ IF Wanted(record, id) THEN sessions[id] # None \/ observed[id] = "failed"
                                     ELSE sessions[id] = None \/ id \in hasty
             /\ id \notin hasty /\ Wanted(record, id) /\ sessions[id] # None
                  /\ sessions[id].print = sessions[id].planned
                    => sessions[id].print = FingerprintOf(record[id])
  <2>0. /\ ~closed /\ queue = <<>> /\ Len(queue) = 0 /\ DOMAIN queue = {} /\ tasks = {}
        /\ ~Changed(record, id) /\ ~Stops(record, id)
    BY <1>1 DEF Settled
  <2>1. LastIn(id, 0) /\ (Live(id) <=> sessions[id] # None)
    BY <2>0 DEF LastIn, Live
  <2>2. CASE Wanted(record, id)
    <3>1. record[id] \in Record
      BY <1>1, <2>2 DEF Wanted, IInv, TypeOK, InstancesTypeOK
    <3>2. known[id] = FingerprintOf(record[id]) /\ known[id] # None
      BY <2>0, <2>2, <3>1, FingerprintFacts DEF Changed
    <3>3. sessions[id] # None \/ observed[id] = "failed"
      BY <1>1, <2>0, <2>1, <3>2 DEF IInv, Served
    <3>4. id \notin hasty /\ sessions[id] # None => sessions[id].planned = known[id]
      BY <1>1, <2>0, <2>1, <3>2 DEF IInv, AsPlanned
    <3> QED
      BY <2>2, <3>2, <3>3, <3>4
  <2>3. CASE ~Wanted(record, id)
    <3>1. known[id] = None
      BY <2>0, <2>3 DEF Stops
    <3>2. id \notin hasty => Quiet(id, 0)
      BY <1>1, <2>0, <3>1 DEF IInv, NoneLeft
    <3>3. id \notin hasty => sessions[id] = None
      BY <2>1, <3>2 DEF Quiet
    <3> QED
      BY <2>3, <3>3
  <2> QED
    BY <2>2, <2>3
<1>2. IInv => PlansMatch
  BY <1>1 DEF PlansMatch, Aligned, PlannedConfigRestarts
<1> QED
  BY <1>2, SupervisorInvariant, PTL

\* The supervisor, composed with the store, drives it as the store allows: the store's own theorems
\* hold of it (instance_supervisor.rs:262-345).
THEOREM StoreIsRespected == Spec => InstancesSpec
<1>1. Init => InstancesInit
  BY DEF Init
<1>2. IInv /\ [Next]_vars => [InstancesNext]_instanceVars
  BY StoreSteps DEF IInv
<1> QED
  BY <1>1, <1>2, SupervisorInvariant, PTL DEF Spec, InstancesSpec
-----------------------------------------------------------------------------
(***************************************************************************)
(* The control panel (module ControlPanel).  What is proved of its window  *)
(* is what each of its cells says of the next: the snapshots, the form,    *)
(* the selection, the commands and the command that is applied.            *)
(***************************************************************************)
PanelStored(fields, config) ==
    fields = NoFields \/ \E v \in Versions : fields = FormFields(v, config)

\* The fields of each instance in a snapshot are of its configuration.
Faithful(s) == \A id \in Ids : PanelStored(s.forms[id], s.rows[id].config)

\* A form nobody edited holds what it was filled with.
FormHolds(f) == f.edited \/ PanelStored(f.fields, f.config)

\* A configuration is sent with the form of the instance it is for.
Sent(c) ==
    /\ c.cmd \in AllCommands \ {"create"} => c.id \in Ids
    /\ c.cmd = "configure" => c.form.of.id = c.id /\ FormHolds(c.form)

Members(s) == {s[i] : i \in DOMAIN s}

SnapshotsHold ==
    /\ snapshots \in Seq(Members(snapshots))
    /\ \A s \in Members(snapshots) \cup {shown} : Faithful(s)

\* The selection is the form's, unless it was dropped.
FormOfSelection ==
    /\ form = [fields |-> form.fields, of |-> form.of, config |-> form.config,
               edited |-> form.edited]
    /\ FormHolds(form)
    /\ selection \in {NoSelection, form.of}
    /\ selection.id \in Ids \cup {0}

CommandsHold ==
    /\ controls \in Seq(Members(controls))
    /\ \A c \in Members(controls) : Sent(c)

\* What the worker is about to write is what the form it applies says.
AppliesForm ==
    /\ applying # None => Sent(applying)
    /\ edit[Panel] # None /\ edit[Panel].cmd = "configure" =>
         /\ applying.cmd = "configure" /\ Sent(applying)
         /\ edit[Panel].config = ConfigFromFields(applying.form.fields)

PanelInv ==
    InstancesTypeOK /\ SnapshotsHold /\ FormOfSelection /\ CommandsHold /\ AppliesForm
-----------------------------------------------------------------------------
(* Sequences by what is in them.                                           *)

LEMMA SeqOfMembers == ASSUME NEW S, NEW t \in Seq(S) PROVE t \in Seq(Members(t))
<1>1. DOMAIN t = 1..Len(t) /\ Len(t) \in Nat /\ t = [k \in 1..Len(t) |-> t[k]]
  OBVIOUS
<1>2. t \in [1..Len(t) -> Members(t)]
  BY <1>1 DEF Members
<1> QED
  BY <1>1, <1>2

LEMMA MembersOfAppend ==
    ASSUME NEW s, s \in Seq(Members(s)), NEW x
    PROVE  /\ Append(s, x) \in Seq(Members(Append(s, x)))
           /\ Members(Append(s, x)) \subseteq Members(s) \cup {x}
<1> DEFINE S == Members(s) \cup {x}  t == Append(s, x)
<1>1. s \in Seq(S) /\ x \in S
  <2>1. Members(s) \subseteq S
    OBVIOUS
  <2> HIDE DEF S
  <2>2. s \in Seq(Members(s))
    OBVIOUS
  <2>3. \A A, B : A \subseteq B => Seq(A) \subseteq Seq(B)
    OBVIOUS
  <2> QED
    BY <2>1, <2>2, <2>3 DEF S
<1> HIDE DEF S
<1>2. /\ t \in Seq(S) /\ DOMAIN t = 1..Len(s) + 1 /\ DOMAIN s = 1..Len(s) /\ Len(s) \in Nat
      /\ \A k \in 1..Len(s) : t[k] = s[k]
      /\ t[Len(s) + 1] = x
  BY <1>1, AppendFacts
<1> HIDE DEF t
<1>3. Members(t) \subseteq Members(s) \cup {x}
  BY <1>2 DEF Members
<1>4. t \in Seq(Members(t))
  BY <1>2, SeqOfMembers
<1> QED
  BY <1>3, <1>4 DEF t

LEMMA MembersOfTail ==
    ASSUME NEW s, s \in Seq(Members(s)), s # <<>>
    PROVE  /\ Head(s) \in Members(s) /\ s[Len(s)] \in Members(s)
           /\ Tail(s) \in Seq(Members(Tail(s)))
           /\ Members(Tail(s)) \subseteq Members(s)
<1> DEFINE S == Members(s)  t == Tail(s)
<1>1. s \in Seq(S)
  OBVIOUS
<1> HIDE DEF S
<1>2. /\ Head(s) = s[1] /\ t \in Seq(S)
      /\ Len(s) \in Nat \ {0} /\ DOMAIN t = 1..Len(s) - 1 /\ DOMAIN s = 1..Len(s)
      /\ \A k \in 1..Len(s) - 1 : t[k] = s[k + 1]
  BY <1>1, TailFacts
<1> HIDE DEF t
<1>3. Head(s) \in Members(s) /\ s[Len(s)] \in Members(s)
  BY <1>2 DEF Members
<1>4. Members(t) \subseteq Members(s)
  <2>1. ASSUME NEW k \in 1..Len(s) - 1 PROVE t[k] \in Members(s)
    <3>1. k + 1 \in 1..Len(s)
      BY <1>2
    <3> QED
      BY <1>2, <3>1 DEF Members
  <2> QED
    BY <1>2, <2>1 DEF Members
<1>5. t \in Seq(Members(t))
  BY <1>2, SeqOfMembers
<1> QED
  BY <1>3, <1>4, <1>5 DEF t
-----------------------------------------------------------------------------
(* A form that nobody edited is read back as the configuration it is of.   *)

\* A field that holds a value is read as it, or as another spelling of it.
LEMMA ValueIsRead ==
    ASSUME NEW kind, NEW x, NEW required
    PROVE  LET y == ValueOf(Filled(kind, x, required)) IN y = x \/ Respelt(kind, x, y)
<1> DEFINE f == Filled(kind, x, required)
           y == ValueOf(f)
<1>1. f.kind = kind /\ f.text.value = x /\ f.text.bare = (kind = "string" /\ x.type = "string")
  BY DEF Filled, Text
<1> HIDE DEF f
<1>2. CASE kind = "number" /\ x.type = "integer"
  <2>1. y = [type |-> "float", n |-> Nearest[x.n]]
    BY <1>1, <1>2 DEF ValueOf
  <2>2. x.n \in (-MaxExact)..MaxExact => y.n = x.n
    BY <2>1, ValuesAssumption
  <2> QED
    BY <1>2, <2>1, <2>2 DEF Respelt, f
<1>3. CASE kind = "string" /\ x.type # "string"
  <2>1. y = [type |-> "string", n |-> x]
    BY <1>1, <1>3 DEF ValueOf
  <2> QED
    BY <1>3, <2>1 DEF Respelt, f
<1>4. CASE ~(kind = "number" /\ x.type = "integer") /\ ~(kind = "string" /\ x.type # "string")
  <2>1. y = x
    BY <1>1, <1>4 DEF ValueOf
  <2> QED
    BY <2>1 DEF f
<1> QED
  BY <1>2, <1>3, <1>4

LEMMA ReadsBack ==
    ASSUME NEW v \in Versions, NEW c, FormFields(v, c) # NoFields
    PROVE  LET f == FormFields(v, c)
               w == ConfigFromFields(f)
           IN  \A k \in DOMAIN c :
                  /\ k \in DOMAIN w
                  /\ w[k] = c[k] \/ (k \in DOMAIN f /\ Respelt(f[k].kind, c[k], w[k]))
<1> DEFINE f == FormFields(v, c)
<1>1. Declares(v)
  BY DEF FormFields
<1>2. CASE WholeForm(v, c)
  <2>1. f = RootField(c)
    BY <1>1, <1>2 DEF FormFields
  <2>2. Root \in DOMAIN f /\ f[Root].text.value = c /\ f[Root].kind = "root"
    BY <2>1 DEF RootField
  <2> HIDE DEF f
  <2>3. ConfigFromFields(f) = c
    BY <2>2 DEF ConfigFromFields, ValueOf
  <2> QED
    BY <2>3 DEF f
<1>3. CASE ~WholeForm(v, c)
  <2>1. f = [k \in Known(v) |-> FormField(v, c, k)] /\ DOMAIN c \subseteq Known(v)
    BY <1>1, <1>3 DEF FormFields, WholeForm
  <2>2. Root \notin DOMAIN f
    BY <1>1, <2>1, ControlPanelAssumption DEF Declares, Known
  <2>3. ASSUME NEW k \in DOMAIN c
        PROVE  k \in Used(f) /\ (ValueOf(f[k]) = c[k] \/ Respelt(f[k].kind, c[k], ValueOf(f[k])))
    <3>1. f[k] = Filled(SchemaOf[v].kind[k], c[k], k \in SchemaOf[v].required)
      BY <2>1 DEF FormField
    <3>2. f[k].present = TRUE /\ f[k].kind = SchemaOf[v].kind[k]
      BY <3>1 DEF Filled
    <3> QED
      BY <2>1, <3>1, <3>2, ValueIsRead DEF Used
  <2> HIDE DEF f
  <2>4. ConfigFromFields(f) = [k \in Used(f) |-> ValueOf(f[k])]
    BY <2>2 DEF ConfigFromFields
  <2>5. Used(f) \subseteq DOMAIN f
    BY DEF Used
  <2> QED
    BY <2>3, <2>4, <2>5 DEF f
<1> QED
  BY <1>2, <1>3

LEMMA ReadingsAreFaithful == InstancesTypeOK => Faithful(Snapshot)
<1> SUFFICES ASSUME InstancesTypeOK, NEW id \in Ids
             PROVE  PanelStored(Snapshot.forms[id], Snapshot.rows[id].config)
  BY DEF Faithful
<1>1. CASE Snapshot = Blank
  BY <1>1 DEF Blank, PanelStored
<1>2. CASE Snapshot.rows = record /\ Snapshot.forms = [i \in Ids |-> FieldsShown(i)]
  <2>1. Snapshot.forms[id] = FieldsShown(id)
    BY <1>2
  <2>2. record[id] # None => record[id].version \in Versions
    BY DEF InstancesTypeOK, Record
  <2> QED
    BY <1>2, <2>1, <2>2 DEF FieldsShown, PanelStored
<1> QED
  BY <1>1, <1>2 DEF Snapshot

-----------------------------------------------------------------------------
(* The steps.                                                              *)

LEMMA PanelDrivesStore == [PanelNext]_panelVars /\ PanelInv => [InstancesNext]_instanceVars
<1> SUFFICES ASSUME PanelNext, PanelInv PROVE [InstancesNext]_instanceVars
  BY DEF panelVars
<1>1. Panel \in Editors
  BY ControlPanelAssumption
<1>2. CASE Tick \/ SupervisorStarts
  BY <1>2 DEF InstancesNext
<1>3. ASSUME NEW e \in Editors \ {Panel}, CliStep(e) PROVE InstancesNext
  BY <1>3 DEF CliStep, InstancesNext
<1>4. CASE WindowStep \/ \E v \in Versions : CatalogChanges(v)
  BY <1>4 DEF WindowStep, CatalogChanges, DrainSnapshots, SelectInstance, SelectInstallation,
              FieldEdited, Clicks, CreateClicked, InstanceClicked, TryCommand, Close
<1>5. CASE LoadSnapshot \/ WorkerStops \/ ApplyRefuses
  BY <1>5 DEF LoadSnapshot, WorkerStops, ApplyRefuses
<1>6. CASE ApplyCreate
  BY <1>1, <1>6 DEF ApplyCreate, InstancesNext, EditorStep
<1>7. CASE ApplyReads
  <2> DEFINE c == Head(controls)
  <2>1. /\ Read(Panel, c.cmd, c.id) /\ c.cmd \in AllCommands \ {"create"}
        /\ controls # <<>> /\ c.cmd \in Commands
    BY <1>7 DEF ApplyReads, Taken, Read, AllCommands
  <2>2. c.id \in Ids
    BY <2>1, MembersOfTail DEF PanelInv, CommandsHold, Sent
  <2> QED
    BY <1>1, <2>1, <2>2 DEF InstancesNext, EditorStep
<1>8. CASE ApplyWrites
  BY <1>1, <1>8 DEF ApplyWrites, InstancesNext, EditorStep
<1> QED
  BY <1>2, <1>3, <1>4, <1>5, <1>6, <1>7, <1>8 DEF PanelNext, WorkerStep

LEMMA SnapshotsStep == PanelInv /\ [PanelNext]_panelVars => SnapshotsHold'
<1> SUFFICES ASSUME PanelInv, [PanelNext]_panelVars PROVE SnapshotsHold'
  OBVIOUS
<1>1. /\ snapshots \in Seq(Members(snapshots))
      /\ \A s \in Members(snapshots) \cup {shown} : Faithful(s)
  BY DEF PanelInv, SnapshotsHold
<1>2. CASE UNCHANGED <<snapshots, shown>>
  BY <1>1, <1>2 DEF SnapshotsHold, Members, Faithful
<1>3. CASE LoadSnapshot
  <2>1. shown' = shown /\ snapshots' \in {snapshots, Append(snapshots, Snapshot)}
    BY <1>3 DEF LoadSnapshot, window
  <2>2. Faithful(Snapshot)
    BY ReadingsAreFaithful DEF PanelInv
  <2>3. /\ snapshots' \in Seq(Members(snapshots'))
        /\ Members(snapshots') \subseteq Members(snapshots) \cup {Snapshot}
    <3>1. CASE snapshots' = snapshots
      BY <1>1, <3>1
    <3>2. CASE snapshots' = Append(snapshots, Snapshot)
      BY <1>1, <3>2, MembersOfAppend
    <3> QED
      BY <2>1, <3>1, <3>2
  <2>4. Members(snapshots)' = Members(snapshots')
    BY DEF Members
  <2>5. \A s \in Members(snapshots') \cup {shown'} : Faithful(s)
    BY <1>1, <2>1, <2>2, <2>3
  <2> QED
    BY <2>3, <2>4, <2>5 DEF SnapshotsHold, Faithful
<1>4. CASE DrainSnapshots
  <2>1. snapshots # <<>> /\ shown' = snapshots[Len(snapshots)] /\ snapshots' = <<>>
    BY <1>4 DEF DrainSnapshots
  <2>2. Faithful(shown')
    BY <1>1, <2>1, MembersOfTail
  <2>3. snapshots' \in Seq(Members(snapshots')) /\ Members(snapshots') = {}
    BY <2>1 DEF Members
  <2> QED
    BY <2>2, <2>3 DEF SnapshotsHold, Faithful, Members
<1>5. CASE PanelNext /\ ~LoadSnapshot /\ ~DrainSnapshots
  BY <1>2, <1>5 DEF PanelNext, WorkerStep, WindowStep, CliStep, CatalogChanges, WorkerStops,
                    ApplyCreate, ApplyReads, ApplyRefuses, ApplyWrites, Taken, SelectInstance,
                    SelectInstallation, FieldEdited, Clicks, CreateClicked, InstanceClicked,
                    TryCommand, Close, window, surfaceVars
<1> QED
  BY <1>2, <1>3, <1>4, <1>5 DEF panelVars, surfaceVars

\* What is selected is in the form, whatever snapshots come between.
LEMMA FormStep == PanelInv /\ [PanelNext]_panelVars => FormOfSelection'
<1> SUFFICES ASSUME PanelInv, [PanelNext]_panelVars PROVE FormOfSelection'
  OBVIOUS
<1>1. /\ DOMAIN form = {"fields", "of", "config", "edited"}
      /\ FormHolds(form) /\ selection \in {NoSelection, form.of} /\ selection.id \in Ids \cup {0}
  BY DEF PanelInv, FormOfSelection
<1>2. CASE UNCHANGED <<form, selection>>
  BY <1>2 DEF PanelInv, FormOfSelection, FormHolds, PanelStored
<1>3. CASE DrainSnapshots
  <2>1. form' = form /\ selection' \in {selection, NoSelection} /\ NoSelection.id = 0
    BY <1>3 DEF DrainSnapshots, NoSelection
  <2> QED
    BY <2>1 DEF PanelInv, FormOfSelection, FormHolds, PanelStored
<1>4. ASSUME NEW id \in Ids, SelectInstance(id) PROVE FormOfSelection'
  <2>1. /\ form' = [fields |-> shown.forms[id], of |-> selection', config |-> shown.rows[id].config,
                    edited |-> FALSE]
        /\ selection'.id = id
    BY <1>4 DEF SelectInstance, NoSelection
  <2>2. PanelStored(shown.forms[id], shown.rows[id].config)
    BY DEF PanelInv, SnapshotsHold, Faithful
  <2>3. PanelStored(form'.fields, form'.config)
    BY <2>1, <2>2
  <2> QED
    BY <2>1, <2>3 DEF FormOfSelection, FormHolds, PanelStored
<1>5. ASSUME NEW v \in Versions, SelectInstallation(v) PROVE FormOfSelection'
  <2>1. /\ form' = [fields |-> FormFields(v, NoFields), of |-> selection', config |-> NoFields,
                    edited |-> FALSE]
        /\ selection'.id = 0
    BY <1>5 DEF SelectInstallation, NoSelection
  <2>2. PanelStored(form'.fields, form'.config)
    BY <2>1 DEF PanelStored
  <2> QED
    BY <2>1, <2>2 DEF FormOfSelection, FormHolds, PanelStored
<1>6. ASSUME NEW k \in Keys \cup {Root}, FieldEdited(k) PROVE FormOfSelection'
  <2>1. PICK field : form' = [form EXCEPT !.edited = TRUE, !.fields[k] = field]
    BY <1>6 DEF FieldEdited
  <2>2. form'.edited /\ form'.of = form.of /\ DOMAIN form' = DOMAIN form
    BY <1>1, <2>1
  <2>3. form' = [fields |-> form'.fields, of |-> form'.of, config |-> form'.config,
                 edited |-> form'.edited]
    BY <1>1, <2>1, <2>2
  <2>4. selection' = selection
    BY <1>6 DEF FieldEdited
  <2> QED
    BY <1>1, <2>2, <2>3, <2>4 DEF FormOfSelection, FormHolds
<1>7. CASE /\ PanelNext /\ ~DrainSnapshots
           /\ \A id \in Ids : ~SelectInstance(id)
           /\ \A v \in Versions : ~SelectInstallation(v)
           /\ \A k \in Keys \cup {Root} : ~FieldEdited(k)
  BY <1>2, <1>7 DEF PanelNext, WorkerStep, WindowStep, CliStep, CatalogChanges, LoadSnapshot,
                    WorkerStops, ApplyCreate, ApplyReads, ApplyRefuses, ApplyWrites, Taken, Clicks,
                    CreateClicked, InstanceClicked, TryCommand, Close, window, surfaceVars
<1> QED
  BY <1>2, <1>3, <1>4, <1>5, <1>6, <1>7 DEF panelVars, surfaceVars

\* A click takes form and selection together.
LEMMA ClicksSend ==
    ASSUME PanelInv, Clicks
    PROVE  \E c : Sent(c) /\ controls' \in {controls, Append(controls, c)}
<1>1. /\ FormHolds(form) /\ selection \in {NoSelection, form.of} /\ selection.id \in Ids \cup {0}
      /\ NoSelection.id = 0
  BY DEF PanelInv, FormOfSelection, NoSelection
<1>2. CASE CreateClicked
  <2>1. WithForm("create", selection).cmd = "create"
    BY DEF WithForm, Command
  <2>2. Sent(WithForm("create", selection))
    BY <2>1 DEF Sent
  <2> QED
    BY <1>2, <2>2 DEF CreateClicked, TryCommand
<1>3. ASSUME NEW cmd \in {"configure", "start", "stop", "delete"}, InstanceClicked(cmd)
      PROVE  \E c : Sent(c) /\ controls' \in {controls, Append(controls, c)}
  <2>1. selection.id \in Ids /\ selection = form.of
    BY <1>1, <1>3 DEF InstanceClicked
  <2>2. CASE cmd = "configure"
    <3>1. /\ WithForm(cmd, selection).cmd = "configure" /\ WithForm(cmd, selection).id = selection.id
          /\ WithForm(cmd, selection).form = form
      BY <2>2 DEF WithForm, Command
    <3>2. Sent(WithForm(cmd, selection))
      BY <1>1, <2>1, <3>1 DEF Sent
    <3> QED
      BY <1>3, <2>2, <3>2 DEF InstanceClicked, TryCommand
  <2>3. CASE cmd # "configure"
    <3>1. Command(cmd, selection).cmd = cmd /\ Command(cmd, selection).id = selection.id
      BY DEF Command
    <3>2. Sent(Command(cmd, selection))
      BY <2>1, <2>3, <3>1 DEF Sent
    <3> QED
      BY <1>3, <2>3, <3>2 DEF InstanceClicked, TryCommand
  <2> QED
    BY <2>2, <2>3
<1> QED
  BY <1>2, <1>3 DEF Clicks

LEMMA CommandsStep == PanelInv /\ [PanelNext]_panelVars => CommandsHold'
<1> SUFFICES ASSUME PanelInv, [PanelNext]_panelVars PROVE CommandsHold'
  OBVIOUS
<1>1. controls \in Seq(Members(controls)) /\ \A c \in Members(controls) : Sent(c)
  BY DEF PanelInv, CommandsHold
<1>2. CASE controls' = controls
  BY <1>1, <1>2 DEF CommandsHold, Members, Sent, FormHolds, PanelStored
<1>3. ASSUME NEW c, Sent(c), controls' = Append(controls, c) PROVE CommandsHold'
  <2>1. /\ controls' \in Seq(Members(controls'))
        /\ Members(controls') \subseteq Members(controls) \cup {c}
    BY <1>1, <1>3, MembersOfAppend
  <2>2. \A d \in Members(controls') : Sent(d)
    BY <1>1, <1>3, <2>1
  <2> QED
    BY <2>1, <2>2 DEF CommandsHold, Members, Sent, FormHolds, PanelStored
<1>4. CASE controls # <<>> /\ controls' = Tail(controls)
  <2>1. /\ controls' \in Seq(Members(controls'))
        /\ Members(controls') \subseteq Members(controls)
    BY <1>1, <1>4, MembersOfTail
  <2>2. \A d \in Members(controls') : Sent(d)
    BY <1>1, <2>1
  <2> QED
    BY <2>1, <2>2 DEF CommandsHold, Members, Sent, FormHolds, PanelStored
<1>5. CASE Clicks
  BY <1>2, <1>3, <1>5, ClicksSend
<1>6. CASE Close
  <2>1. Command("Stop", NoSelection).cmd = "Stop"
    BY DEF Command
  <2>2. Sent(Command("Stop", NoSelection))
    BY <2>1 DEF Sent, AllCommands
  <2> QED
    BY <1>2, <1>3, <1>6, <2>2 DEF Close
<1>7. CASE ApplyCreate \/ ApplyReads \/ ApplyRefuses
  BY <1>4, <1>7 DEF ApplyCreate, ApplyReads, ApplyRefuses, Taken
<1>8. CASE PanelNext /\ ~Clicks /\ ~Close /\ ~(ApplyCreate \/ ApplyReads \/ ApplyRefuses)
  BY <1>2, <1>8 DEF PanelNext, WorkerStep, WindowStep, CliStep, CatalogChanges, LoadSnapshot,
                    WorkerStops, ApplyWrites, DrainSnapshots, SelectInstance, SelectInstallation,
                    FieldEdited, window, surfaceVars
<1> QED
  BY <1>2, <1>5, <1>6, <1>7, <1>8 DEF panelVars, surfaceVars

LEMMA AppliesStep == PanelInv /\ [PanelNext]_panelVars => AppliesForm'
<1> SUFFICES ASSUME PanelInv, [PanelNext]_panelVars PROVE AppliesForm'
  OBVIOUS
<1>1. /\ AppliesForm /\ Panel \in Editors /\ edit \in [Editors -> Edit \cup {None}]
      /\ controls # <<>> => Sent(Head(controls))
  BY MembersOfTail, ControlPanelAssumption DEF PanelInv, CommandsHold, InstancesTypeOK
<1>2. CASE applying' = applying /\ edit'[Panel] = edit[Panel]
  BY <1>1, <1>2 DEF AppliesForm, Sent, FormHolds, PanelStored
<1>3. CASE edit' = [edit EXCEPT ![Panel] = None] /\ applying' = None
  BY <1>1, <1>3 DEF AppliesForm
<1>4. CASE ApplyReads
  <2> DEFINE c == Head(controls)
  <2>1. /\ controls # <<>> /\ applying' = c /\ Read(Panel, c.cmd, c.id)
        /\ c.cmd = "configure" => edit'[Panel].config = ConfigFromFields(c.form.fields)
    BY <1>4 DEF ApplyReads, Taken
  <2>2. edit'[Panel].cmd = c.cmd
    BY <1>1, <2>1 DEF Read
  <2>3. Sent(applying') /\ applying' = Head(controls)
    BY <1>1, <2>1
  <2> HIDE DEF c
  <2> QED
    BY <2>1, <2>2, <2>3 DEF AppliesForm, Sent, FormHolds, PanelStored
<1>5. CASE ApplyWrites
  BY <1>3, <1>5 DEF ApplyWrites, Write
<1>6. ASSUME NEW e \in Editors \ {Panel}, CliStep(e) PROVE AppliesForm'
  <2>1. applying' = applying /\ edit'[Panel] = edit[Panel]
    BY <1>1, <1>6 DEF CliStep, EditorStep, Create, Read, Write, surfaceVars
  <2> QED
    BY <1>2, <2>1
<1>7. CASE PanelNext /\ ~ApplyReads /\ ~ApplyWrites /\ \A e \in Editors \ {Panel} : ~CliStep(e)
  BY <1>2, <1>7 DEF PanelNext, WorkerStep, WindowStep, CatalogChanges, LoadSnapshot, WorkerStops,
                    ApplyCreate, Create, ApplyRefuses, Taken, DrainSnapshots, SelectInstance,
                    SelectInstallation, FieldEdited, Clicks, CreateClicked, InstanceClicked,
                    TryCommand, Close, Tick, SupervisorStarts, window, surfaceVars, instanceVars
<1> QED
  BY <1>2, <1>4, <1>5, <1>6, <1>7 DEF panelVars, surfaceVars, instanceVars

LEMMA PanelInvariant == PanelSpec => []PanelInv
<1>1. PanelInit => PanelInv
  <2> SUFFICES ASSUME PanelInit PROVE PanelInv
    OBVIOUS
  <2>1. InstancesTypeOK
    BY InitTyped DEF PanelInit
  <2>2. SnapshotsHold
    <3>1. Faithful(Blank)
      BY DEF Faithful, Blank, PanelStored
    <3>2. snapshots \in {<<>>, <<Blank>>} /\ shown = Blank
      BY DEF PanelInit, PanelOpens
    <3>3. /\ Members(snapshots) \subseteq {Blank}
          /\ snapshots \in Seq(Members(snapshots))
      <4>1. ASSUME NEW x PROVE <<x>> \in Seq({x}) /\ Members(<<x>>) \subseteq {x}
        BY DEF Members
      <4>2. ASSUME NEW x PROVE <<>> \in Seq({x}) /\ Members(<<>>) \subseteq {x}
        BY DEF Members
      <4>3. snapshots \in Seq({Blank}) /\ Members(snapshots) \subseteq {Blank}
        <5>1. CASE snapshots = <<>>
          BY <4>2, <5>1
        <5>2. CASE snapshots = <<Blank>>
          BY <4>1, <5>2
        <5> QED
          BY <3>2, <5>1, <5>2
      <4> QED
        BY <4>3, SeqOfMembers
    <3> QED
      BY <3>1, <3>2, <3>3 DEF SnapshotsHold
  <2>3. FormOfSelection
    <3>1. form = NoForm /\ selection = NoSelection /\ NoSelection.id = 0
      BY DEF PanelInit, NoSelection
    <3> QED
      BY <3>1 DEF FormOfSelection, FormHolds, PanelStored, NoForm
  <2>4. CommandsHold
    <3>1. controls = <<>> /\ Members(<<>>) = {}
      BY DEF PanelInit, Members
    <3> QED
      BY <3>1 DEF CommandsHold
  <2>5. AppliesForm
    BY ControlPanelAssumption DEF PanelInit, InstancesInit, AppliesForm
  <2> QED
    BY <2>1, <2>2, <2>3, <2>4, <2>5 DEF PanelInv
<1>2. PanelInv /\ [PanelNext]_panelVars => InstancesTypeOK'
  BY PanelDrivesStore, NextTyped DEF PanelInv
<1>3. PanelInv /\ [PanelNext]_panelVars => PanelInv'
  BY <1>2, SnapshotsStep, FormStep, CommandsStep, AppliesStep DEF PanelInv
<1> QED
  BY <1>1, <1>3, PTL DEF PanelSpec

\* A configuration is saved to the instance it was filled in for, whatever snapshots and
\* selections came between and however late the worker is (instance_control.rs on_save_config).
THEOREM SavesGoHome == PanelSpec => []SavesOwnForm
<1>1. PanelInv => SavesOwnForm
  BY DEF PanelInv, CommandsHold, AppliesForm, SavesOwnForm, Sent, Members
<1> QED
  BY <1>1, PanelInvariant, PTL

\* Saving an unedited form keeps every value of the configuration it showed, up to the spelling
\* of numbers, for any schemas, configurations and numbers (form_fields, config_from_fields).
THEOREM SavesKeepValues == PanelSpec => []UneditedSaveKeeps
<1>1. ASSUME PanelInv, edit[Panel] # None, edit[Panel].cmd = "configure",
             ~applying.form.edited, applying.form.fields # NoFields
      PROVE  LET w == edit[Panel] c == applying.form.config f == applying.form.fields IN
             \A k \in DOMAIN c :
                 /\ k \in DOMAIN w.config
                 /\ w.config[k] = c[k] \/ (k \in DOMAIN f /\ Respelt(f[k].kind, c[k], w.config[k]))
  <2>1. /\ FormHolds(applying.form)
        /\ edit[Panel].config = ConfigFromFields(applying.form.fields)
    BY <1>1 DEF PanelInv, AppliesForm, Sent
  <2>2. PICK v \in Versions : applying.form.fields = FormFields(v, applying.form.config)
    BY <1>1, <2>1 DEF FormHolds, PanelStored
  <2> QED
    BY <1>1, <2>1, <2>2, ReadsBack
<1>2. PanelInv => UneditedSaveKeeps
  BY <1>1 DEF UneditedSaveKeeps
<1> QED
  BY <1>2, PanelInvariant, PTL

\* The panel, with a command line beside it, drives the store as it allows: the store's own
\* theorems hold of it (apply_command).
THEOREM PanelRespectsStore == PanelSpec => InstancesSpec
<1>1. PanelInit => InstancesInit
  BY DEF PanelInit
<1> QED
  BY <1>1, PanelDrivesStore, PanelInvariant, PTL DEF PanelSpec, InstancesSpec
=============================================================================
