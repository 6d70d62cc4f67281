------------------------------- MODULE Instances -------------------------------
(***************************************************************************)
(* The persistent plugin instances (InstanceStore of floatile-store) and   *)
(* the two programs that edit them: the control panel's worker             *)
(* (floatile-shell/instance_control.rs) and `floatile-cli instance`        *)
(* (floatile-cli/instance.rs).  An edit reads the record and checks it,    *)
(* then writes with one conditional UPDATE; other editors, and the         *)
(* supervisor of module Supervisor, write in between.                      *)
(***************************************************************************)
EXTENDS Naturals, FiniteSets

CONSTANTS
    MaxIds,     \* bound on instances ever created
    Editors,    \* control panels and command lines
    Commands,   \* the commands they run
    Configs,    \* instance configurations
    Versions,   \* installed versions of the plugin
    MaxTime,    \* bound on the clock, in seconds
    MaxGen,     \* the width of the generation column (2^63 - 1)
    MaxEdits,   \* bound on commands
    None        \* no record

AllCommands == {"create", "configure", "start", "stop", "delete", "rollback"}

ASSUME InstancesAssumption ==
    /\ MaxIds \in Nat /\ MaxTime \in Nat /\ MaxGen \in Nat /\ MaxEdits \in Nat
    /\ Commands \subseteq AllCommands

Ids     == 1..MaxIds
Desired == {"running", "stopped"}
Record  == [config : Configs, version : Versions, desired : Desired,
            gen : 0..MaxGen, updated : 0..MaxTime]

ASSUME NoneAssumption == None \notin Record

VARIABLES
    record,  \* plugin_instances
    nextId,  \* plugin_instance_id_allocator
    now,     \* the wall clock
    edit,    \* the command each editor is in the middle of, or None
    edits    \* commands begun

instanceVars == <<record, nextId, now, edit, edits>>

\* A command under way: the record it read and what it is about to write.
Edit == [cmd : Commands \ {"create"}, id : Ids, seen : Record, began : 0..MaxTime,
         config : Configs, version : Versions]

InstancesTypeOK ==
    /\ record \in [Ids -> Record \cup {None}]
    /\ nextId \in 1..(MaxIds + 1)
    /\ now \in 0..MaxTime
    /\ edit \in [Editors -> Edit \cup {None}]
    /\ edits \in 0..MaxEdits

InstancesInit ==
    /\ record = [id \in Ids |-> None]
    /\ nextId = 1
    /\ now = 0
    /\ edit = [e \in Editors |-> None]
    /\ edits = 0

Later(s, t) == IF s < t THEN t ELSE s
-----------------------------------------------------------------------------
\* The clock moves, in either direction.
Tick ==
    /\ now' \in (0..MaxTime) \ {now}
    /\ UNCHANGED <<record, nextId, edit, edits>>

\* InstanceStore::create; the control panel creates stopped instances only.
Create(e) ==
    /\ edit[e] = None /\ edits < MaxEdits /\ "create" \in Commands
    /\ nextId \in Ids
    /\ \E c \in Configs, v \in Versions, d \in Desired :
          record' = [record EXCEPT ![nextId] =
             [config |-> c, version |-> v, desired |-> d, gen |-> 0, updated |-> now]]
    /\ nextId' = nextId + 1
    /\ edits' = edits + 1
    /\ UNCHANGED <<now, edit>>

\* The commands that require_stopped refuses on a running instance.
StoppedOnly == {"configure", "delete", "rollback"}

\* require_instance, require_stopped; then the installation is looked at.
Read(e, cmd, id) ==
    /\ edit[e] = None /\ edits < MaxEdits /\ cmd \in Commands \ {"create"}
    /\ record[id] # None
    /\ cmd \in StoppedOnly => record[id].desired = "stopped"
    /\ \E c \in Configs, v \in Versions :
          /\ cmd # "configure" => c = record[id].config
          /\ (v = record[id].version) <=> (cmd # "rollback")
          /\ edit' = [edit EXCEPT ![e] = [cmd |-> cmd, id |-> id, seen |-> record[id],
                                          began |-> now, config |-> c, version |-> v]]
    /\ edits' = edits + 1
    /\ UNCHANGED <<record, nextId, now>>

\* Mutant of Fresh: the time of the record is not looked at.
FreshAnyTime(id, t) == record[id] # None

\* WHERE instance_id = id AND updated_at <= t
Fresh(id, t) == record[id] # None /\ record[id].updated <= t

\* Mutant of SameInstallation: the instance may have been started.
SameVersionOnly(w) == record[w.id].version = w.seen.version

\* ... AND installation_version = seen AND desired_state = 'stopped'
SameInstallation(w) ==
    record[w.id].version = w.seen.version /\ record[w.id].desired = "stopped"

\* The record an UPDATE leaves, stamped t.
Written(w, t) ==
    LET r == [record[w.id] EXCEPT !.updated = t] IN
    CASE w.cmd = "configure" -> [r EXCEPT !.config = w.config]
      [] w.cmd = "rollback"  -> [r EXCEPT !.version = w.version]
      [] w.cmd = "start"     -> [r EXCEPT !.desired = "running"]
      [] w.cmd = "stop"      -> [r EXCEPT !.desired = "stopped"]

\* The conditional write; a command that loses reports ConcurrentUpdate.  The
\* command line read the clock when it began, the control panel reads it now.
\* Only a rollback looks again whether the instance is stopped.
Write(e) ==
    /\ edit[e] # None
    /\ LET w == edit[e] IN
       \E clock \in {w.began, now} :
          LET t == Later(clock, w.seen.updated) IN
          record' = IF w.cmd = "delete"
                       THEN [record EXCEPT ![w.id] = None]
                    ELSE IF Fresh(w.id, t) /\ (w.cmd = "rollback" => SameInstallation(w))
                       THEN [record EXCEPT ![w.id] = Written(w, t)]
                    ELSE record
    /\ edit' = [edit EXCEPT ![e] = None]
    /\ UNCHANGED <<nextId, now, edits>>

EditorStep(e) ==
    \/ Create(e)
    \/ \E cmd \in Commands, id \in Ids : Read(e, cmd, id)
    \/ Write(e)

-----------------------------------------------------------------------------
\* advance_generation, by the supervisor before each start.
CanAdvance(id, t) == Fresh(id, t) /\ record[id].gen < MaxGen

Advanced(id, t) == [record[id] EXCEPT !.gen = @ + 1, !.updated = t]

AdvanceGeneration(id, t) ==
    /\ CanAdvance(id, t)
    /\ record' = [record EXCEPT ![id] = Advanced(id, t)]

\* A start by a supervisor that read the clock and the record some time ago.
SupervisorStarts ==
    /\ \E id \in Ids, t \in 0..MaxTime : AdvanceGeneration(id, t)
    /\ UNCHANGED <<nextId, now, edit, edits>>

InstancesNext == Tick \/ SupervisorStarts \/ \E e \in Editors : EditorStep(e)

InstancesSpec == InstancesInit /\ [][InstancesNext]_instanceVars
-----------------------------------------------------------------------------
(***************************************************************************)
(* What the store promises to several editors.                             *)
(***************************************************************************)
\* A deleted instance never comes back, under the same identity, as another.
DeletedForGood ==
    [][\A id \in Ids : id < nextId /\ record[id] = None => record'[id] = None]_instanceVars

\* The record is written, not created or deleted.
Rewritten(id) == record[id] # None /\ record'[id] # None

\* In this step an editor's command, one of cmds, on the instance is over.
Completes(id, cmds) ==
    \E e \in Editors : /\ edit[e] # None /\ edit'[e] = None
                       /\ edit[e].id = id /\ edit[e].cmd \in cmds

\* Nobody's update is taken back by a write that read the record before it: a
\* write that carries an older time loses, whatever the wall clock did between
\* the two, and one that does not lose leaves every column alone that its
\* command is not about.  (Of two commands about the same column in the same
\* second, the last one stays.)
UpdatesAreKept ==
    [][\A id \in Ids : Rewritten(id) =>
          /\ record'[id].updated >= record[id].updated
          /\ record'[id].gen >= record[id].gen
          /\ record'[id].config # record[id].config => Completes(id, {"configure"})
          /\ record'[id].version # record[id].version => Completes(id, {"rollback"})
          /\ record'[id].desired # record[id].desired => Completes(id, {"start", "stop"})]_instanceVars

\* An instance changes its installation only while it is stopped, and only from
\* the installation for which the rollback was planned.
RollbackAsPlanned ==
    [][\A id \in Ids :
          (Rewritten(id) /\ record'[id].version # record[id].version) =>
              /\ record[id].desired = "stopped"
              /\ \E e \in Editors : /\ edit[e] # None
                                    /\ edit[e].id = id
                                    /\ edit[e].seen.version = record[id].version]_instanceVars
=============================================================================
