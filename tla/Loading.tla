-------------------------------- MODULE Loading --------------------------------
(***************************************************************************)
(* From an installed package to a widget that may run: installing, the     *)
(* instances bound to installations (module Instances), and the host that  *)
(* lists the instances it shall run, advances their generations and loads  *)
(* each one (floatile-shell plugin_manager.rs), while the command line     *)
(* edits records and trust, and directories are damaged or removed.        *)
(***************************************************************************)
EXTENDS Instances, Packages, FiniteSetsExt

CONSTANTS
    Empty,       \* the empty configuration
    Keys,        \* signing keys of the one publisher
    MaxChanges,  \* changes of directories and of trust (a bound on inputs)
    MaxStarts    \* starts of the host (a bound)

\* What a directory may hold after it was staged, and what may run of it.
InstalledFiles == {Metadata} \cup UNION {BundlePaths(b) : b \in Bundles}
InstalledInstallation == [bundle : Valid, trust : {"trusted", "unsigned"},
                          altered : SUBSET InstalledFiles, readable : BOOLEAN]
RunnableInstance == [row : Record, installation : InstalledInstallation]

ASSUME LoadingAssumption ==
    /\ Empty \in Configs
    /\ MaxChanges \in Nat /\ MaxStarts \in Nat
    /\ Versions \subseteq [number : Nat, digest : Bundles]
    /\ None \notin RunnableInstance

Numbers == {v.number : v \in Versions}

VARIABLES
    disk,       \* the directory of each version, or None
    publisher,  \* what the trust store says of the publisher
    changes,    \* changes of the two so far
    phase,      \* the host: "off", "planning" or "done"
    starts,     \* how often it has started
    stamp,      \* the time it has taken for this start
    listed,     \* records it found that shall run, or None
    todo,       \* those it has yet to deal with
    step,       \* what comes next for the first of them
    taken,      \* its record, read again
    loaded,     \* its installation, read into memory
    ready,      \* units that may run
    failed,     \* instances that may not
    calm,       \* history: could run when listed, and nothing has touched them since
    vouched,    \* history: packages whose signature has been good during this start
    issued      \* history: the last generation a unit was made with

catalogVars == <<disk, publisher, changes>>
planVars == <<phase, starts, stamp, listed, todo, step, taken, loaded, ready, failed>>
history  == <<calm, vouched, issued>>
vars == <<instanceVars, catalogVars, planVars, history>>

Nobody == [id \in Ids |-> None]

-----------------------------------------------------------------------------
(* Reading the catalogue.                                                  *)

Sound(n) == disk[n] # None /\ LoadFromDir(disk[n])

\* Mutant of Refers: whatever is installed under the version is taken.
RefersByVersion(ref) == Sound(ref.number)

\* load_reference: never another content under the same version.
Refers(ref) == Sound(ref.number) /\ disk[ref.number].bundle = ref.digest

Present == {n \in Numbers : disk[n] # None}

\* load_highest of the trusted installer.
HighestReadable == Present # {} => Sound(Max(Present))

Accepts(ref, config) == AcceptsConfig(ref.digest, config, Empty)

Trusted(d) == d.trust = "trusted" => Verifies(d.bundle, publisher)

Startable(id) ==
    /\ record[id] # None /\ record[id].gen < MaxGen
    /\ Refers(record[id].version)
    /\ Accepts(record[id].version, record[id].config)
    /\ Trusted(disk[record[id].version.number])

\* A publisher whose keys were entered before.
Provisioned == [known |-> TRUE, active |-> TRUE, keys |-> Keys, revoked |-> {}]

Init ==
    /\ InstancesInit
    /\ disk = [n \in Numbers |-> None] /\ changes = 0
    /\ publisher \in {UnknownPublisher, Provisioned}
    /\ phase = "off" /\ starts = 0 /\ stamp = 0
    /\ listed = Nobody /\ todo = {} /\ step = "advance"
    /\ taken = None /\ loaded = None /\ ready = Nobody /\ failed = {}
    /\ calm = {} /\ vouched = {} /\ issued = [id \in Ids |-> 0]

-----------------------------------------------------------------------------
(* Directories and trust.                                                  *)

\* What a change leaves of the histories.
Disturb ==
    /\ calm' = {id \in calm : Startable(id)'}
    /\ vouched' = IF phase = "off" THEN {} ELSE vouched \cup {b \in Bundles : Verifies(b, publisher')}
    /\ UNCHANGED issued

Change ==
    /\ changes < MaxChanges
    /\ changes' = changes + 1
    /\ UNCHANGED <<instanceVars, planVars>>

\* install_package and install_trusted_package, seen from outside: modules
\* TrustedInstall and Permissions say how, and what else they compare.
Install(b, trust) ==
    LET n == VersionOf(b) IN
    /\ b \in Valid
    /\ disk[n] = None
    /\ Stageable(b)
    /\ trust = "trusted" => Verifies(b, publisher) /\ HighestReadable
    /\ disk' = [disk EXCEPT ![n] = Staged(b, trust)]
    /\ UNCHANGED <<instanceVars, publisher, changes, planVars>>
    /\ Disturb

\* A file of an installation is not what it was.
Damage(n, path) ==
    /\ Change
    /\ disk[n] # None /\ path \in BundlePaths(disk[n].bundle) \cup {Metadata}
    /\ LET d == disk[n] IN
       disk' = [disk EXCEPT ![n] = IF path = Metadata THEN [d EXCEPT !.readable = FALSE]
                                   ELSE [d EXCEPT !.altered = d.altered \cup {path}]]
    /\ UNCHANGED publisher
    /\ Disturb

\* A directory is removed by hand.
RemoveDirectory(n) ==
    /\ Change
    /\ disk[n] # None
    /\ disk' = [disk EXCEPT ![n] = None]
    /\ UNCHANGED publisher
    /\ Disturb

\* upsert_key makes the publisher known; it does not reactivate it.
SetKey(k, state) ==
    /\ Change
    /\ publisher' = [known |-> TRUE, active |-> publisher.known => publisher.active,
                     keys |-> IF state = "active" THEN publisher.keys \cup {k}
                              ELSE publisher.keys \ {k},
                     revoked |-> IF state = "active" THEN publisher.revoked \ {k}
                                 ELSE publisher.revoked \cup {k}]
    /\ UNCHANGED disk
    /\ Disturb

SetPublisher ==
    /\ Change
    /\ publisher.known
    /\ publisher' = [publisher EXCEPT !.active = ~@]
    /\ UNCHANGED disk
    /\ Disturb

-----------------------------------------------------------------------------
(* The command line, with what it looks up in the catalogue.               *)

CreateChecked(e) ==
    /\ Create(e)
    /\ LET r == record'[nextId] IN Refers(r.version) /\ Accepts(r.version, r.config)

ReadChecked(e, cmd, id) ==
    /\ Read(e, cmd, id)
    /\ LET w == edit'[e] IN
       /\ cmd = "configure" => Refers(w.seen.version) /\ Accepts(w.seen.version, w.config)
       /\ cmd = "rollback" =>
            /\ Refers(w.seen.version) /\ Refers(w.version)
            /\ w.version.number < w.seen.version.number
            /\ Accepts(w.version, w.seen.config)
            /\ Verifies(w.version.digest, publisher)

CommandLine(e) ==
    /\ \/ CreateChecked(e)
       \/ \E cmd \in Commands, id \in Ids : ReadChecked(e, cmd, id)
       \/ Write(e)
    /\ calm' = {id \in calm : record'[id] = record[id]}
    /\ UNCHANGED <<catalogVars, planVars, vouched, issued>>

-----------------------------------------------------------------------------
(* plan_running_instances.                                                 *)

Running == {id \in Ids : record[id] # None /\ record[id].desired = "running"}

HostStarts ==
    /\ phase = "off" /\ starts < MaxStarts
    /\ phase' = "planning" /\ starts' = starts + 1 /\ stamp' = now
    /\ listed' = [id \in Ids |-> IF id \in Running THEN record[id] ELSE None]
    /\ todo' = Running
    /\ calm' = {id \in Running : Startable(id)}
    /\ vouched' = {b \in Bundles : Verifies(b, publisher)}
    /\ UNCHANGED <<instanceVars, catalogVars, step, taken, loaded, ready, failed, issued>>

Current == Min(todo)
At(s) == phase = "planning" /\ todo # {} /\ step = s

\* Mutant of Fail: the instances after one that fails are given up.
FailAll ==
    /\ failed' = failed \cup {Current} /\ todo' = {}
    /\ step' = "advance" /\ taken' = None /\ loaded' = None
    /\ UNCHANGED ready

Fail ==
    /\ failed' = failed \cup {Current} /\ todo' = todo \ {Current}
    /\ step' = "advance" /\ taken' = None /\ loaded' = None
    /\ UNCHANGED ready

Proceed(s) ==
    /\ step' = s
    /\ UNCHANGED <<todo, ready, failed>>

PlanStep == UNCHANGED <<nextId, now, edit, edits, catalogVars, phase, starts, stamp, listed>>

\* The time given is not before the one the record was listed with.
Advance ==
    /\ At("advance")
    /\ LET t == Later(stamp, listed[Current].updated) IN
       IF CanAdvance(Current, t)
       THEN AdvanceGeneration(Current, t) /\ Proceed("get") /\ UNCHANGED <<taken, loaded>>
       ELSE Fail /\ UNCHANGED record
    /\ PlanStep /\ UNCHANGED history

\* Mutant of Get: the record that was listed is used.
GetListed ==
    /\ At("get")
    /\ taken' = listed[Current] /\ Proceed("load") /\ UNCHANGED loaded
    /\ PlanStep /\ UNCHANGED <<record, history>>

Get ==
    /\ At("get")
    /\ IF record[Current] = None THEN Fail
       ELSE taken' = record[Current] /\ Proceed("load") /\ UNCHANGED loaded
    /\ PlanStep /\ UNCHANGED <<record, history>>

\* load_reference and validate_config: the files are in memory from here on.
Load ==
    /\ At("load")
    /\ IF Refers(taken.version) /\ Accepts(taken.version, taken.config)
       THEN loaded' = disk[taken.version.number] /\ Proceed("trust") /\ UNCHANGED taken
       ELSE Fail
    /\ PlanStep /\ UNCHANGED <<record, history>>

\* verify_runtime_trust and installed_plugin.
Verify ==
    /\ At("trust")
    /\ IF Trusted(loaded) /\ HasEntrypoints(loaded.bundle)
       THEN /\ ready' = [ready EXCEPT ![Current] = [row |-> taken, installation |-> loaded]]
            /\ issued' = [issued EXCEPT ![Current] = taken.gen]
            /\ todo' = todo \ {Current}
            /\ step' = "advance" /\ taken' = None /\ loaded' = None
            /\ UNCHANGED failed
       ELSE Fail /\ UNCHANGED issued
    /\ PlanStep /\ UNCHANGED <<record, calm, vouched>>

Planned ==
    /\ phase = "planning" /\ todo = {}
    /\ phase' = "done"
    /\ UNCHANGED <<instanceVars, catalogVars, starts, stamp, listed, todo, step, taken, loaded,
                   ready, failed, history>>

\* The wall clock; the host's time of this start does not follow it.
ClockMoves == Tick /\ UNCHANGED <<catalogVars, planVars, history>>

\* The host exits or dies, at any time, to start again; its units go with it.
HostStops ==
    /\ phase # "off" /\ starts < MaxStarts
    /\ phase' = "off"
    /\ listed' = Nobody /\ todo' = {} /\ step' = "advance"
    /\ taken' = None /\ loaded' = None /\ ready' = Nobody /\ failed' = {}
    /\ calm' = {} /\ vouched' = {} /\ stamp' = 0
    /\ UNCHANGED <<instanceVars, catalogVars, starts, issued>>

Next ==
    \/ \E b \in Bundles, trust \in {"trusted", "unsigned"} : Install(b, trust)
    \/ \E n \in Numbers :
        \/ RemoveDirectory(n)
        \/ \E p \in {Manifest, Metadata} : Damage(n, p)
    \/ \E k \in Keys, s \in {"active", "revoked"} : SetKey(k, s)
    \/ SetPublisher
    \/ \E e \in Editors : CommandLine(e)
    \/ ClockMoves
    \/ HostStarts \/ Advance \/ Get \/ Load \/ Verify \/ Planned \/ HostStops

Spec == Init /\ [][Next]_vars

-----------------------------------------------------------------------------
(* Properties.                                                             *)

\* What the installer accepted, the readers accept too, with its entry
\* points and the schema it declares, and list it; unless it brought an
\* install.json of its own or has a name without a dot (package.rs
\* validate_package against installation.rs).
AcceptedLoads ==
    \A n \in Present :
        LET d == disk[n] b == d.bundle IN
        d = Staged(b, d.trust) /\ Metadata \notin BundlePaths(b) =>
            /\ LoadFromDir(d)
            /\ HasEntrypoints(b)
            /\ Len(BundleManifest(b).id) > 1 => ListedId(BundleManifest(b).id)
            /\ BundleManifest(b).config # Undeclared => BundleManifest(b).config \in BundlePaths(b)

\* Whatever happens to records, directories and trust while the host plans,
\* a unit runs the content its record refers to, unaltered, with a
\* configuration that content's schema accepts and, if it was installed as
\* trusted, under a signature that was good during this start
\* (plugin_manager.rs load_runnable_instance_with_trust).
ReadyIsSound ==
    \A id \in Ids : ready[id] # None =>
        LET d == ready[id].installation row == ready[id].row IN
        /\ d.bundle = row.version.digest /\ LoadFromDir(d)
        /\ Accepts(row.version, row.config)
        /\ d.trust = "trusted" => d.bundle \in vouched

\* One instance that cannot run does not keep another from running: when the
\* plan is done every listed instance is ready or failed, and ready if it
\* could run and nothing has touched it (plugin_manager.rs RuntimeInstancePlan).
PlanIsolates ==
    phase = "done" =>
        /\ \A id \in Ids : listed[id] # None => ((ready[id] # None) # (id \in failed))
        /\ \A id \in calm : ready[id] # None

\* A unit never has the generation of one an earlier start of the host made,
\* so that what is late for that one is not taken for this one
\* (plugin_manager.rs plan_running_instances).
GenerationsGrow ==
    [][\A id \in Ids : ready[id] = None /\ ready'[id] # None =>
            ready'[id].row.gen > issued[id]]_vars
=============================================================================
