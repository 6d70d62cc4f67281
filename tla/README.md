# Floatile in TLA+

Floatile is a desktop host for small widgets. A widget is a WebAssembly component plus a declarative
UI document. Its author's project is built into a package; the host verifies and installs it, keeps
*instances* of it in a SQLite database, runs each instance in an actor of its own behind a permission
broker, and shows its State in a native window. This directory models that path from one end to the
other, and everything on it where several threads, tasks, processes or crashes meet. TLC checks every
model on small instances; TLAPS proves what matters most of eight of them for every value of the
constants.

Paths below are relative to `src/crates/`.

## 1. The system

| Component | State it keeps | Operations | What is hard, and what makes it correct |
|---|---|---|---|
| Operation registry (`floatile-services/src/operation.rs`) | active table, job and completion channels, permits, retained results | submit, cancel, cancel all, take, discard; dispatcher and worker tasks | Cancellation races work and deadline; completion, result and table are three places. Exactly one terminal per operation; a result exactly for the successes the guest can still learn of; permits conserved. |
| Broker and storage (`floatile-services/src/broker.rs`, `storage.rs`) | grants, the services, rate windows, stored values | one method per host import | Re-authorises at submit, cancel and take; the quota holds over replacing and deleting. |
| Widget actor (`floatile-runtime/src/lib.rs`) | command queue, WASM store | start, event, timer, completion, shutdown; the completion relay | Every caller is answered though the actor may die at any await; relay and timers never wait for it. |
| Host state (`floatile-runtime/src/state.rs`) | State, sequence number, rate window | update-state and the other imports | Commit and delivery to the UI are two effects of one call. |
| Timer service (`floatile-services/src/timer.rs`) | active table, flags, window | schedule, cancel, complete; a task per timer | A task cannot be stopped, it only looks at its flag. |
| Runtime session (`floatile-shell/src/runtime_ui.rs`) | window, event bridge, worker thread, lifecycle channel | prepare the document, spawn, forward events, project State, drop | Two bounded queues in opposite directions, no waiting on the UI thread, one truthful end. |
| UI schema and renderer (`floatile-ui-schema`, `floatile-renderer`) | none | validate, patch; translate a document, its slots and callbacks | Three programs (validation, renderer, projection) decide on types, each by rules of its own; where they differ a property silently keeps its old value. |
| Supervisor (`floatile-shell/src/instance_supervisor.rs`) | fingerprints, sessions, desired generations, observed registry | list, plan, prepare, send; apply, start, poll, retry, drop | The database, the worker's knowledge and the UI thread's sessions are three copies brought together by messages. |
| Plugin manager and installation reader (`floatile-shell/src/plugin_manager.rs`, `floatile-store/src/installation.rs`) | none of their own | plan the running instances, load each with its trust; read a directory back | Record, generation and directory are read one after another while others write them; one damaged installation must not stop the others. |
| Instance store and commands (`floatile-store/src/lib.rs`, `floatile-cli/src/instance.rs`) | instance rows | create, configure, start, stop, delete, rollback, advance generation | Editors in several processes check what they read and write later. |
| Control panel (`floatile-shell/src/instance_control.rs`) | snapshot, form, selection, command and snapshot channels | click, type, save; apply commands, take snapshots | Acts on a snapshot that is always old; a configuration becomes a form of texts and is read back from it. |
| Packages (`floatile-cli/src/project.rs`, `build.rs`, `package.rs`, `install.rs`) | none | build, validate, stage | What the validator accepts, the installer must be able to stage and the reader to load. |
| Permissions (`floatile-core/src/capability.rs`, `manifest.rs`, `distribution.rs`) | none | parse, validate, compare, narrow, decide | Comparison, narrowing and decision are three functions; what one takes for narrower must be narrower for the others. |
| Trusted installation (`floatile-cli/src/install.rs`, `floatile-store/src/trust.rs`) | staging and final directories, journal, keys, publishers, high-water mark | install, recover, accept, revoke | A file system and a database are changed in turn by processes that may be killed. |
| Connections and HTTPS (`floatile-core/src/connection.rs`, `floatile-services/src/http.rs`, `credential.rs`) | connections, grants, credentials, response cache | grant, rotate, revoke; request, retry, stale answer | A running session holds a copy of what may be revoked. |
| Migrations (`floatile-store/src/lib.rs`) | schema version and tables | open, migrate | Interrupted between two versions; two processes at once. |
| Desktop (`floatile-shell/src/main.rs`, `floatile-core/src/layout.rs`, `floatile-platform`) | window, modes, saved layout, hotkey, monitors | window events, tray, hotkey, mode switch, save and restore | In show mode clicks pass through the window; the host's own moves come back as the same events as a user's. |
| Host threads (`floatile-shell/src/main.rs`) | the clock's runtime, the built-in timer, the sampler | spawn, project, stop within a budget | A thread that fails after it was spawned is missed by nobody. |
| SDK (`floatile-sdk`, `floatile-sdk-macros`) | | derive State, build views | What it builds must be what validation takes. |
| Log, metrics, theme, clock, audit services; reference plugins | counters, snapshots | | One actor, one lock; nothing spans two steps. |

How they interact. The command line and the control panel write instance rows; the supervisor's
worker lists them every so often, plans, advances the generation of what it starts, prepares it (the
plugin manager reads the installation and its trust) and sends a batch to the UI thread. The UI thread
opens a session per started instance. A session owns a worker thread, which owns a Tokio runtime, in
which the actor, the timer tasks and the tasks of the operation registry run. UI events go window ->
bridge -> worker -> actor queue -> guest; State goes guest -> update-state -> update channel -> worker ->
window; what becomes of the session goes worker -> lifecycle channel -> supervisor -> observed registry.
Installation shares only the disk and the database with the rest.

## 2. Modules

| Module | Models | Composed of |
|---|---|---|
| `OperationLifecycle` | abstract: what a guest is promised about one operation | |
| `Operations` | registry, dispatcher, workers, relay, and the actor as far as operations see it | implements `OperationLifecycle` |
| `SessionLifecycle` | abstract: what a session reports, against what its guest did | |
| `WidgetSession` | actor, timers, State, session worker, event bridge | implements `SessionLifecycle` |
| `UiState`, `UiSchema` | the state schema, paths and patches; the rules of document validation | |
| `Renderer` | which documents translate, and the slots of the result | extends `UiSchema` |
| `Documents` | a session's document from preparation to projection | extends `Renderer` |
| `UiTrees` | the functions that walk documents, schemas and values, which `UiState`, `UiSchema` and `Documents` take as parameters | extends `Documents` |
| `WidgetView` | the SDK's derived State and view builders, which write the documents of the run | |
| `Instances` | the instance rows and the editors that read, check and write them | |
| `Supervisor` | the supervisor's worker and its UI side | extends `Instances` |
| `ControlPanel` | the panel's window, form, worker and channels, with installations that break | extends `Instances` |
| `Packages` | building, validating, staging and reading back a package; trust in a publisher | |
| `Loading` | installed directories, commands that look into them, and the plan of the running instances | extends `Instances` and `Packages` |
| `Permissions` | a manifest's permissions from the project to the broker's decision, with the storage quota | |
| `TrustedInstall` | trusted and unsigned installers, recovery, trust administration, crashes | |
| `Connections` | connections, grants and vault; composition of a session's HTTPS service; its requests, cache and rate window | |
| `Migrations` | opening the database, in one or more processes, which may die | |
| `Desktop` | the host's window, modes, hotkey, monitors and saved layout | extends `Migrations` |
| `HostClock` | the clock's thread and what stands in for it, the sampler, shutdown | |
| `...Proofs` | theorems about the module named (`InstancesProofs`: `Instances`, `Supervisor` and `ControlPanel`; `WidgetSessionProofs`: also `Documents`) | |
| `MC...` | instances of the above for TLC | |

Definitions keep the names of the source where they have one. `PROJECT.json` maps each to its lines.
Operators introduced by a comment "Mutant of" (`...Unbounded`, `...Anyway`, `FailAll` and the like) are
plausible bugs; they are used by nothing, and exchanging one for the definition it belongs to makes TLC
refute the property it is listed with.

### Operations
One variable per place an operation can be in: `stage` says where its task stands (queued, spawned,
racing, publishing, sent, with the relay, in the actor's queue, told), next to the shared tables
`active`, `results`, the cancellation flag and its notification, the job and completion channels,
the permits, and the actor with its queue. An action is what a task does between two awaits or two
lock acquisitions, so that the check-notify-check-wait handshake of `Cancellation::cancelled`
(operation.rs:167-176) appears step by step, and so does the sequence *store result, leave the
table, wait for room, send*. Payloads are absent: only whether a result is held is kept.
Deadlines expire at any moment. History variable: `taken`.

### WidgetSession
`actor` is the command being served or the phase the actor is in; while it is in a guest call the
guest may make any host import, each a step. A timer's task goes asleep -> due -> sent or lost, and
reading the cancellation flag and queueing the event are two steps. `reply` is the oneshot of the one
command the session worker has outstanding. Operation completions appear only as rivals for the
queue. The audit of dropped events is left out. History variables: `accepted`, `acked`, `early`.

### UiState, UiSchema, Renderer, Documents, WidgetView
The pure part comes first. A value of State is a tagged record; a string is the number of its
characters or one of a few `Words` that the rules name, and byte limits compare a `Weight`. `UiState`
has the state schema, paths and RFC 7386 merging; `UiSchema` has the component
registry and one operator per rule of `validate.rs`; `Renderer` has the conditions under which
`render.rs` translates a document, and the slots (a path and the type declared for it). Documents nest, so
the functions that walk them are recursive. They are parameters of these modules (`Conforms`, `ShallowSchema`,
`Resolve`, `At`, `MergePatch`, `Weight`, `Walk`), of which the theorems use only that each is
one level (`ConformsLevel`, `ResolveLevel`, `AtLevel`) over itself; the `.cfg` gives them the recursive
operators of `UiTrees`, which have the names of the source. `Documents` sends one document through `prepare_runtime_ui`,
the Slint compiler (external; it refuses a property declared twice and a loop over a string), the
opening of the window and then any sequence of patches: `Submit` is `update-state` with its answers in the
code's order, `ProjectNext` sets each property whose slot projects. The documents of the run are built
by `WidgetView`, as an author would. History variable: `unsent`.

### Instances, Supervisor and ControlPanel
A row is a record with its desired state, configuration, installation and `updated_at`; an editor
reads (`Read`), and later writes (`Write`) under the SQL condition of its command. Time is whole
seconds and may step back. `Supervisor` adds the worker (list, plan, advance, fetch, send, wait),
the UI thread (apply a batch, finish a start, poll lifecycle) and the two bounded channels. The panel's
retry button may act on an old snapshot, so a retry may come at any time. `MaxGen` stands for the width of
the generation column. History variables: `hasty` (instances retried while they ran or were starting)
and `planned` in an action.

`ControlPanel` has the window (snapshot shown, selection, form), both
bounded channels, and the worker, whose reads and writes are those of the editor `Panel` of
`Instances`; another editor is the command line. A form is a function from keys to fields, the text
of a field its value and whether it is written bare; `FormFields` and `ConfigFromFields` are the conversions
there and back, with the whole-configuration field a composed schema gets. JSON values have a type and a
number, and each kind of field is parsed as the code does (`Readable`, `ValueOf`): an integer field takes what
`i64` takes, a number field makes a double of every number, a string field takes its text whatever it is.
`Nearest` is the rounding of whole numbers above `MaxExact` (2^53). An installation may turn unreadable and be
repaired. In both modules the store may fail to open (`StoreOpened`, `PanelOpens`): the worker then ends at
once, after one empty batch or snapshot.

### Packages and Loading
A path is the sequence of its segments, an archive its size and its entries in order, the content of a
file a record of what its readers tell apart. `ValidatePackage` is the validator with its limits,
`Built` what `build.rs` makes of a project, `Staged` what the installer leaves on disk and
`LoadFromDir` what the reader takes. `Loading` keeps one directory per version, which may be damaged,
removed or replaced by other content of the same version, and a publisher whose keys and state
change. `plan_running_instances` appears step by step: list, then for each instance advance its
generation, read it again, load its installation, verify its trust. History variables: `calm`,
`vouched`, `issued`. The clock moves as in `Instances`.

### Permissions
Params are a kind, a scope and quotas; `KindOf` and `QuotasOf` are the registry. The model follows a
declaration from `floatile.toml` (`GeneratedPermissions`) through parsing, validation, the comparison of
two manifests at an upgrade or a rollback, the narrowing at the start of a session and the broker's
`Authorize`. `Powers(m)` is the set of the requests a host import can make that the broker of a session
of `m` allows. An origin is a text, compared as it is at validation; `OriginOf` is what the URL parser makes of
it, by which a request asks. `data` is what a session stored and `total` the running count the service keeps of
it. `consent` is a history variable: what the user was shown, or agreed to before. That an
install runs in steps is left to `TrustedInstall`.

### TrustedInstall
A process is a program counter through `recover_trusted_installs` and `install_trusted_package`;
`staging`, `final` and `content` are the disk, `journal`, `highest`, `accepted` the database, and a
crash (`Crash`) at any step forgets the process only. Directory removal is two steps, for a reader may
see a half-removed one; rename is one; SQLite transactions are one. Archives, digests and signatures
are what they decide: `content` names the package a directory was made from, and the signature of a
package is good while key and publisher are. `accepted` is a history variable.

### Connections
The store's tables are changed by single statements, `draft` is `compose_instance_https` on its way
through them (grants first, then one connection at a time), and `copy` what the service of the running
session was composed with. A request is its cache key and the point its work has reached: queued,
asking, sleeping before a retry, or how it ended; looking into the cache and putting an answer there are
separate steps with the call between them. The rate window is counted at submission, for requests
the registry then refuses too. The registry (module `Operations`) appears as `Abandon`: its deadline or a
cancellation may drop the work at any await. `floor`, the generations in the store when the composition
began, is a history variable. The repository has no caller yet for rotation, health and deletion of
connections; they are modelled as their store operations.

### Migrations, Desktop and HostClock
`Migrations` runs one transaction per version above the one a process read when it opened; a process
may die between two. `Desktop` has each handler of the event loop as an action. The window system
moves the window when told to, or refuses, and reports each move later as a `Moved` event, which is how
the flag that suppresses saving can meet a user's drag. One axis stands for both and the scale factor is 1.
`HostClock` keeps of the clock only which source set the text last; the waits for the workers at the end may be
over at any time, which is what a budget amounts to.

## 3. What is checked

A run's properties are conjunctions where several facts belong together; each conjunct has a name and a
comment of its own in its module.

| Run | Instance | Shows |
|---|---|---|
| `operations` | 2 operations, the first of a capability with guest events and the second of one without, 1 permit, every queue and the retention of 1 | `RegistryConsistent`: types, and the active table is exact. `ResultsReachable`: no retained result without a completion that leads to it, success told is success takable. `NoLostWakeup`: no cancellation is slept through. `KeepsPromise`: refinement of `OperationLifecycle`. `TasksFinish`: every accepted operation ends, and all tasks end after the actor |
| `install` | 1 process, 3 packages of which two of one version, trusted and unsigned, 3 transactions, 3 crashes | `DirectoriesConsistent`: no half installation, recovery never gives up (but see below). `MarkIsSound`: the anti-rollback mark names an installed package, every trusted directory is recorded. `WatermarkRises`. `JournalDrains`: interrupted transactions are resolved |
| `supervisor` | 1 instance, 3 edits, 2 configurations, 1 retry, queues of 2, generations up to 3 | `SessionsMatch`: generations are ordered along the way from record to screen, late starts do not come back, observed is true. `PlansMatch`: settled sessions match the records. `Settles`: records that stop changing do settle; the worker ends |
| `session` | 2 updates, 1 timer, 1 completion, channels and queues of 1, events without end; calls, timers and completions within `Inputs` | `SessionConsistent`: types, an acknowledged State is not lost. `CancelledInTimeIsSilent`. `KeepsLifecycle`: refinement of `SessionLifecycle`. `EveryoneIsAnswered`: calls are answered, sessions end. `AcknowledgedIsShown` |
| `connections` | 1 instance, 1 connection, 2 credentials, 2 requests (one template cached, one with stale answers), 1 retry, 4 changes of the store | `CompositionIsSound`: grants are of what exists, a session never starts on an older credential than its composition began with. `AnswersOwnRequest`. `NeverRegresses` |
| `permissions` | 16 manifests in 3 versions that keep, drop, narrow, widen or break what the one before declared, two of them made from projects; 1 instance, 2 keys, values of 1 and 2; an origin in two spellings | `AllowedWasApproved`: what a broker allows was agreed to. `RollbackNarrows`. `AdmittedRuns`: what was installed narrows to itself, and its templates are allowed exactly when their origin is declared in the spelling of the URL parser. `QuotaHolds`: the running count is the sum of the entries, within the quota |
| `control_panel` | the panel and a command line, 1 instance, 2 versions with different schemas, 3 configurations (a number as a whole number, as a double, or none), channels of 1, 3 inputs, 1 mishap, together no more than 3 | `SavesOwnForm`, `UneditedSaveKeeps`: forms are saved to their own instance and lose no value unless edited, but for the spelling of numbers. `ShownCatchesUp`, if the store could be opened |
| `desktop` | 3 platforms, a laptop alone or with a second monitor at its left, 2 positions, 2 inputs, 1 mishap, databases of version 0 and 4, opened twice | `OpensUnlessNewer`. `ClickThroughHasWayBack`. `Settled`: with no event on its way the window is where the saved layout puts it. `RestoredOnMonitor` |
| `documents` | several families of documents, of all pairs of the given widgets, and their patches; nesting up to 3, lists up to 2, 1 queued State, 2 updates a second | `ProjectsEveryState`: what validation accepts, the projection can show. `ShownIsLatest`. `PatchesByPath`: RFC 7386, against a definition by paths |
| `loading` | 14 packages, 4 of them valid, one of these built from a project, the first version signed; 2 instances, 2 editors, 2 values of the clock, 3 edits, 1 change of directories or trust, 3 starts of the host, together 5 with one instance and 4 with two | `AcceptedLoads`. `ReadyIsSound`: what is ready is what its record refers to, unaltered and trusted. `PlanIsolates`. `GenerationsGrow`. `UpdatesAreKept`: no update is taken back by a write that read before it. `RollbackAsPlanned`: a rollback applies to a stopped instance of the installation it was planned for |

Two runs find a disagreement between the code and what the repository says of it (quoted in
`PROJECT.json`, "findings"):

| Run | What happens |
|---|---|
| `migration_race` | 2 processes open a new database together: the second sets `user_version` back (`VersionNeverFalls`), and every later open fails. |
| `clock_fallback` | The clock's thread ends with the widget not started, and the built-in timer the log speaks of is not there (`FallsBack`): it was decided when the thread was spawned. |

Bounds. Every queue is checked at one or two places, so that *full* and *empty* are both reached
within a few steps; two operations, two updates or three packages are one more than any place has room for.
Two editors suffice for each race listed, all of which are between one actor and the interference of
another; crashes are bounded by three because recovery restarts from the disk and the database
alone. In `control_panel` and `supervisor` the clock stands still (`MaxTime` 0), so that every
conditional write passes its `updated_at` condition: the hardest case for what these runs ask. What a moving
clock does to the records is the question of `loading`, where it goes forth and back between any two steps while
two editors create, start, configure and roll back the same instance; enough edits remain between the reading
of one and its write for the other to start the instance or change its installation. After the clock has moved, and while
both editors are busy, its constraint leaves fewer other inputs. Its editors are interchangeable, and the
symmetry is sound since all its properties are of safety. In `desktop`,
`SchemaVersion` is smaller than the code's 8, with one migration that alters a table and others around it. Bounds
that no code has (`MaxOps`, `MaxTx`, `MaxCrashes`, `MaxEdits`, `MaxTimers`, `MaxCompletions`, `MaxTime`,
`MaxIds`, `MaxConns`, `MaxInputs`, `MaxMishaps`, `MaxMoves`, `MaxChanges`, `MaxStarts`, `MaxInstalls`,
`MaxOpens`, the `MaxUpdates` of `WidgetSession`, the `MaxRetries` of `Supervisor`) appear in guards only. Where every combination of what the environment may do would be too many, a constraint
of the run bounds their sum: `Inputs` in `loading` (edits, changes and starts) and `session` (calls of the guest,
timers, completions), `Interference` in `control_panel` (inputs and mishaps). Such a sum grows by steps of a user, a
guest or an accident only, none of which is under fairness, so no fair step leaves the constraint and what
the liveness properties say within it is not weakened. Deadlock checking is off
because each system may stop: the actor ends, the supervisor is dropped, the bounded inputs run out.

Fairness. Tokio tasks and threads are scheduled (weak fairness of each task); a guest call ends, at
the latest at its epoch deadline (`floatile-runtime/src/lib.rs:597-620`); timers and deadlines expire.
`Operations` needs strong fairness where a step waits for a lock or for room others may take
(`Deactivate`, `CallbackEnds`), `Supervisor` where a poll may be preempted by commands (`List`),
`TrustedInstall` for the start of a trusted install: its journal drains when trusted installs are started
again and again, and not otherwise. In `ControlPanel` the worker's waits time out and the window's timer
fires. Work itself is never assumed to finish, nor a guest to call anything, nor a user to act. The other
runs are of safety and assume no fairness.

## 4. What is proved

TLAPS checks the modules below, from the named assumptions on constants in the modules they are about
(positive capacities; packages have versions; monitors have a width; the keys of a schema are not `Root`; `None` and
`NoParams` are none of the values they stand beside; paths are lists of names; TLC evaluates each). They are built alike: an inductive invariant, confirmed by TLC first and called
`IInv` unless said otherwise, one step lemma per action or group of variables, and the theorems.

* `OperationsProofs`: `RegistryConsistent`, `ResultsReachable`, `NoLostWakeup`, that results never exceed
  the retention, and the refinement `KeepsPromise`. Nothing in these says that an identifier in a channel is at that
  channel's stage, so `IInv` adds `Channels` (each channel holds the operations at its stage, once) and
  `Pipeline` (what each stage implies about table, result and terminal).
* `TrustedInstallProofs`: types, `MarkIsSound`, `WatermarkRises`, for any number of processes.
  `IInv` adds `Identities` (transaction numbers are never shared between live processes), `Placed` (a
  directory is staged or final, never both, and what a recovering process concluded from the disk stays so) and
  `Covered` (between acceptance and removal of an intent the mark has reached it). Most steps move one process and
  leave the finals and the mark alone: `StepKept` says once what such a step has to show, `LeaveStep` and
  `GotoStep` draw it for a process that ends or goes on, and the lemmas of the steps cite these.
  `KilledInstallsRecover` is `DirectoriesConsistent` under `[]OneTrusted`: two trusted installs at a time do
  break it, one deleting what the other stages (section 5), while any number of unsigned installs beside the one
  do not. A process that dies may be followed by others, so the hypothesis does not make the crashes rare;
  `LoneInstallerRecovers` draws the conclusion without it for one process, which is the run's instance. Its
  invariant `Single` says that the journal then has one row at most and what the running install knows of it
  (`KnowsJournal`), that what is about to be renamed is whole (`WholeStaging`), that recovery never touches an
  unsigned install (`UnsignedApart`), that a trusted directory at a row's place is that row's (`RowOwnsFinal`) and
  that the mark has not passed what may still be accepted (`RowsAbove`).
* `ConnectionsProofs`: types, `CompositionIsSound`, `AnswersOwnRequest`, `NeverRegresses`. `IInv` adds
  `Allocated` (identities in use are below the allocator's next), `FloorHolds` (the generations a composition
  noted bound those of the store from below as long as the connection exists - this is where identities
  that are never given twice are needed), `DraftIsRecent` (the same of what has been read so far) and
  `CacheIsKeyed` (an entry answers the request whose key it is under). The store's operations are
  proved together to only `Ascend`.
* `DesktopProofs`: `OpensUnlessNewer`, `ClickThroughHasWayBack`, `RestoredOnMonitor` and `Settled`, for any
  monitors and layouts, from `SchemaSound`, `WayBack`, `PlaceTypes` and `Calm`. For the first, that in one process the version on disk
  is the last migration it has run and that exactly the tables up to it exist; for the second, what each phase of
  the host implies of hotkey and mode. Recovery of a layout is shown to end inside the monitor it names.
  `Settled` alone is not inductive: `Calm` adds that the flag of a restore is up only while an event is on its
  way, that the place may differ from the layout only behind more events than that one (`Settles`), and that a window
  that is not created yet waits for a restore.
* `PermissionsProofs`: `AllowedWasApproved`, `RollbackNarrows`, `AdmittedRuns` and `QuotaHolds`, for any catalogue of manifests
  in which a capability is declared once (`DeclaredOnce`; the code does not demand it, see below). The first three rest on
  `NotWidened`: what the comparison of two manifests calls no wider, the broker's `decide` allows no more of -
  the two are written apart in the code. `IInv` is `Catalogued` (what is installed is valid, and its powers were
  agreed to) and `Bound` (instances and sessions are of installed versions). The theorem about rollbacks shows that
  what a session may do afterwards is within what it might before, in any order of installs in between. `QuotaHolds` is about a sum over a function:
  that the sum does not depend on the order of its keys, and what writing or deleting one key does to it, is
  proved from the well-foundedness of numbers (a smallest counterexample). `Stored`, which says that the running count is
  that sum, is then inductive.
* `WidgetSessionProofs`: `SessionConsistent`, `CancelledInTimeIsSilent`, and the refinement `KeepsLifecycle`,
  for any capacities and any number of timers, updates and events. `IInv` has the types in four groups of
  variables, and adds `WorkerSays` (what has been reported is fixed by where the worker is), `LastIsAcked` (the
  last update in the channel is the last acknowledged one, so that finding the channel full loses none),
  `Silent` (only a timer whose task has fired is in the queue or with the guest), `StartIsHeard` and `CloseIsAsked`
  (a reported start was the guest's, a reported stop was asked for).
  Of `Documents`: `ProjectsEveryState` and `ShownIsLatest`, for any documents, schemas, patches, limits and any
  walk of the component tree. `DInv` says that the slots are the renderer's of the document (`Stages`), that the compiler
  let no two paths share a property (`Apart`; without it the newest State of one could hide the other's), that
  every State queued conforms (`Accepted`) and that the last one queued, or shown, is the newest (`Latest`). Then
  `FitRegistry` goes through the registry kind by kind: what validation demands of a binding is what
  the renderer declares its slot as. `AlongPath` shows that a path which resolves in a schema leads in every
  conforming State to a value of the type found, by a smallest counterexample on the length of the path. The
  hypotheses are `WalksUnfold` (the three walks used satisfy the equations by which `UiTrees` defines them) and
  `JsonValues(V)` (there is a set of JSON values, closed under parts and patches).
* `LoadingProofs`: types, `AcceptedLoads`, `ReadyIsSound`, `PlanIsolates`, `GenerationsGrow`, for any packages,
  instances, editors, damage and starts. `AcceptedLoads` compares three programs and needs no state beyond the types:
  whatever was staged of an accepted package reads back. For the others `IInv` follows the instance the host is in the
  middle of (`InHand`: what was read so far fits together), says that each listed one is to be dealt with,
  ready or failed (`Sorted`), that one nothing has touched passes every test still to come (`Untouched`), that
  a signature good now was good during this start (`Vouching`), and that a generation is raised
  beyond every unit made before it is used (`Newer`). The lemmas on the records are those of the store.
* `InstancesProofs` is about `Instances` and two of the modules that share its store. Of the store: types,
  `UpdatesAreKept`, `RollbackAsPlanned`, and that a deleted identity never comes back, for any number of
  editors and any clock. The types are inductive by themselves (`InstancesTypeOK`), the last with `Allocated`;
  who may write a record, and under which condition, is read off `Write`, `Create` and `AdvanceGeneration`.
  These are theorems of `InstancesSpec`; that `Supervisor`, `ControlPanel` and `Loading` each imply it carries them over.
  Of `Supervisor`: `SessionsMatch`, `PlansMatch`, and that the composition takes only the steps `Instances`
  allows, so that the theorems of the store hold in it; for any number of instances, editors, retries and drops.
  `IInv` adds what each copy of an instance's state says of the next: `Planned` (the batch is the plan made
  from the snapshot), `Carried` and `Born` (a start carries its fingerprints and is of an instance that was created),
  `InOrder` (whatever was sent is older than what is being prepared, which is at most as new as the record),
  `NoneLeft` (what the worker does not know of has no session once the channel is applied, so a start without a stop
  finds none), `StartIsShown`, `Served` (what the worker knows of has a session, a start or a failure, unless the
  channel still holds something for it) and `AsPlanned` (that session, or start, is of the fingerprint known).
  Of `ControlPanel`: `SavesOwnForm` and `UneditedSaveKeeps`, for any schemas, configurations and channels. `PanelInv`
  follows a form on its way: each snapshot has the fields of its own rows (`SnapshotsHold`), the selection is that of the
  form or was dropped (`FormOfSelection`), a command carries the form of the instance it is for (`CommandsHold`), and
  what is about to be written is what that form says (`AppliesForm`). `ReadsBack` is the lemma that an unedited
  form gives the configuration back, `ValueIsRead` what one field makes of its value: for any numbers, of which the
  run has small ones only. It is here that a schema's keys must not be mistaken for the one field of a whole
  configuration, which the code tells apart by its kind (instance_control.rs:1099) and the model by `Root`.

Model-checked only: all liveness (fairness and ENABLED are outside the prover), and `PatchesByPath`: that merging
twice is merging once, and what it does at each path, is an induction over values, which the provers cannot
do. The clock's thread and the race of migrations have no theorem: their runs show what goes wrong.

## 5. Known limits, where the code and its documents differ

What a property exempts or a model cannot say, with the place in the code. The two findings are not repeated.

Installing. `NoHalfInstall` and `InterruptedIsRecoverable` hold with one trusted installer at a time (`KilledInstallsRecover`): with two,
the recovery of the second deletes the staging directory of the live first one, which renames what is left
(floatile-cli/src/install.rs:322, against install.rs:4 and :157). An unsigned install that takes the place of an interrupted trusted
one leaves a row that recovery never resolves (`Displaced`; install.rs:315). A stale accepted intent that meets a newer
accepted version is never removed (trust.rs:434, against the comment at :424). A trusted install below
the highest version is compared with nothing (install.rs:203-222), an unsigned one never.

Packages. A package with an `install.json` of its own is accepted and never loads, for staging writes over
that file (install.rs:430-493); identifiers without a dot pass `validate_plugin_id` (manifest.rs:429) and are
skipped by `list_highest` (installation.rs:190): `AcceptedLoads` exempts both. Directory entries of an
archive end in a slash and are refused as paths, so their branch is dead. A schema that does not compile
is installed and refuses every instance. A file `a` beside `a/b` fails at staging. A damaged highest version
blocks every trusted install, and there is no command to remove it. Configure validates against the installation
it read, and a rollback in between leaves a configuration that is refused at load. The trust marker in
`install.json` is outside the digest. `plan_running_instances` is called by tests only; production starts go through
the supervisor's `prepare_actions`, which loads by the same function.

Permissions. No rule refuses a capability declared twice; the comparison then takes the last (distribution.rs:247-263),
broker and narrowing the first. No package of the run declares one twice, and the theorems assume it. `params_within`
takes empty keys of an instance for within a list, and an author's empty `keys` become no params, that is, every
key. An origin with an upper-case host or an explicit
`:443` is admitted, for validation compares texts (manifest.rs:342-353, :413), and every request to it is then refused for
its scope, for the broker is asked with what the URL parser makes of it (http.rs:229, :260); ADR
0005-connection-bound-https-templates.md:16 speaks of normalised origins. `AdmittedRuns` says which templates
are refused. The documents show wildcard keys (`settings.*`, manifest-v1.md:140); `decide` compares exactly.

Instances. Configure and delete ask whether the instance is stopped only when they read it (store lib.rs:631; a rollback
asks again). If it is started in between, it is deleted while it runs, for the DELETE has no condition (lib.rs:760), and
the panel, which takes the time at the write, configures it while it runs; so does the command line, which took the time
when it began, if the start fell in the same second or had an older clock (against floatile-cli/src/instance.rs:149). Of two commands about the same column in the same
second the last one stays. A second retry of a running instance makes the worker
forget it, and stopping it then does nothing (instance_supervisor.rs:350, against
docs/plugin-sdk/plugin-system-architecture.md:136); `hasty` exempts it. A configuration changed and changed back
around a start leaves the one in between running (instance_supervisor.rs:385); `PlannedConfigRestarts`
speaks of records that did not change in between. Two hosts could share a generation; the single-instance guard is of Windows only.

Control panel. One damaged highest installation empties the whole snapshot (against plugin-platform-roadmap.md:188). A form opened
while its installation was unreadable is empty, and saving it writes an empty configuration. Saving overwrites what others
changed since the form was opened. A number field makes a double of a whole number: 5 is saved as 5.0, and above 2^53
as the nearest double (instance_control.rs:1119-1125). An integer field that holds 1.0, or a number beyond `i64`, refuses
to be saved. A value that is not a string in a string field, which only a configure that raced a rollback leaves
there, is saved as the string of its text. The round-trip test (instance_control.rs:1250) has none of these. Doubles are
read by serde_json without `float_roundtrip`, to the last place only; in the model a double stands for those nearby.

Sessions. `update-state` commits before it queues, and reports a full queue although State has changed
(state.rs:140, against wit-api-v1.md:211 and ui-ir-v1.md:98). A timer that expires with the queue full is dropped
and keeps its slot (runtime lib.rs:342, against floatile-widget.wit:69). `KeepsPromise` gives each operation
one terminal, not the one stop asked for (broker.rs:549). The rate windows are fixed windows.

Documents. An `Option` field of a derived State starts as null while its schema knows no null. Names are serialised
as `else_`, `max_length`, `max_items`, where ui-ir-v1.md writes `else` and camel case. A `ForEach` without `maxItems`
is accepted (ui-ir-v1.md:148), and none compiles. Icon, Image and Scroll validate and are refused by the renderer, and so are
item bindings of meters, lists and sparklines. Two paths may give one property name. Payloads and event schemas are not
held against each other before the guest (ui-ir-v1.md §6). An optional field that is deleted keeps its last value on screen. The
first State shown is the first update, not the initial State.

Desktop. On Wayland, and on X11 without SHAPE, click-through cannot be set and the mode never changes (in
part against platform-matrix.md:66). When a monitor is unplugged and the window system moves the window, the
saved placement is replaced, and nothing leads back when the monitor returns (main.rs:709, against
platform-matrix.md:70). `lost_monitor` is never set. Escape leaves show mode without saving. Windows counts a window
that is not ready as a refused hotkey candidate. After Delete a hidden window can be saved again by hotkey or tray. Two
monitors with one key make recovery fail. A hotkey thread that dies on X11 is not noticed.

## 6. Not modelled

Not modelled because there is nothing to interleave or because it is operating-system work: the services with one
lock (log, metrics, theme, clock, audit), the preview, argument parsing, scaffolding, `dev` and `migrate` of projects, drawing, tray menus,
reference plugins. The WASM engine, SQLite, the file system, Tokio, cargo, the Slint compiler and the window system appear
through what they guarantee. Signatures, digests and key domains are what they decide. Text is abstracted to
what a rule tells apart, sizes to small numbers.

What is left to do, in this order:

1. Composition of `Loading` with `Supervisor`: a start that fails because the installation changed is one outcome there.
2. Two instances in `supervisor`, which needs a symmetry that its liveness properties do not allow.
3. Wrapping of timer identifiers at 2^32 (timer.rs:72).
