------------------------------ MODULE ControlPanel ------------------------------
(***************************************************************************)
(* The control panel (floatile-shell/instance_control.rs): a window whose  *)
(* callbacks read the last snapshot, edit a form and queue commands, and a *)
(* worker that applies them and sends snapshots.  Neither waits for the    *)
(* other.  The instances are those of module Instances, and a command line *)
(* edits them at the same time; installations may become unreadable and be *)
(* repaired while the panel is open.                                       *)
(***************************************************************************)
EXTENDS Instances, Integers, Sequences

CONSTANTS
    Panel,        \* the editor that is the panel's worker
    Keys,         \* keys of a configuration
    Values,       \* their values: JSON
    Fits,         \* the kinds of field whose schema a value satisfies
    MaxInteger,   \* the greatest i64
    MaxExact,     \* whole numbers up to this one are doubles: 2^53
    Nearest,      \* the double nearest to a whole number
    EmptyString,  \* the JSON string of no characters
    SchemaOf,     \* the configuration schema of each version
    NoSchema,     \* a version without one
    CommandQueue, \* CONTROL_QUEUE_CAPACITY
    SnapshotQueue,\* SNAPSHOT_QUEUE_CAPACITY
    MaxMishaps,   \* times installations change (a bound on inputs)
    MaxInputs,    \* clicks and keystrokes (a bound on inputs)
    Root,         \* the one field of a form for the whole configuration
    Malformed     \* text that is not what its field takes

\* A JSON value: a whole number, a double, or something told from others by n.
\* A double stands for all those serde_json, which does not read every double
\* back to the last bit, may make of its text.
JsonTypes  == {"integer", "float", "string", "boolean", "other"}
FieldKinds == {"string", "integer", "number", "boolean", "json"}

ASSUME ValuesAssumption ==
    /\ MaxInteger \in Nat /\ MaxExact \in Nat
    /\ \A x \in Values : x.type \in JsonTypes
    /\ \A x \in Values : x.type \in {"integer", "float"} => x.n \in Int
    /\ \A n \in (-MaxExact)..MaxExact : Nearest[n] = n
    /\ EmptyString.type = "string"
    /\ \A c \in Configs : Malformed # c

ASSUME ControlPanelAssumption ==
    /\ Panel \in Editors
    /\ Configs \subseteq UNION {[K -> Values] : K \in SUBSET Keys}
    /\ \A x \in Values : Fits[x] \subseteq FieldKinds
    /\ \A v \in Versions : SchemaOf[v] # NoSchema =>
            SchemaOf[v].kind \in UNION {[K -> FieldKinds] : K \in SUBSET Keys}
    /\ Root \notin Keys
    /\ Versions \subseteq Nat \ {0}
    /\ CommandQueue \in Nat \ {0} /\ SnapshotQueue \in Nat \ {0}
    /\ MaxMishaps \in Nat /\ MaxInputs \in Nat

-----------------------------------------------------------------------------
(* The form of a configuration.                                            *)

NoFields == [k \in {} |-> k]
Declares(v) == SchemaOf[v] # NoSchema
Known(v) == DOMAIN SchemaOf[v].kind

\* What is typed in a field: the bare text of a string, or JSON.
Text(kind, value) == [bare |-> kind = "string" /\ value.type = "string", value |-> value]
EmptyText(kind) == IF kind = "string" THEN Text(kind, EmptyString) ELSE Malformed

Filled(kind, value, required) ==
    [kind |-> kind, text |-> Text(kind, value), required |-> required, present |-> TRUE]

Empty(kind, required) ==
    [kind |-> kind, text |-> EmptyText(kind), required |-> required, present |-> required]

\* Mutant of WholeForm: values the form cannot show are forgotten.
WholeFormIfComposed(v, config) == SchemaOf[v].composed

\* A key the schema does not list has no field of its own.
WholeForm(v, config) == SchemaOf[v].composed \/ ~(DOMAIN config \subseteq Known(v))

RootField(config) ==
    [k \in {Root} |-> [kind |-> "root", text |-> [bare |-> FALSE, value |-> config],
                       required |-> TRUE, present |-> TRUE]]

FormField(v, config, k) ==
    LET s == SchemaOf[v] IN
    CASE k \in DOMAIN config -> Filled(s.kind[k], config[k], k \in s.required)
      [] k \notin DOMAIN config /\ k \in DOMAIN s.defaults ->
            Filled(s.kind[k], s.defaults[k], k \in s.required)
      [] OTHER -> Empty(s.kind[k], k \in s.required)

FormFields(v, config) ==
    IF ~Declares(v) THEN NoFields
    ELSE IF WholeForm(v, config) THEN RootField(config)
    ELSE [k \in Known(v) |-> FormField(v, config, k)]

\* What a field is read as: i64, f64, bool or JSON, each by its own parser.
Readable(field) ==
    LET x == field.text.value IN
    /\ field.text # Malformed
    /\ field.kind = "integer" => x.type = "integer" /\ x.n \in (-MaxInteger - 1)..MaxInteger
    /\ field.kind = "number"  => x.type \in {"integer", "float"}
    /\ field.kind = "boolean" => x.type = "boolean"

\* A number field makes a double of every number; a string field takes its
\* text as it is, JSON too.
ValueOf(field) ==
    LET x == field.text.value IN
    CASE field.kind = "number" /\ x.type = "integer" -> [type |-> "float", n |-> Nearest[x.n]]
      [] field.kind = "string" /\ ~field.text.bare   -> [type |-> "string", n |-> x]
      [] OTHER                                        -> x

Used(fields) == {k \in DOMAIN fields : fields[k].present \/ fields[k].required}

ConfigFromFields(fields) ==
    IF Root \in DOMAIN fields THEN ValueOf(fields[Root])
    ELSE [k \in Used(fields) |-> ValueOf(fields[k])]

\* InstanceConfig::new: an object of bounded size and depth.
ReadableForm(fields) ==
    (\A k \in Used(fields) : Readable(fields[k])) /\ ConfigFromFields(fields) \in Configs

\* Without a schema only the empty configuration is accepted.
Valid(v, config) ==
    IF ~Declares(v) THEN DOMAIN config = {}
    ELSE /\ SchemaOf[v].required \subseteq DOMAIN config
         /\ \A k \in DOMAIN config \cap Known(v) : SchemaOf[v].kind[k] \in Fits[config[k]]

-----------------------------------------------------------------------------
VARIABLES
    catalog,   \* what a reader finds of each version: "ok", "broken" or "missing"
    mishaps,   \* changes of it so far
    snapshots, \* channel of snapshots
    shown,     \* the snapshot the window shows
    selection, \* the instance or installation that is selected
    form,      \* its fields
    inputs,    \* clicks and keystrokes so far
    controls,  \* channel of ControlCommands
    applying,  \* the command the worker is in the middle of
    worker,    \* "load", "wait", "apply" or "ended"
    open       \* whether the surface exists

surfaceVars == <<catalog, mishaps, snapshots, shown, selection, form, inputs, controls,
                 applying, worker, open>>
panelVars == <<instanceVars, surfaceVars>>
window == <<shown, selection, form, inputs, open>>
disk   == <<catalog, mishaps>>

NoSelection == [id |-> 0, version |-> 0]
NoRows == [id \in Ids |-> None]
Blank == [rows |-> NoRows, forms |-> [id \in Ids |-> NoFields], offered |-> {}]

\* fields with, as history, the instance and the configuration they came from.
NoForm == [fields |-> NoFields, of |-> NoSelection, config |-> NoFields, edited |-> FALSE]

\* The worker opens the store first; a store that cannot be opened is all it
\* ever reports.
PanelOpens ==
    \/ worker = "load" /\ snapshots = <<>>
    \/ worker = "ended" /\ snapshots = <<Blank>>

PanelInit ==
    /\ InstancesInit
    /\ catalog = [v \in Versions |-> "ok"] /\ mishaps = 0
    /\ PanelOpens /\ shown = Blank /\ selection = NoSelection /\ form = NoForm
    /\ inputs = 0
    /\ controls = <<>> /\ applying = None
    /\ open = TRUE

\* An installation is damaged, removed, or repaired.
CatalogChanges(v) ==
    /\ mishaps < MaxMishaps
    /\ \E s \in {"ok", "broken", "missing"} \ {catalog[v]} : catalog' = [catalog EXCEPT ![v] = s]
    /\ mishaps' = mishaps + 1
    /\ UNCHANGED <<instanceVars, snapshots, window, controls, applying, worker>>

-----------------------------------------------------------------------------
(* The worker.                                                             *)

Present == {v \in Versions : catalog[v] # "missing"}
IsHighest(v) == v \in Present /\ \A w \in Present : w <= v

FieldsShown(id) ==
    IF record[id] # None /\ catalog[record[id].version] = "ok"
    THEN FormFields(record[id].version, record[id].config) ELSE NoFields

\* load_snapshot.  When the highest version cannot be read there are no
\* instances in it either.
Snapshot ==
    IF \E v \in Present : IsHighest(v) /\ catalog[v] = "broken"
    THEN Blank
    ELSE [rows    |-> record,
          forms   |-> [id \in Ids |-> FieldsShown(id)],
          offered |-> {v \in Present : IsHighest(v)}]

\* Mutant of LoadSnapshot: only a command is followed by a snapshot.
LoadSnapshotAfterCommand ==
    /\ worker = "load"
    /\ snapshots' = IF Len(snapshots) < SnapshotQueue THEN Append(snapshots, Snapshot)
                    ELSE snapshots
    /\ worker' = "wait"
    /\ UNCHANGED <<instanceVars, disk, window, controls, applying>>

\* One turn of the loop begins with a snapshot; try_send drops it when
\* there is no room for it.
LoadSnapshot ==
    /\ worker = "load" \/ (worker = "wait" /\ controls = <<>> /\ open)
    /\ snapshots' = IF Len(snapshots) < SnapshotQueue THEN Append(snapshots, Snapshot)
                    ELSE snapshots
    /\ worker' = "wait"
    /\ UNCHANGED <<instanceVars, disk, window, controls, applying>>

\* Stop, or the last sender is gone.
WorkerStops ==
    /\ worker = "wait"
    /\ IF controls = <<>> THEN ~open ELSE Head(controls).cmd = "Stop"
    /\ worker' = "ended"
    /\ UNCHANGED <<instanceVars, disk, snapshots, window, controls, applying>>

\* recv_timeout gives the next command.
Taken(cmds) ==
    /\ worker = "wait" /\ controls # <<>> /\ Head(controls).cmd \in cmds
    /\ controls' = Tail(controls)
    /\ UNCHANGED <<disk, snapshots, window>>

\* load_exact, the form, the schema; then the row, always stopped.
Acceptable(c, v) ==
    /\ catalog[v] = "ok"
    /\ ReadableForm(c.form.fields)
    /\ Valid(v, ConfigFromFields(c.form.fields))

ApplyCreate ==
    /\ Taken({"create"})
    /\ LET c == Head(controls) IN
          /\ Acceptable(c, c.version)
          /\ Create(Panel)
          /\ record'[nextId].config = ConfigFromFields(c.form.fields)
          /\ record'[nextId].version = c.version
          /\ record'[nextId].desired = "stopped"
    /\ worker' = "load"
    /\ UNCHANGED applying

\* require_instance, require_stopped and the checks of a configuration.
Admits(c) ==
    /\ record[c.id] # None
    /\ c.cmd \in StoppedOnly => record[c.id].desired = "stopped"
    /\ c.cmd = "configure" => Acceptable(c, record[c.id].version)

ApplyReads ==
    /\ Taken({"configure", "start", "stop", "delete"})
    /\ LET c == Head(controls) IN
          /\ Admits(c)
          /\ Read(Panel, c.cmd, c.id)
          /\ c.cmd = "configure" => edit'[Panel].config = ConfigFromFields(c.form.fields)
          /\ applying' = c
    /\ worker' = "apply"

Refused(c) == IF c.cmd = "create" THEN ~Acceptable(c, c.version) ELSE ~Admits(c)

\* Bounded says that the model has no more commands or identities.
Bounded(c) == edits = MaxEdits \/ (c.cmd = "create" /\ nextId \notin Ids)

ApplyRefuses ==
    /\ Taken(AllCommands)
    /\ LET c == Head(controls) IN Refused(c) \/ Bounded(c)
    /\ worker' = "load"
    /\ UNCHANGED <<instanceVars, applying>>

\* The conditional write, or ConcurrentUpdate.
ApplyWrites ==
    /\ worker = "apply"
    /\ Write(Panel)
    /\ applying' = None
    /\ worker' = "load"
    /\ UNCHANGED <<disk, snapshots, window, controls>>

WorkerStep ==
    LoadSnapshot \/ WorkerStops \/ ApplyCreate \/ ApplyReads \/ ApplyRefuses \/ ApplyWrites

-----------------------------------------------------------------------------
(* The window.                                                             *)

Input == open /\ inputs < MaxInputs /\ inputs' = inputs + 1

Shows(id) == id \in Ids /\ shown.rows[id] # None
Stopped(id) == shown.rows[id].desired = "stopped"

StillThere(sel, s) ==
    /\ sel.id # 0 => s.rows[sel.id] # None
    /\ sel.version # 0 => sel.version \in s.offered

\* The timer takes the newest snapshot there is and drops a selection that
\* is not in it.
DrainSnapshots ==
    /\ open /\ snapshots # <<>>
    /\ LET newest == snapshots[Len(snapshots)] IN
          /\ shown' = newest
          /\ selection' = IF StillThere(selection, newest) THEN selection ELSE NoSelection
    /\ snapshots' = <<>>
    /\ UNCHANGED <<instanceVars, disk, form, inputs, controls, applying, worker, open>>

\* Mutant of SelectInstance: the form keeps the fields it had.
SelectInstanceKeepsForm(id) ==
    /\ Input /\ Shows(id)
    /\ selection' = [NoSelection EXCEPT !.id = id]
    /\ UNCHANGED <<instanceVars, disk, snapshots, shown, form, controls, applying, worker, open>>

SelectInstance(id) ==
    /\ Input /\ Shows(id)
    /\ selection' = [NoSelection EXCEPT !.id = id]
    /\ form' = [fields |-> shown.forms[id], of |-> selection', config |-> shown.rows[id].config,
                edited |-> FALSE]
    /\ UNCHANGED <<instanceVars, disk, snapshots, shown, controls, applying, worker, open>>

SelectInstallation(v) ==
    /\ Input /\ v \in shown.offered
    /\ selection' = [NoSelection EXCEPT !.version = v]
    /\ form' = [fields |-> FormFields(v, NoFields), of |-> selection', config |-> NoFields,
                edited |-> FALSE]
    /\ UNCHANGED <<instanceVars, disk, snapshots, shown, controls, applying, worker, open>>

\* What a user may type in a field.
Typable(kind) ==
    {EmptyText(kind)} \cup
    (IF kind = "string" THEN {Text(kind, x) : x \in {v \in Values : v.type = "string"}}
     ELSE {Malformed} \cup {[bare |-> FALSE, value |-> x] :
                                x \in IF kind = "root" THEN Configs ELSE Values})

\* on_field_edited.
FieldEdited(k) ==
    /\ Input /\ k \in DOMAIN form.fields
    /\ \E text \in Typable(form.fields[k].kind), present \in BOOLEAN :
          LET field == form.fields[k] IN
          form' = [form EXCEPT !.edited = TRUE,
                     !.fields[k] = [field EXCEPT !.text = text,
                                                 !.present = field.required \/ present]]
    /\ UNCHANGED <<instanceVars, disk, snapshots, shown, selection, controls, applying,
                   worker, open>>

\* try_command: with the controls full the click has no effect.
TryCommand(c) ==
    /\ Input
    /\ controls' = IF Len(controls) < CommandQueue THEN Append(controls, c) ELSE controls
    /\ UNCHANGED <<instanceVars, disk, snapshots, shown, selection, form, open, applying, worker>>

Command(cmd, sel) == [cmd |-> cmd, id |-> sel.id, version |-> sel.version, form |-> NoForm]
WithForm(cmd, sel) == [Command(cmd, sel) EXCEPT !.form = form]

CreateClicked == selection.version # 0 /\ TryCommand(WithForm("create", selection))

InstanceClicked(cmd) ==
    /\ selection.id # 0
    /\ Stopped(selection.id) <=> cmd # "stop"
    /\ TryCommand(IF cmd = "configure" THEN WithForm(cmd, selection) ELSE Command(cmd, selection))

Clicks == CreateClicked \/ \E cmd \in {"configure", "start", "stop", "delete"} : InstanceClicked(cmd)

\* Drop for InstanceControlSurface: Stop is only tried; the senders go too.
Close ==
    /\ open
    /\ open' = FALSE
    /\ controls' = IF Len(controls) < CommandQueue
                   THEN Append(controls, Command("Stop", NoSelection)) ELSE controls
    /\ UNCHANGED <<instanceVars, disk, snapshots, shown, selection, form, inputs, applying, worker>>

WindowStep ==
    \/ DrainSnapshots \/ Clicks \/ Close
    \/ \E id \in Ids : SelectInstance(id)
    \/ \E v \in Versions : SelectInstallation(v)
    \/ \E k \in Keys \cup {Root} : FieldEdited(k)

-----------------------------------------------------------------------------
(* The command line validates what it writes, too.                         *)
Checked(w) == w # None /\ w.cmd \in {"configure", "rollback"} =>
                 catalog[w.version] = "ok" /\ Valid(w.version, w.config)

CliStep(e) ==
    /\ EditorStep(e)
    /\ edit'[e] # edit[e] => Checked(edit'[e])
    /\ nextId' # nextId => LET r == record'[nextId] IN
                              catalog[r.version] = "ok" /\ Valid(r.version, r.config)
    /\ UNCHANGED surfaceVars

PanelNext ==
    \/ (Tick \/ SupervisorStarts) /\ UNCHANGED surfaceVars
    \/ \E e \in Editors \ {Panel} : CliStep(e)
    \/ \E v \in Versions : CatalogChanges(v)
    \/ WorkerStep \/ WindowStep

PanelSpec == PanelInit /\ [][PanelNext]_panelVars

\* The worker runs and its waits time out; the window's timer fires.
FairPanelSpec ==
    /\ PanelSpec
    /\ WF_panelVars(WorkerStep) /\ WF_panelVars(DrainSnapshots)

-----------------------------------------------------------------------------
(* Properties.                                                             *)

\* A configuration is saved to the instance whose form was edited, however
\* often snapshots came and selections went between (the form, the
\* selection and the snapshot are three cells: instance_control.rs:387-446).
SavesOwnForm ==
    \A c \in {controls[i] : i \in DOMAIN controls} \cup {applying} :
        c # None /\ c.cmd = "configure" => c.form.of.id = c.id

\* What a field may make of the value x it was filled with: a number field, of
\* a whole number, the double that is the same number, or the nearest if none
\* is; a string field, of what is no string, its text.
Respelt(kind, x, y) ==
    \/ /\ kind = "number" /\ x.type = "integer" /\ y.type = "float"
       /\ x.n \in (-MaxExact)..MaxExact => y.n = x.n
    \/ kind = "string" /\ x.type # "string" /\ y = [type |-> "string", n |-> x]

\* Saving a form nobody edited keeps every value that was shown in it, and
\* what the form has no field for; but a whole number in a number field is a
\* double from then on, and a value of another type in a string field (left by a
\* configure that raced a rollback) a string (form_fields against
\* config_from_fields).  A form that was empty because its installation could
\* not be read is the exception.
UneditedSaveKeeps ==
    \A w \in {edit[Panel]} :
        w # None /\ w.cmd = "configure" /\ ~applying.form.edited /\ applying.form.fields # NoFields =>
            LET c == applying.form.config
                f == applying.form.fields
            IN  \A k \in DOMAIN c :
                    /\ k \in DOMAIN w.config
                    /\ \/ w.config[k] = c[k]
                       \/ k \in DOMAIN f /\ Respelt(f[k].kind, c[k], w.config[k])

\* What the window shows catches up with the records, whoever changed them,
\* when they change no more and installations can be read, if the worker
\* could open the store.
ShownCatchesUp ==
    worker = "load" =>
        <>[](open => shown.rows = record \/ \E v \in Versions : catalog[v] = "broken")

=============================================================================
