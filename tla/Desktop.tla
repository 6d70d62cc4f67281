-------------------------------- MODULE Desktop --------------------------------
(***************************************************************************)
(* The desktop host (floatile-shell/main.rs, lib.rs, core/layout.rs): one  *)
(* widget window on a changing set of monitors, an edit and a show mode,   *)
(* the hotkey that leads back from show mode, and the saved layout.  Every *)
(* handler of the event loop is one action; the window system moves the    *)
(* window when it is told to and reports each move later, as a Moved       *)
(* event.  One axis stands for both, and the scale factor is 1.            *)
(***************************************************************************)
EXTENDS Migrations, Integers, SequencesExt

CONSTANTS
    Host,       \* the opener that is this process
    Platforms,  \* "windows", "x11" (macOS is treated alike) or "wayland"
    Topologies, \* lists of monitors, the window system's order
    Positions,  \* where a user or the window system puts the window
    MinWidth, MaxWidth, Width,  \* SizeConstraints, and the width of a new window
    Candidates, \* hotkeys tried on Windows: 3 in the code
    MaxRetries, \* ticks of the setup timer: 25 in the code
    MaxMoves,   \* Moved events on their way (a bound on the model)
    MaxInputs,  \* what users and monitors do (a bound on inputs)
    MaxMishaps, \* failures of the window system and of the store (a bound)
    None

Monitors == [key : STRING, left : Int, width : Nat \ {0}, primary : BOOLEAN]
Layouts  == [key : STRING, at : Int, width : Nat, mode : {"edit", "show"}]

ASSUME DesktopAssumption ==
    /\ Openers = {Host}
    /\ Topologies \subseteq Seq(Monitors)
    /\ None \notin Monitors /\ None \notin Layouts
    /\ Positions \subseteq Int
    /\ {MinWidth, MaxWidth, Width} \subseteq Nat \ {0}
    /\ MinWidth <= Width /\ Width <= MaxWidth
    /\ Candidates \in Nat \ {0} /\ MaxRetries \in Nat \ {0}
    /\ MaxMoves \in Nat /\ MaxInputs \in Nat /\ MaxMishaps \in Nat

-----------------------------------------------------------------------------
(* The layout.                                                             *)

\* Twice the distance of the window's centre from the left edge of m.
Holds(m, at, width) ==
    LET centre == 2 * (at - m.left) + width IN 0 <= centre /\ centre < 2 * m.width

\* The first of the monitors that is in fitting.
FirstOf(mons, fitting) ==
    LET i == SelectInSeq(mons, LAMBDA m : m \in fitting) IN IF i = 0 THEN None ELSE mons[i]

Primary(mons) == FirstOf(mons, {m \in Range(mons) : m.primary})

\* The monitor with the window's centre, or else the primary one; the place
\* is relative to it.
LayoutFromWindow(mons, w, md) ==
    LET under == FirstOf(mons, {m \in Range(mons) : Holds(m, w.at, w.width)})
        m == IF under = None THEN Primary(mons) ELSE under
    IN  IF m = None THEN None
        ELSE [key |-> m.key, at |-> w.at - m.left, width |-> w.width, mode |-> md]

\* Exactly one primary monitor and no key twice.
ValidTopology(mons) ==
    /\ Cardinality({i \in DOMAIN mons : mons[i].primary}) = 1
    /\ \A i, j \in DOMAIN mons : mons[i].key = mons[j].key => i = j

AtMost(a, b) == IF a < b THEN a ELSE b
Clamp(x, low, high) == IF x < low THEN low ELSE IF x > high THEN high ELSE x

\* Mutant of PlaceOnMonitor: only the left edge is looked after.
PlaceLeftEdge(row, m) ==
    LET width == AtMost(row.width, m.width) IN
    [at |-> Clamp(m.left + row.at, m.left, m.left + m.width - 1), width |-> width]

PlaceOnMonitor(row, m) ==
    LET width == AtMost(row.width, m.width) IN
    [at |-> Clamp(m.left + row.at, m.left, m.left + m.width - width), width |-> width]

\* Where a saved layout is put: on its monitor or, without it, on the
\* primary one.
RecoverLayout(row, mons) ==
    LET own == FirstOf(mons, {m \in Range(mons) : m.key = row.key}) IN
    IF ~ValidTopology(mons) THEN None
    ELSE PlaceOnMonitor(row, IF own = None THEN Primary(mons) ELSE own)

-----------------------------------------------------------------------------
VARIABLES
    machine,   \* the platform, and whether it can do click-through
    phase,     \* "down", "opening" or "running"
    attached,  \* the monitors
    snapshot,  \* the host's list of them, empty when it has none
    store,     \* whether the host has the store
    layout,    \* the saved layout, or None
    mode,      \* the controller's mode
    supported, \* its click_through_supported
    hotkey,    \* whether the recovery hotkey is registered
    setup,     \* the setup timer of Windows
    window,    \* the native window, and the component's edit-mode
    resizing,  \* whether the resize handle is held
    moves,     \* Moved events on their way
    suppress,  \* suppress_next_moved_save
    restoring, \* whether the first restore is still scheduled
    inputs, mishaps

hostVars == <<phase, store, mode, supported, hotkey, setup, restoring, snapshot>>
desktopVars == <<hostVars, machine, attached, layout, window, resizing, moves,
                 suppress, inputs, mishaps>>
vars == <<storeVars, desktopVars>>

NoWindow == [up |-> FALSE, shown |-> FALSE, at |-> 0, width |-> Width,
             through |-> FALSE, edit |-> TRUE]
SetupAtStart == [on |-> machine.platform = "windows", role |-> FALSE, hotkey |-> FALSE,
                 tray |-> FALSE, candidate |-> 0, retries |-> 0]
Hidden == [window EXCEPT !.shown = FALSE]

Init ==
    /\ MigrationsInit
    /\ machine \in [platform : Platforms, capable : BOOLEAN]
    /\ machine.capable \/ machine.platform # "windows"
    /\ ~machine.capable \/ machine.platform # "wayland"
    /\ attached \in Topologies
    /\ phase = "down" /\ snapshot = <<>> /\ store = FALSE /\ layout = None
    /\ mode = "edit" /\ supported = FALSE /\ hotkey = FALSE
    /\ setup = [on |-> FALSE, role |-> FALSE, hotkey |-> FALSE, tray |-> FALSE,
                candidate |-> 0, retries |-> 0]
    /\ window = NoWindow /\ resizing = FALSE /\ moves = <<>>
    /\ suppress = FALSE /\ restoring = FALSE
    /\ inputs = 0 /\ mishaps = 0

\* The failures in bad happen.
Fail(bad) ==
    /\ mishaps + Cardinality(bad) <= MaxMishaps
    /\ mishaps' = mishaps + Cardinality(bad)

Input == inputs < MaxInputs /\ inputs' = inputs + 1

-----------------------------------------------------------------------------
(* What the handlers call.                                                 *)

\* set_click_through, and edit-mode when it succeeds.
CanClickThrough(bad) == machine.capable /\ "through" \notin bad

ModeApplied(w, md, able, bad) ==
    IF w.up /\ CanClickThrough(bad)
    THEN [w EXCEPT !.through = md = "show" /\ able, !.edit = md = "edit"]
    ELSE w

\* The one row of the table, replaced whole or not at all.
SaveLayout(row, bad) == IF row # None /\ "save" \notin bad THEN row ELSE layout

\* The row that a save with mode md leaves.
Saved(md, bad) ==
    IF store /\ window.up /\ machine.platform # "wayland"
    THEN SaveLayout(LayoutFromWindow(snapshot, window, md), bad) ELSE layout

EnumerateMonitors(bad) ==
    IF machine.platform = "wayland" \/ "enumerate" \in bad THEN <<>> ELSE attached

\* Mutant of NeedsMove: the flag is set, and a move asked for, every time.
NeedsMoveAlways(place) == TRUE

NeedsMove(place) == window.at # place.at

\* Refresh the monitors and put the window where the saved layout says.  A
\* request the window system does not carry out is followed by no event.
Placed(bad) ==
    LET place == IF store /\ layout # None THEN RecoverLayout(layout, snapshot') ELSE None IN
    IF place = None THEN window
    ELSE [window EXCEPT !.at = IF "move" \in bad THEN @ ELSE place.at, !.width = place.width]

RestorePlace(bad) ==
    LET place == IF store /\ layout # None THEN RecoverLayout(layout, snapshot') ELSE None IN
    /\ snapshot' = EnumerateMonitors(bad)
    /\ suppress' = (suppress \/ (place # None /\ NeedsMove(place)))
    /\ IF Placed(bad).at # window.at
       THEN Len(moves) < MaxMoves /\ moves' = Append(moves, "restore")
       ELSE UNCHANGED moves

-----------------------------------------------------------------------------
(* The process.                                                            *)

Launch ==
    /\ phase = "down"
    /\ phase' = "opening"
    /\ Open(Host)
    /\ UNCHANGED <<machine, attached, snapshot, store, layout, mode, supported, hotkey,
                   setup, window, resizing, moves, suppress, restoring, inputs, mishaps>>

MigrateHost == Migrate(Host) /\ UNCHANGED desktopVars

\* Mutant of InitiallySupported: the controller is built from the probe.
InitiallySupportedByProbe == machine.capable

\* ShellController::new(false): only a registered hotkey makes it TRUE.
InitiallySupported == FALSE

\* A key of the whole display can be grabbed on X11 and macOS.
CanListen == machine.platform = "x11" /\ machine.capable

Start ==
    /\ phase = "opening" /\ opener[Host].pc \in {"open", "failed"}
    /\ phase' = "running"
    /\ store' = (opener[Host].pc = "open")
    /\ mode' = "edit" /\ restoring' = TRUE /\ snapshot' = <<>> /\ suppress' = FALSE
    /\ setup' = SetupAtStart
    /\ \E ok \in BOOLEAN :
          /\ ok => CanListen
          /\ hotkey' = ok
          /\ supported' = (InitiallySupported \/ ok)
    /\ UNCHANGED <<storeVars, machine, attached, layout, window, resizing, moves, inputs, mishaps>>

Gone ==
    /\ phase' = "down"
    /\ store' = FALSE /\ hotkey' = FALSE /\ supported' = FALSE /\ mode' = "edit"
    /\ setup' = [setup EXCEPT !.on = FALSE, !.role = FALSE, !.hotkey = FALSE, !.tray = FALSE,
                              !.candidate = 0, !.retries = 0]
    /\ window' = NoWindow /\ resizing' = FALSE /\ moves' = <<>> /\ suppress' = FALSE
    /\ restoring' = FALSE /\ snapshot' = <<>>
    /\ LeaveStore(Host)
    /\ UNCHANGED <<machine, attached>>

Crash == phase # "down" /\ Gone /\ UNCHANGED <<layout, inputs, mishaps>>

\* app.run returns when no window is shown.
Shutdown ==
    /\ phase = "running" /\ window.up /\ ~window.shown
    /\ Gone /\ UNCHANGED <<layout, inputs, mishaps>>

-----------------------------------------------------------------------------
(* The event loop.                                                         *)

Running == phase = "running"

WindowCreated ==
    /\ Running /\ ~window.up
    /\ \E at \in Positions : window' = [NoWindow EXCEPT !.up = TRUE, !.shown = TRUE, !.at = at]
    /\ \E n \in 0..1 : moves' = [i \in 1..n |-> "system"]
    /\ UNCHANGED <<storeVars, hostVars, machine, attached, layout, resizing, suppress, inputs, mishaps>>

\* schedule_layout_restore; it waits for the window and takes the saved mode.
RestoreTick ==
    /\ Running /\ restoring /\ window.up
    /\ \E bad \in SUBSET {"enumerate", "move", "through"} :
          /\ Fail(bad)
          /\ RestorePlace(bad)
          /\ LET found == store /\ layout # None /\ RecoverLayout(layout, snapshot') # None IN
             /\ mode' = IF found THEN layout.mode ELSE mode
             /\ window' = IF mode' # mode THEN ModeApplied(Placed(bad), mode', supported, bad)
                          ELSE Placed(bad)
    /\ restoring' = FALSE
    /\ UNCHANGED <<storeVars, machine, phase, attached, store, layout, supported, hotkey, setup,
                   resizing, inputs>>

\* Focused(true) and Occluded(false).
Focus ==
    /\ Running /\ window.shown
    /\ Input
    /\ \E bad \in SUBSET {"enumerate", "move", "through"} :
          /\ Fail(bad)
          /\ RestorePlace(bad)
          /\ window' = ModeApplied(Placed(bad), mode, supported, bad)
    /\ UNCHANGED <<storeVars, machine, phase, attached, store, layout, mode, supported, hotkey,
                   setup, resizing, restoring>>

\* A mode change made by the user, applied and then saved.
ChangeMode(md, saves) ==
    /\ Input
    /\ mode' = md
    /\ \E bad \in SUBSET {"through", "save"} :
          /\ Fail(bad)
          /\ window' = ModeApplied(window, md, supported, bad)
          /\ layout' = IF saves THEN Saved(md, bad) ELSE layout
    /\ UNCHANGED <<storeVars, machine, phase, attached, snapshot, store, supported, hotkey,
                   setup, resizing, moves, suppress, restoring>>

HotkeyPressed == Running /\ hotkey /\ ChangeMode("edit", TRUE)

\* Pressed in the window, so that it must not let clicks through.
ShowButton ==
    /\ Running /\ window.shown /\ window.edit /\ ~window.through
    /\ ChangeMode(IF mode = "edit" THEN "show" ELSE "edit", TRUE)

Escape == Running /\ window.shown /\ mode = "show" /\ ChangeMode("edit", FALSE)

Unmoved == UNCHANGED <<storeVars, hostVars, machine, attached>>

\* Mouse presses reach the window in edit mode when it is not click-through.
Handled == Running /\ window.shown /\ mode = "edit" /\ ~window.through

Drag ==
    /\ Handled /\ ~resizing
    /\ Input
    /\ Len(moves) < MaxMoves
    /\ \E at \in Positions \ {window.at} : window' = [window EXCEPT !.at = at]
    /\ moves' = Append(moves, "user")
    /\ UNCHANGED <<layout, resizing, suppress, mishaps>> /\ Unmoved

PressHandle ==
    /\ Handled /\ ~resizing
    /\ Input
    /\ resizing' = TRUE
    /\ UNCHANGED <<layout, window, moves, suppress, mishaps>> /\ Unmoved

DragHandle ==
    /\ Running /\ window.shown /\ resizing
    /\ \E requested \in (MinWidth - 1)..(MaxWidth + 1) :
          window' = [window EXCEPT !.width = Clamp(requested, MinWidth, MaxWidth)]
    /\ UNCHANGED <<layout, resizing, moves, suppress, inputs, mishaps>> /\ Unmoved

ReleaseHandle ==
    /\ Running /\ window.shown /\ resizing
    /\ resizing' = FALSE
    /\ \E bad \in SUBSET {"save"} : Fail(bad) /\ layout' = Saved(mode, bad)
    /\ UNCHANGED <<window, moves, suppress, inputs>> /\ Unmoved

\* A Moved event: the one after a restore is not saved.
Moved ==
    /\ Running /\ window.up /\ moves # <<>>
    /\ moves' = Tail(moves)
    /\ suppress' = FALSE
    /\ \E bad \in SUBSET {"save"} :
          /\ Fail(bad)
          /\ layout' = IF suppress THEN layout ELSE Saved(mode, bad)
    /\ UNCHANGED <<window, resizing, inputs>> /\ Unmoved

\* Saved, and then hidden by the toolkit.
CloseRequested ==
    /\ Running /\ window.shown
    /\ Input
    /\ \E bad \in SUBSET {"save"} : Fail(bad) /\ layout' = Saved(mode, bad)
    /\ window' = Hidden
    /\ UNCHANGED <<resizing, moves, suppress>> /\ Unmoved

DeleteClicked ==
    /\ Running /\ window.shown /\ window.edit /\ ~window.through
    /\ Input
    /\ \E bad \in SUBSET {"save"} :
          Fail(bad) /\ layout' = IF store /\ bad = {} THEN None ELSE layout
    /\ window' = Hidden
    /\ UNCHANGED <<resizing, moves, suppress>> /\ Unmoved

\* Exit in the tray menu of Windows.
TrayExit ==
    /\ Running /\ setup.tray
    /\ Input
    /\ \E bad \in SUBSET {"save"} : Fail(bad) /\ layout' = Saved(mode, bad)
    /\ Gone

\* Monitors come, go or are arranged anew; the window system may move the
\* window with them.  The host is not told.
TopologyChanges ==
    /\ Running
    /\ Input
    /\ \E mons \in Topologies \ {attached} : attached' = mons
    /\ \/ UNCHANGED <<window, moves>>
       \/ /\ window.shown /\ Len(moves) < MaxMoves
          /\ \E at \in Positions \ {window.at} : window' = [window EXCEPT !.at = at]
          /\ moves' = Append(moves, "system")
    /\ UNCHANGED <<storeVars, hostVars, machine, layout, resizing, suppress, mishaps>>

RetriesAfter(pending) == setup.retries + IF pending THEN 1 ELSE 0

RoleApplied(bad) == window.up /\ "role" \notin bad
HotkeyRegistered(bad) == window.up /\ "hotkey" \notin bad

\* A tick of register_timer: the window's role, the next hotkey candidate
\* and the tray icon, each until it succeeds.
SetupTick ==
    /\ Running /\ setup.on
    /\ IF setup.retries >= MaxRetries
       THEN setup' = [setup EXCEPT !.on = FALSE] /\ UNCHANGED <<hotkey, supported, mishaps>>
       ELSE \E bad \in SUBSET {"role", "hotkey", "tray"} :
              LET tries == ~setup.hotkey /\ setup.candidate < Candidates
                  registers == tries /\ HotkeyRegistered(bad)
                  role == setup.role \/ RoleApplied(bad)
                  tray == setup.tray \/ "tray" \notin bad
                  pending == ~role \/ (tries /\ ~registers) \/ ~tray
              IN  /\ Fail(bad)
                  /\ setup' = [on |-> pending, role |-> role, tray |-> tray,
                               hotkey |-> setup.hotkey \/ ~tries \/ registers,
                               candidate |-> setup.candidate + IF tries /\ ~registers THEN 1 ELSE 0,
                               retries |-> RetriesAfter(pending)]
                  /\ hotkey' = (hotkey \/ registers)
                  /\ supported' = (supported \/ registers)
    /\ UNCHANGED <<storeVars, machine, phase, attached, snapshot, store, layout, mode, window,
                   resizing, moves, suppress, restoring, inputs>>

User == \/ HotkeyPressed \/ ShowButton \/ Escape \/ Drag \/ PressHandle \/ DragHandle
        \/ ReleaseHandle \/ CloseRequested \/ DeleteClicked \/ TrayExit

Next ==
    \/ Launch \/ MigrateHost \/ Start \/ Crash \/ Shutdown
    \/ WindowCreated \/ RestoreTick \/ Focus \/ Moved \/ TopologyChanges \/ SetupTick
    \/ User

Spec == Init /\ [][Next]_vars

-----------------------------------------------------------------------------
(* Properties.                                                             *)

\* The window lets clicks through only while a recovery hotkey is
\* registered, whatever mode was restored and whichever of the two came
\* first (main.rs:941, platform-matrix.md:66).
ClickThroughHasWayBack == window.through => hotkey

\* What the host itself moves is put wholly on a monitor of the list it has
\* just read, whatever the saved layout and however the monitors changed
\* since it was saved.
RestoredOnMonitor ==
    [][ (RestoreTick \/ Focus) /\ window'.at # window.at =>
          \E i \in DOMAIN snapshot' :
             LET m == snapshot'[i] IN
             m.left <= window'.at /\ window'.at + window'.width <= m.left + m.width ]_vars

\* Where a saved layout puts the window, to the letter or as it is restored.
Agrees(row, w, mons) ==
    \/ \E i \in DOMAIN mons : mons[i].key = row.key /\ w.at = mons[i].left + row.at
    \/ RecoverLayout(row, mons) \in {None, [at |-> w.at, width |-> w.width]}

\* When every Moved event is handled and nothing failed, the window is where
\* its saved layout puts it: no drag is swallowed by the flag of a restore.
Settled ==
    (/\ phase = "running" /\ window.shown /\ store /\ layout # None /\ snapshot # <<>>
     /\ moves = <<>> /\ mishaps = 0 /\ ~restoring /\ ~resizing)
    => Agrees(layout, window, snapshot)

=============================================================================
