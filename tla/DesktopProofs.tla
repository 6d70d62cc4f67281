----------------------------- MODULE DesktopProofs -----------------------------
(***************************************************************************)
(* Theorems about Desktop: for any monitors, layouts, failures and         *)
(* restarts, click-through keeps its way back; and for any number of       *)
(* migrations a host that dies between them never locks itself out.        *)
(***************************************************************************)
EXTENDS Desktop, FiniteSetTheorems, TLAPS

(***************************************************************************)
(* Click-through.  The controller believes in click-through only after a   *)
(* hotkey is registered, and a hotkey is given up only with the window.    *)
(***************************************************************************)
WindowFields == {"up", "shown", "at", "width", "through", "edit"}

\* The window is a record, so that a handler that changes one field of it
\* leaves the others alone.
WindowShape == window = [f \in WindowFields |-> window[f]]

WayBack ==
    /\ WindowShape
    /\ window.through \in BOOLEAN /\ supported \in BOOLEAN /\ hotkey \in BOOLEAN
    /\ phase = "running" \/ window.through = FALSE
    /\ supported => hotkey
    /\ window.through => hotkey

LEMMA NoWindowShape ==
    NoWindow = [f \in WindowFields |-> NoWindow[f]] /\ NoWindow.through = FALSE
  BY DEF NoWindow, WindowFields

\* What the handlers do to a window keeps its shape, and lets clicks through
\* only where that is supported.
LEMMA PlacedShape ==
    ASSUME WayBack, NEW bad
    PROVE  /\ Placed(bad) = [f \in WindowFields |-> Placed(bad)[f]]
           /\ Placed(bad).through = window.through
  BY DEF Placed, WayBack, WindowShape, WindowFields

LEMMA ModeAppliedShape ==
    ASSUME NEW w, w = [f \in WindowFields |-> w[f]], w.through \in BOOLEAN,
           NEW md, NEW able \in BOOLEAN, NEW bad
    PROVE  /\ ModeApplied(w, md, able, bad) = [f \in WindowFields |-> ModeApplied(w, md, able, bad)[f]]
           /\ ModeApplied(w, md, able, bad).through \in BOOLEAN
           /\ ModeApplied(w, md, able, bad).through => w.through \/ able
  BY DEF ModeApplied, WindowFields

LEMMA GoneWayBack == Gone => WayBack'
<1> SUFFICES ASSUME Gone PROVE WayBack'
  OBVIOUS
<1>1. window' = NoWindow /\ supported' = FALSE /\ hotkey' = FALSE
  BY DEF Gone
<1> QED
  BY <1>1, NoWindowShape DEF WayBack, WindowShape

\* The handlers that put the window where it was or change its mode.
LEMMA RestoreWayBack ==
    ASSUME WayBack, RestoreTick \/ Focus
    PROVE  WayBack'
<1>1. phase = "running" /\ UNCHANGED <<phase, supported, hotkey>>
  BY DEF RestoreTick, Focus, Running
<1>2. PICK bad \in SUBSET {"enumerate", "move", "through"} :
          \/ window' = Placed(bad)
          \/ \E md \in {mode, mode'} : window' = ModeApplied(Placed(bad), md, supported, bad)
  BY DEF RestoreTick, Focus
<1>3. CASE window' = Placed(bad)
  BY <1>1, <1>3, PlacedShape DEF WayBack, WindowShape
<1>4. ASSUME NEW md, window' = ModeApplied(Placed(bad), md, supported, bad)
      PROVE  WayBack'
  <2>1. Placed(bad) = [f \in WindowFields |-> Placed(bad)[f]] /\ Placed(bad).through = window.through
    BY PlacedShape
  <2>2. /\ window' = [f \in WindowFields |-> window'[f]]
        /\ window'.through \in BOOLEAN
        /\ window'.through => window.through \/ supported
    BY <1>4, <2>1, ModeAppliedShape DEF WayBack
  <2> QED
    BY <1>1, <2>2 DEF WayBack, WindowShape
<1> QED
  BY <1>2, <1>3, <1>4

LEMMA ChangeModeWayBack ==
    ASSUME WayBack, NEW md, NEW saves, Running, ChangeMode(md, saves)
    PROVE  WayBack'
<1>1. PICK bad \in SUBSET {"through", "save"} : window' = ModeApplied(window, md, supported, bad)
  BY DEF ChangeMode
<1>2. phase = "running" /\ UNCHANGED <<phase, supported, hotkey>>
  BY DEF ChangeMode, Running
<1>3. /\ window' = [f \in WindowFields |-> window'[f]]
      /\ window'.through \in BOOLEAN
      /\ window'.through => window.through \/ supported
  BY <1>1, ModeAppliedShape DEF WayBack, WindowShape
<1> QED
  BY <1>2, <1>3 DEF WayBack, WindowShape

\* The handlers that move, resize, show or hide the window.
LEMMA HandledWayBack ==
    ASSUME WayBack,
           \/ Drag \/ PressHandle \/ DragHandle \/ ReleaseHandle
           \/ Moved \/ CloseRequested \/ DeleteClicked \/ TopologyChanges
    PROVE  WayBack'
<1>1. UNCHANGED <<phase, supported, hotkey>>
  BY DEF Drag, PressHandle, DragHandle, ReleaseHandle, Moved, CloseRequested, DeleteClicked,
         TopologyChanges, Unmoved, hostVars
<1>2. \/ window' = window
      \/ \E at : window' = [window EXCEPT !.at = at]
      \/ \E width : window' = [window EXCEPT !.width = width]
      \/ window' = [window EXCEPT !.shown = FALSE]
  BY DEF Drag, PressHandle, DragHandle, ReleaseHandle, Moved, CloseRequested, DeleteClicked,
         TopologyChanges, Unmoved, Hidden
<1>3. /\ window' = [f \in WindowFields |-> window'[f]]
      /\ window'.through = window.through
  BY <1>2 DEF WayBack, WindowShape, WindowFields
<1> QED
  BY <1>1, <1>3 DEF WayBack, WindowShape

LEMMA WindowCreatedWayBack ==
    ASSUME WayBack, WindowCreated
    PROVE  WayBack'
<1>1. PICK at \in Positions : window' = [NoWindow EXCEPT !.up = TRUE, !.shown = TRUE, !.at = at]
  BY DEF WindowCreated
<1>2. phase = "running" /\ UNCHANGED <<phase, supported, hotkey>>
  BY DEF WindowCreated, Running, hostVars
<1>3. window' = [f \in WindowFields |-> window'[f]] /\ window'.through = FALSE
  BY <1>1 DEF NoWindow, WindowFields
<1> QED
  BY <1>2, <1>3 DEF WayBack, WindowShape

\* A registered hotkey stays registered while the window is there.
LEMMA SetupWayBack ==
    ASSUME WayBack, SetupTick
    PROVE  WayBack'
<1>1. UNCHANGED <<phase, window>>
  BY DEF SetupTick
<1>2. \/ UNCHANGED <<hotkey, supported>>
      \/ \E registers \in BOOLEAN :
            hotkey' = (hotkey \/ registers) /\ supported' = (supported \/ registers)
  <2>1. CASE setup.retries >= MaxRetries
    BY <2>1 DEF SetupTick
  <2>2. CASE ~(setup.retries >= MaxRetries)
    <3>1. PICK bad \in SUBSET {"role", "hotkey", "tray"} :
              LET tries == ~setup.hotkey /\ setup.candidate < Candidates
                  registers == tries /\ HotkeyRegistered(bad)
              IN hotkey' = (hotkey \/ registers) /\ supported' = (supported \/ registers)
      BY <2>2 DEF SetupTick
    <3> QED
      BY <3>1
  <2> QED
    BY <2>1, <2>2
<1> QED
  BY <1>1, <1>2 DEF WayBack, WindowShape

LEMMA LaunchWayBack ==
    ASSUME WayBack, Launch \/ MigrateHost \/ Start
    PROVE  WayBack'
<1>1. window' = window
  BY DEF Launch, MigrateHost, Start, desktopVars
<1>2. CASE Launch
  BY <1>1, <1>2 DEF Launch, WayBack, WindowShape
<1>3. CASE MigrateHost
  BY <1>1, <1>3 DEF MigrateHost, desktopVars, hostVars, WayBack, WindowShape
<1>4. CASE Start
  <2>1. phase = "opening" /\ phase' = "running"
    BY <1>4 DEF Start
  <2>2. hotkey' \in BOOLEAN /\ supported' \in BOOLEAN /\ (supported' => hotkey')
    BY <1>4 DEF Start, InitiallySupported
  <2>3. window.through = FALSE
    BY <2>1 DEF WayBack
  <2> QED
    BY <1>1, <2>1, <2>2, <2>3 DEF WayBack, WindowShape
<1> QED
  BY <1>2, <1>3, <1>4

LEMMA WayBackStep ==
    ASSUME WayBack, [Next]_vars PROVE WayBack'
<1>1. CASE Launch \/ MigrateHost \/ Start
  BY <1>1, LaunchWayBack
<1>2. CASE Crash \/ Shutdown \/ TrayExit
  BY <1>2, GoneWayBack DEF Crash, Shutdown, TrayExit
<1>3. CASE WindowCreated
  BY <1>3, WindowCreatedWayBack
<1>4. CASE RestoreTick \/ Focus
  BY <1>4, RestoreWayBack
<1>5. CASE HotkeyPressed \/ ShowButton \/ Escape
  BY <1>5, ChangeModeWayBack DEF HotkeyPressed, ShowButton, Escape
<1>6. CASE \/ Drag \/ PressHandle \/ DragHandle \/ ReleaseHandle
           \/ Moved \/ CloseRequested \/ DeleteClicked \/ TopologyChanges
  BY <1>6, HandledWayBack
<1>7. CASE SetupTick
  BY <1>7, SetupWayBack
<1>8. CASE UNCHANGED vars
  BY <1>8 DEF vars, desktopVars, hostVars, WayBack, WindowShape
<1> QED
  BY <1>1, <1>2, <1>3, <1>4, <1>5, <1>6, <1>7, <1>8 DEF Next, User

LEMMA WayBackAlways == Spec => []WayBack
<1>1. Init => WayBack
  BY NoWindowShape DEF Init, WayBack, WindowShape
<1>2. WayBack /\ [Next]_vars => WayBack'
  BY WayBackStep
<1> QED
  BY <1>1, <1>2, PTL DEF Spec

\* Whatever is restored, pressed, moved, unplugged or fails: a window that lets
\* clicks through can be called back by its hotkey (apply_mode_effect,
\* register_timer).
THEOREM AlwaysAWayBack == Spec => []ClickThroughHasWayBack
<1>1. WayBack => ClickThroughHasWayBack
  BY DEF WayBack, ClickThroughHasWayBack
<1> QED
  BY <1>1, WayBackAlways, PTL
-----------------------------------------------------------------------------
(***************************************************************************)
(* The migrations of one process at a time.                                *)
(***************************************************************************)
Openings == [pc : {"closed", "open", "migrating", "failed"}, next : 0..SchemaVersion]

\* The version and what exists go together, and what runs next is above both:
\* then no column is added twice.
SchemaSound ==
    /\ schema = [version |-> schema.version, made |-> 1..schema.version]
    /\ schema.version \in Nat
    /\ opener \in [Openers -> Openings]
    /\ opener[Host].pc = "migrating" => opener[Host].next = schema.version + 1
    /\ opener[Host].pc = "failed" => schema.version > SchemaVersion

LEMMA InitSound == Init => SchemaSound
<1> SUFFICES ASSUME Init PROVE SchemaSound
  OBVIOUS
<1>1. PICK v \in Found : schema = SchemaAt(v)
  BY DEF Init, MigrationsInit
<1>2. v \in Nat /\ schema = [version |-> v, made |-> 1..v]
  BY <1>1, MigrationsAssumption DEF SchemaAt
<1>3. opener = [p \in Openers |-> [pc |-> "closed", next |-> 0]]
  BY DEF Init, MigrationsInit, Closed
<1>4. Host \in Openers /\ opener[Host] = [pc |-> "closed", next |-> 0]
  BY <1>3, DesktopAssumption
<1>5. opener \in [Openers -> Openings]
  BY <1>3, MigrationsAssumption DEF Openings
<1> QED
  BY <1>2, <1>4, <1>5 DEF SchemaSound

LEMMA OpeningFacts ==
    ASSUME NEW pc \in {"closed", "open", "migrating", "failed"}, NEW next \in 0..SchemaVersion
    PROVE  /\ [pc |-> pc, next |-> next] \in Openings
           /\ [pc |-> pc, next |-> next].pc = pc
           /\ [pc |-> pc, next |-> next].next = next
  BY DEF Openings

LEMMA OpenSound == SchemaSound /\ Open(Host) => SchemaSound'
<1> SUFFICES ASSUME SchemaSound, Open(Host) PROVE SchemaSound'
  OBVIOUS
<1>1. /\ schema' = schema /\ Host \in Openers /\ schema.version \in Nat
      /\ SchemaVersion \in Nat /\ 0 \in 0..SchemaVersion
  BY DesktopAssumption, MigrationsAssumption DEF SchemaSound, Open
<1>2. ASSUME NEW o \in Openings, opener' = [opener EXCEPT ![Host] = o],
             o.pc = "migrating" => o.next = schema.version + 1,
             o.pc = "failed" => schema.version > SchemaVersion
      PROVE  SchemaSound'
  BY <1>1, <1>2 DEF SchemaSound
<1> DEFINE o == CASE schema.version > SchemaVersion -> [pc |-> "failed", next |-> 0]
                  [] schema.version = SchemaVersion -> [pc |-> "open", next |-> 0]
                  [] OTHER -> [pc |-> "migrating", next |-> schema.version + 1]
<1>3. opener' = [opener EXCEPT ![Host] = o]
  BY DEF Open
<1>4. CASE schema.version > SchemaVersion
  <2>1. o = [pc |-> "failed", next |-> 0]
    BY <1>1, <1>4
  <2> HIDE DEF o
  <2> QED
    BY <1>1, <1>2, <1>3, <1>4, <2>1, OpeningFacts
<1>5. CASE schema.version = SchemaVersion
  <2>1. o = [pc |-> "open", next |-> 0]
    BY <1>1, <1>5
  <2> HIDE DEF o
  <2> QED
    BY <1>1, <1>2, <1>3, <2>1, OpeningFacts
<1>6. CASE schema.version < SchemaVersion
  <2>1. o = [pc |-> "migrating", next |-> schema.version + 1]
    BY <1>1, <1>6
  <2>2. schema.version + 1 \in 0..SchemaVersion
    BY <1>1, <1>6
  <2> HIDE DEF o
  <2> QED
    BY <1>1, <1>2, <1>3, <2>1, <2>2, OpeningFacts
<1> QED
  BY <1>1, <1>4, <1>5, <1>6

LEMMA MigrateSound == SchemaSound /\ Migrate(Host) => SchemaSound'
<1> SUFFICES ASSUME SchemaSound, Migrate(Host) PROVE SchemaSound'
  OBVIOUS
<1> DEFINE n == opener[Host].next
<1>1. /\ Host \in Openers /\ schema.version \in Nat /\ schema.made = 1..schema.version
      /\ n = schema.version + 1 /\ n \in 0..SchemaVersion /\ SchemaVersion \in Nat
  BY DesktopAssumption, MigrationsAssumption DEF SchemaSound, Migrate, Openings
<1>2. n \notin Alters \cap schema.made
  BY <1>1
<1>3. /\ schema' = [version |-> n, made |-> schema.made \cup {n}]
      /\ opener' = [opener EXCEPT ![Host] =
            IF n = SchemaVersion THEN [pc |-> "open", next |-> 0]
            ELSE [pc |-> "migrating", next |-> n + 1]]
  BY <1>2 DEF Migrate, Migrated
<1>4. schema.made \cup {n} = 1..n
  BY <1>1
<1>5. /\ schema' = [version |-> schema'.version, made |-> 1..schema'.version]
      /\ schema'.version = n
  BY <1>3, <1>4
<1>6. n \in Nat
  BY <1>1
<1>7. ASSUME NEW o \in Openings, opener' = [opener EXCEPT ![Host] = o],
             o.pc = "migrating" => o.next = n + 1, o.pc # "failed"
      PROVE  SchemaSound'
  <2> HIDE DEF n
  <2> QED
    BY <1>1, <1>5, <1>6, <1>7 DEF SchemaSound
<1>8. CASE n = SchemaVersion
  <2>1. opener' = [opener EXCEPT ![Host] = [pc |-> "open", next |-> 0]]
    BY <1>3, <1>8
  <2>2. 0 \in 0..SchemaVersion
    BY <1>1
  <2>3. [pc |-> "open", next |-> 0] \in Openings
    BY <2>2, OpeningFacts
  <2> HIDE DEF n
  <2> QED
    BY <1>7, <2>1, <2>3
<1>9. CASE n # SchemaVersion
  <2>1. opener' = [opener EXCEPT ![Host] = [pc |-> "migrating", next |-> n + 1]]
    BY <1>3, <1>9
  <2>2. n + 1 \in 0..SchemaVersion
    BY <1>1, <1>9
  <2> HIDE DEF n
  <2> QED
    BY <1>7, <2>1, <2>2, OpeningFacts
<1> QED
  BY <1>8, <1>9

LEMMA LeaveSound == SchemaSound /\ LeaveStore(Host) => SchemaSound'
<1> SUFFICES ASSUME SchemaSound, LeaveStore(Host) PROVE SchemaSound'
  OBVIOUS
<1>1. Host \in Openers /\ schema' = schema
  BY DesktopAssumption DEF LeaveStore
<1>2. opener' = [opener EXCEPT ![Host] = [pc |-> "closed", next |-> 0]]
  BY DEF LeaveStore, Closed
<1>3. [pc |-> "closed", next |-> 0] \in Openings
  BY MigrationsAssumption DEF Openings
<1> QED
  BY <1>1, <1>2, <1>3 DEF SchemaSound

\* However often the host dies between two of its migrations, and however many
\* there are, it opens its database again unless a newer host has been there
\* (Store::migrate).
THEOREM AlwaysOpens == Spec => []OpensUnlessNewer
<1>1. SchemaSound /\ [Next]_vars => SchemaSound'
  <2> SUFFICES ASSUME SchemaSound, [Next]_vars PROVE SchemaSound'
    OBVIOUS
  <2>1. CASE Launch
    BY <2>1, OpenSound DEF Launch
  <2>2. CASE MigrateHost
    BY <2>2, MigrateSound DEF MigrateHost
  <2>3. CASE Crash \/ Shutdown \/ TrayExit
    BY <2>3, LeaveSound DEF Crash, Shutdown, TrayExit, Gone
  <2>4. CASE UNCHANGED storeVars
    BY <2>4 DEF storeVars, SchemaSound
  <2> QED
    BY <2>1, <2>2, <2>3, <2>4
       DEF Next, User, Start, WindowCreated, RestoreTick, Focus, Moved, TopologyChanges, SetupTick,
           HotkeyPressed, ShowButton, Escape, ChangeMode, Drag, PressHandle, DragHandle,
           ReleaseHandle, CloseRequested, DeleteClicked, Unmoved, vars
<1>2. SchemaSound => OpensUnlessNewer
  BY DesktopAssumption DEF SchemaSound, OpensUnlessNewer
<1> QED
  BY <1>1, <1>2, InitSound, PTL DEF Spec
-----------------------------------------------------------------------------
(***************************************************************************)
(* The place of the window.                                                *)
(***************************************************************************)
Causes == {"user", "system", "restore"}
Lists == Topologies \cup {<<>>}

\* What the handlers keep: the lists, the saved layout and the window are what
\* they should be.
PlaceTypes ==
    /\ attached \in Topologies /\ snapshot \in Lists
    /\ layout \in Layouts \cup {None}
    /\ window.at \in Int /\ window.width \in Nat
    /\ mode \in {"edit", "show"}
    /\ moves \in Seq(Causes)
    /\ mishaps \in Nat

LEMMA ListsAreSequences == Lists \subseteq Seq(Monitors)
<1>1. Topologies \subseteq Seq(Monitors)
  BY DesktopAssumption
<1>2. <<>> \in Seq(Monitors)
  OBVIOUS
<1> QED
  BY <1>1, <1>2 DEF Lists

\* A set of indexes has a least one.
LEMMA LeastIndex ==
    ASSUME NEW T \in SUBSET Nat, T # {} PROVE Min(T) \in T
<1>1. PICK R : R = OpToRel(<, Nat)
  OBVIOUS
<1>2. IsWellFoundedOn(R, Nat)
  BY <1>1, NatLessThanWellFounded
<1>3. PICK x \in T : \A y \in T : ~ (<<y, x>> \in R)
  BY <1>2, WFMin
<1>4. \A a, b \in Nat : <<b, a>> \in R <=> b < a
  <2>1. R = {ss \in Nat \X Nat : ss[1] < ss[2]}
    BY <1>1 DEF OpToRel
  <2> QED
    BY <2>1
<1>5. \A y \in T : ~(y < x)
  BY <1>3, <1>4
<1>6. \A y \in T : x <= y
  BY <1>5
<1> QED
  BY <1>6 DEF Min

\* FirstOf finds a monitor that fits, if there is one.
LEMMA FirstOfFits ==
    ASSUME NEW mons \in Seq(Monitors), NEW fitting
    PROVE  \/ \E i \in DOMAIN mons : FirstOf(mons, fitting) = mons[i] /\ mons[i] \in fitting
           \/ FirstOf(mons, fitting) = None /\ \A i \in DOMAIN mons : mons[i] \notin fitting
<1> DEFINE I == {i \in 1..Len(mons) : mons[i] \in fitting}
<1>1. FirstOf(mons, fitting) =
         LET i == IF I # {} THEN Min(I) ELSE 0 IN IF i = 0 THEN None ELSE mons[i]
  BY DEF FirstOf, SelectInSeq
<1>2. CASE I = {}
  BY <1>1, <1>2
<1>3. CASE I # {}
  <2>1. I \in SUBSET Nat
    OBVIOUS
  <2>2. Min(I) \in I
    <3> HIDE DEF I
    <3> QED
      BY <1>3, <2>1, LeastIndex
  <2>3. Min(I) \in DOMAIN mons /\ mons[Min(I)] \in fitting /\ Min(I) # 0
    BY <2>2
  <2>4. FirstOf(mons, fitting) = mons[Min(I)]
    BY <1>1, <1>3, <2>3
  <2> QED
    BY <2>3, <2>4
<1> QED
  BY <1>2, <1>3

\* A valid topology has a primary monitor.
LEMMA PrimaryOfValid ==
    ASSUME NEW mons \in Seq(Monitors), ValidTopology(mons)
    PROVE  \E i \in DOMAIN mons : Primary(mons) = mons[i]
<1> DEFINE P == {i \in DOMAIN mons : mons[i].primary}
<1>1. P # {}
  <2>1. Cardinality(P) = 1
    BY DEF ValidTopology
  <2>2. Cardinality({}) = 0
    BY FS_EmptySet
  <2>3. ASSUME P = {} PROVE FALSE
    <3>1. Cardinality(P) = Cardinality({})
      BY <2>3
    <3> QED
      BY ONLY <3>1, <2>1, <2>2
  <2> QED
    BY <2>3
<1>2. PICK i \in DOMAIN mons : mons[i].primary
  BY <1>1
<1>3. mons[i] \in {m \in Range(mons) : m.primary}
  BY <1>2 DEF Range
<1> QED
  BY <1>3, FirstOfFits DEF Primary

\* recover_layout_on_topology: wholly on a monitor of the list.
LEMMA RecoveredFits ==
    ASSUME NEW mons \in Seq(Monitors), NEW row \in Layouts, RecoverLayout(row, mons) # None
    PROVE  \E at \in Int, width \in Nat :
              /\ RecoverLayout(row, mons) = [at |-> at, width |-> width]
              /\ \E i \in DOMAIN mons :
                    mons[i].left <= at /\ at + width <= mons[i].left + mons[i].width
<1> DEFINE own == FirstOf(mons, {m \in Range(mons) : m.key = row.key})
<1>1. ValidTopology(mons)
  BY DEF RecoverLayout
<1>2. PICK i \in DOMAIN mons : (IF own = None THEN Primary(mons) ELSE own) = mons[i]
  <2>1. own = None \/ \E i \in DOMAIN mons : own = mons[i]
    BY FirstOfFits
  <2> QED
    BY <1>1, <2>1, PrimaryOfValid
<1> DEFINE m == mons[i]
           width == AtMost(row.width, m.width)
           at == Clamp(m.left + row.at, m.left, m.left + m.width - width)
<1>3. RecoverLayout(row, mons) = [at |-> at, width |-> width]
  BY <1>1, <1>2 DEF RecoverLayout, PlaceOnMonitor
<1>4. m.left \in Int /\ m.width \in Nat /\ row.width \in Nat /\ row.at \in Int
  <2>1. mons[i] \in Monitors
    BY <1>2
  <2> QED
    BY <2>1 DEF Monitors, Layouts
<1>5. width \in Nat /\ width <= m.width
  BY <1>4 DEF AtMost
<1>6. at \in Int /\ m.left <= at /\ at + width <= m.left + m.width
  <2> DEFINE low == m.left
             high == m.left + m.width - width
             x == m.left + row.at
  <2>1. low \in Int /\ high \in Int /\ x \in Int /\ low <= high /\ high + width = m.left + m.width
    BY ONLY <1>4, <1>5
  <2>2. at = IF x < low THEN low ELSE IF x > high THEN high ELSE x
    BY DEF Clamp
  <2> HIDE DEF x, high, width, at
  <2>3. at \in Int /\ low <= at /\ at <= high
    BY ONLY <2>1, <2>2
  <2>4. at + width <= high + width
    BY ONLY <2>1, <2>3, <1>5
  <2> QED
    BY <2>1, <2>3, <2>4
<1> QED
  BY <1>3, <1>5, <1>6

\* layout_from_window: the row says where the window is, or there is no row
\* because the list has no primary monitor.
LEMMA RowOfWindow ==
    ASSUME NEW mons \in Seq(Monitors), NEW w, w.at \in Int, w.width \in Nat,
           NEW md \in {"edit", "show"}
    PROVE  LET row == LayoutFromWindow(mons, w, md) IN
           \/ row \in Layouts /\ \E i \in DOMAIN mons : mons[i].key = row.key
                                                       /\ w.at = mons[i].left + row.at
           \/ row = None /\ ~ValidTopology(mons)
<1> DEFINE under == FirstOf(mons, {m \in Range(mons) : Holds(m, w.at, w.width)})
           m == IF under = None THEN Primary(mons) ELSE under
<1>1. m = None \/ \E i \in DOMAIN mons : m = mons[i]
  BY FirstOfFits DEF Primary
<1>2. CASE m = None
  <2>1. Primary(mons) = None /\ LayoutFromWindow(mons, w, md) = None
    BY <1>2 DEF LayoutFromWindow
  <2>2. \A i \in DOMAIN mons : mons[i] \in Monitors
    OBVIOUS
  <2> QED
    BY <2>1, <2>2, PrimaryOfValid, DesktopAssumption
<1>3. ASSUME NEW i \in DOMAIN mons, m = mons[i] PROVE
         LET row == LayoutFromWindow(mons, w, md) IN
         row \in Layouts /\ mons[i].key = row.key /\ w.at = mons[i].left + row.at
  <2>1. mons[i] \in Monitors /\ mons[i] # None
    BY DesktopAssumption
  <2>2. LayoutFromWindow(mons, w, md) =
           [key |-> mons[i].key, at |-> w.at - mons[i].left, width |-> w.width, mode |-> md]
    BY <1>3, <2>1 DEF LayoutFromWindow
  <2>3. mons[i].left \in Int /\ mons[i].key \in STRING
    BY <2>1 DEF Monitors
  <2> QED
    BY <2>2, <2>3 DEF Layouts
<1> QED
  BY <1>1, <1>2, <1>3

\* What a handler counts as failed.
Mishaps == {"enumerate", "move", "through", "save", "role", "hotkey", "tray"}

LEMMA FailCounts ==
    ASSUME mishaps \in Nat, NEW bad \in SUBSET Mishaps, Fail(bad)
    PROVE  mishaps' \in Nat /\ (mishaps' = 0 => mishaps = 0 /\ bad = {})
<1>1. IsFiniteSet(Mishaps)
  <2>1. \A S, x : IsFiniteSet(S) => IsFiniteSet(S \cup {x})
    BY FS_AddElement
  <2>2. IsFiniteSet({} \cup {"enumerate"} \cup {"move"} \cup {"through"} \cup {"save"})
    BY ONLY <2>1, FS_EmptySet, Zenon
  <2>3. IsFiniteSet({} \cup {"enumerate"} \cup {"move"} \cup {"through"} \cup {"save"}
                       \cup {"role"} \cup {"hotkey"} \cup {"tray"})
    BY ONLY <2>1, <2>2, Zenon
  <2>4. Mishaps = {} \cup {"enumerate"} \cup {"move"} \cup {"through"} \cup {"save"}
                     \cup {"role"} \cup {"hotkey"} \cup {"tray"}
    BY DEF Mishaps
  <2> QED
    BY ONLY <2>3, <2>4
<1>2. IsFiniteSet(bad) /\ Cardinality(bad) \in Nat
  BY <1>1, FS_Subset, FS_CardinalityType
<1>3. mishaps' = mishaps + Cardinality(bad)
  BY DEF Fail
<1>4. mishaps' = 0 => mishaps = 0 /\ Cardinality(bad) = 0
  BY <1>2, <1>3
<1> QED
  BY <1>2, <1>3, <1>4, FS_EmptySet

\* Where the window is put: it stays, or it is as the saved layout says.
LEMMA PlacedAt ==
    ASSUME WayBack, PlaceTypes, snapshot' \in Lists, NEW bad
    PROVE  /\ Placed(bad).at \in Int /\ Placed(bad).width \in Nat
           /\ Placed(bad).up = window.up /\ Placed(bad).shown = window.shown
           /\ Placed(bad).at # window.at =>
                 \E i \in DOMAIN snapshot' :
                    /\ snapshot'[i].left <= Placed(bad).at
                    /\ Placed(bad).at + Placed(bad).width <= snapshot'[i].left + snapshot'[i].width
<1> DEFINE place == IF store /\ layout # None THEN RecoverLayout(layout, snapshot') ELSE None
<1>1. CASE place = None
  BY <1>1 DEF Placed, PlaceTypes
<1>2. CASE place # None
  <2>1. snapshot' \in Seq(Monitors) /\ layout \in Layouts /\ RecoverLayout(layout, snapshot') # None
    BY <1>2, ListsAreSequences DEF PlaceTypes
  <2>2. PICK at \in Int, width \in Nat :
          /\ place = [at |-> at, width |-> width]
          /\ \E i \in DOMAIN snapshot' :
                /\ snapshot'[i].left <= at
                /\ at + width <= snapshot'[i].left + snapshot'[i].width
    BY <1>2, <2>1, RecoveredFits
  <2>3. Placed(bad) = [window EXCEPT !.at = IF "move" \in bad THEN @ ELSE place.at,
                                     !.width = place.width]
    BY <1>2 DEF Placed
  <2>4. place.at = at /\ place.width = width
    BY <2>2
  <2>5. /\ Placed(bad).at = IF "move" \in bad THEN window.at ELSE at
        /\ Placed(bad).width = width
        /\ Placed(bad).up = window.up /\ Placed(bad).shown = window.shown
    <3> HIDE DEF place
    <3> QED
      BY <2>3, <2>4 DEF WayBack, WindowShape, WindowFields
  <2> QED
    BY <2>2, <2>5 DEF PlaceTypes
<1> QED
  BY <1>1, <1>2

LEMMA EnumeratedIsList ==
    ASSUME PlaceTypes, NEW bad PROVE EnumerateMonitors(bad) \in Lists
  BY DEF PlaceTypes, EnumerateMonitors, Lists

\* set_click_through moves nothing.
LEMMA ModeAppliedAt ==
    ASSUME NEW w, w = [f \in WindowFields |-> w[f]], NEW md, NEW able, NEW bad
    PROVE  /\ ModeApplied(w, md, able, bad).at = w.at
           /\ ModeApplied(w, md, able, bad).width = w.width
           /\ ModeApplied(w, md, able, bad).up = w.up
           /\ ModeApplied(w, md, able, bad).shown = w.shown
  BY DEF ModeApplied, WindowFields

\* Where a restore leaves the window, its mode applied or not.
LEMMA RestoredAt ==
    ASSUME WayBack, PlaceTypes, RestoreTick \/ Focus
    PROVE  /\ snapshot' \in Lists
           /\ \E bad \in SUBSET {"enumerate", "move", "through"} :
                /\ Fail(bad) /\ RestorePlace(bad)
                /\ window'.at = Placed(bad).at /\ window'.width = Placed(bad).width
                /\ window'.up = Placed(bad).up /\ window'.shown = Placed(bad).shown
<1>1. PICK bad \in SUBSET {"enumerate", "move", "through"} :
         /\ Fail(bad) /\ RestorePlace(bad)
         /\ \/ window' = Placed(bad)
            \/ \E md \in {mode, mode'} : window' = ModeApplied(Placed(bad), md, supported, bad)
  BY DEF RestoreTick, Focus
<1>2. snapshot' \in Lists
  BY <1>1, EnumeratedIsList DEF RestorePlace
<1>3. CASE window' = Placed(bad)
  BY <1>1, <1>2, <1>3
<1>4. ASSUME NEW md, window' = ModeApplied(Placed(bad), md, supported, bad)
      PROVE  /\ window'.at = Placed(bad).at /\ window'.width = Placed(bad).width
             /\ window'.up = Placed(bad).up /\ window'.shown = Placed(bad).shown
  <2>1. Placed(bad) = [f \in WindowFields |-> Placed(bad)[f]]
    BY PlacedShape
  <2> QED
    BY <1>4, <2>1, ModeAppliedAt
<1> QED
  BY <1>1, <1>2, <1>3, <1>4

\* What a save leaves in the table says where the window is, as far as the list
\* of monitors allows to say it.
LEMMA SavedRow ==
    ASSUME PlaceTypes, NEW md \in {"edit", "show"}, NEW bad
    PROVE  /\ Saved(md, bad) \in Layouts \cup {None}
           /\ store /\ window.up /\ machine.platform # "wayland" /\ bad = {} =>
                 Agrees(Saved(md, bad), window, snapshot)
<1> DEFINE row == LayoutFromWindow(snapshot, window, md)
<1>1. \/ row \in Layouts /\ \E i \in DOMAIN snapshot : snapshot[i].key = row.key
                                                       /\ window.at = snapshot[i].left + row.at
      \/ row = None /\ ~ValidTopology(snapshot)
  BY RowOfWindow, ListsAreSequences DEF PlaceTypes
<1>2. Saved(md, bad) \in {row, layout}
  BY DEF Saved, SaveLayout
<1>3. CASE row # None
  <2>1. store /\ window.up /\ machine.platform # "wayland" /\ bad = {} => Saved(md, bad) = row
    BY <1>3 DEF Saved, SaveLayout
  <2> QED
    BY <1>1, <1>2, <1>3, <2>1 DEF PlaceTypes, Agrees
<1>4. CASE row = None
  <2>1. Saved(md, bad) = layout
    BY <1>4 DEF Saved, SaveLayout
  <2>2. ~ValidTopology(snapshot)
    BY <1>1, <1>4, DesktopAssumption
  <2> QED
    BY <2>1, <2>2 DEF PlaceTypes, Agrees, RecoverLayout
<1> QED
  BY <1>3, <1>4

LEMMA GonePlaceTypes ==
    ASSUME PlaceTypes, Crash \/ Shutdown \/ TrayExit
    PROVE  PlaceTypes'
<1>1. /\ UNCHANGED attached /\ snapshot' = <<>> /\ window' = NoWindow /\ mode' = "edit" /\ moves' = <<>>
  BY DEF Crash, Shutdown, TrayExit, Gone
<1>2. layout' \in Layouts \cup {None}
  BY SavedRow DEF PlaceTypes, Crash, Shutdown, TrayExit
<1>3. mishaps' \in Nat
  <2>1. SUBSET {"save"} \subseteq SUBSET Mishaps
    BY DEF Mishaps
  <2> QED
    BY <2>1, FailCounts DEF PlaceTypes, Crash, Shutdown, TrayExit
<1>4. NoWindow.at \in Int /\ NoWindow.width \in Nat
  BY DesktopAssumption DEF NoWindow
<1>5. <<>> \in Lists /\ <<>> \in Seq(Causes)
  BY DEF Lists
<1> QED
  BY <1>1, <1>2, <1>3, <1>4, <1>5 DEF PlaceTypes

LEMMA StartedPlaceTypes ==
    ASSUME PlaceTypes, Launch \/ MigrateHost \/ Start \/ SetupTick
    PROVE  PlaceTypes'
<1>1. /\ UNCHANGED <<attached, window, layout, moves>>
      /\ snapshot' \in {snapshot, <<>>} /\ mode' \in {mode, "edit"}
  BY DEF Launch, MigrateHost, Start, SetupTick, desktopVars, hostVars
<1>2. mishaps' \in Nat
  <2>1. SUBSET {"role", "hotkey", "tray"} \subseteq SUBSET Mishaps
    BY DEF Mishaps
  <2>2. UNCHANGED mishaps \/ \E bad \in SUBSET {"role", "hotkey", "tray"} : Fail(bad)
    BY DEF Launch, MigrateHost, Start, SetupTick, desktopVars
  <2> QED
    BY <2>1, <2>2, FailCounts DEF PlaceTypes
<1> QED
  BY <1>1, <1>2 DEF PlaceTypes, Lists

LEMMA CreatedPlaceTypes ==
    ASSUME PlaceTypes, WindowCreated
    PROVE  PlaceTypes'
<1>1. UNCHANGED <<attached, snapshot, layout, mode, mishaps>>
  BY DEF WindowCreated, hostVars
<1>2. PICK at \in Positions : window' = [NoWindow EXCEPT !.up = TRUE, !.shown = TRUE, !.at = at]
  BY DEF WindowCreated
<1>3. window'.at \in Int /\ window'.width \in Nat
  BY <1>2, DesktopAssumption DEF NoWindow
<1>4. PICK n \in 0..1 : moves' = [i \in 1..n |-> "system"]
  BY DEF WindowCreated
<1>5. moves' \in Seq(Causes)
  <2>1. n \in Nat /\ "system" \in Causes
    BY DEF Causes
  <2>2. [i \in 1..n |-> "system"] \in Seq(Causes)
    BY ONLY <2>1
  <2> QED
    BY <1>4, <2>2
<1> QED
  BY <1>1, <1>3, <1>5 DEF PlaceTypes

LEMMA RestoredPlaceTypes ==
    ASSUME WayBack, PlaceTypes, RestoreTick \/ Focus
    PROVE  PlaceTypes'
<1>1. UNCHANGED <<attached, layout>>
  BY DEF RestoreTick, Focus
<1>2. PICK bad \in SUBSET {"enumerate", "move", "through"} :
         /\ Fail(bad) /\ RestorePlace(bad)
         /\ window'.at = Placed(bad).at /\ window'.width = Placed(bad).width
  BY RestoredAt
<1>3. snapshot' \in Lists /\ window'.at \in Int /\ window'.width \in Nat
  BY <1>2, RestoredAt, PlacedAt
<1>4. mishaps' \in Nat
  <2>1. bad \in SUBSET Mishaps
    BY DEF Mishaps
  <2> QED
    BY <1>2, <2>1, FailCounts DEF PlaceTypes
<1>5. moves' \in Seq(Causes)
  <2>1. moves' = moves \/ moves' = Append(moves, "restore")
    BY <1>2 DEF RestorePlace
  <2>2. moves \in Seq(Causes) /\ "restore" \in Causes
    BY DEF PlaceTypes, Causes
  <2> QED
    BY ONLY <2>1, <2>2
<1>6. mode' \in {"edit", "show"}
  <2>1. layout # None => layout.mode \in {"edit", "show"}
    BY DEF PlaceTypes, Layouts
  <2> QED
    BY <2>1 DEF PlaceTypes, RestoreTick, Focus
<1> QED
  BY <1>1, <1>3, <1>4, <1>5, <1>6 DEF PlaceTypes

LEMMA ChangedPlaceTypes ==
    ASSUME WayBack, PlaceTypes, NEW md \in {"edit", "show"}, NEW saves \in BOOLEAN,
           ChangeMode(md, saves)
    PROVE  /\ PlaceTypes'
           /\ window'.at = window.at /\ window'.width = window.width
           /\ window'.up = window.up /\ window'.shown = window.shown
<1>1. UNCHANGED <<attached, snapshot, moves>> /\ mode' = md
  BY DEF ChangeMode
<1>2. PICK bad \in SUBSET {"through", "save"} :
         /\ Fail(bad)
         /\ window' = ModeApplied(window, md, supported, bad)
         /\ layout' = IF saves THEN Saved(md, bad) ELSE layout
  BY DEF ChangeMode
<1>3. /\ window'.at = window.at /\ window'.width = window.width
      /\ window'.up = window.up /\ window'.shown = window.shown
  BY <1>2, ModeAppliedAt DEF WayBack, WindowShape
<1>4. layout' \in Layouts \cup {None}
  BY <1>2, SavedRow DEF PlaceTypes
<1>5. mishaps' \in Nat
  <2>1. bad \in SUBSET Mishaps
    BY DEF Mishaps
  <2> QED
    BY <1>2, <2>1, FailCounts DEF PlaceTypes
<1> QED
  BY <1>1, <1>3, <1>4, <1>5 DEF PlaceTypes

LEMMA HandledPlaceTypes ==
    ASSUME WayBack, PlaceTypes,
           \/ Drag \/ PressHandle \/ DragHandle \/ ReleaseHandle
           \/ Moved \/ CloseRequested \/ DeleteClicked \/ TopologyChanges
    PROVE  PlaceTypes'
<1>1. UNCHANGED <<snapshot, mode>> /\ attached' \in {attached} \cup Topologies
  BY DEF Drag, PressHandle, DragHandle, ReleaseHandle, Moved, CloseRequested, DeleteClicked,
         TopologyChanges, Unmoved, hostVars
<1>2. layout' \in Layouts \cup {None}
  BY SavedRow DEF PlaceTypes, Drag, PressHandle, DragHandle, ReleaseHandle, Moved, CloseRequested,
         DeleteClicked, TopologyChanges
<1>3. mishaps' \in Nat
  <2>1. SUBSET {"save"} \subseteq SUBSET Mishaps
    BY DEF Mishaps
  <2>2. UNCHANGED mishaps \/ \E bad \in SUBSET {"save"} : Fail(bad)
    BY DEF Drag, PressHandle, DragHandle, ReleaseHandle, Moved, CloseRequested, DeleteClicked,
           TopologyChanges
  <2> QED
    BY <2>1, <2>2, FailCounts DEF PlaceTypes
<1>4. window'.at \in Int /\ window'.width \in Nat
  <2>1. \/ window' = window
        \/ \E at \in Positions : window' = [window EXCEPT !.at = at]
        \/ \E requested \in (MinWidth - 1)..(MaxWidth + 1) :
              window' = [window EXCEPT !.width = Clamp(requested, MinWidth, MaxWidth)]
        \/ window' = [window EXCEPT !.shown = FALSE]
    BY DEF Drag, PressHandle, DragHandle, ReleaseHandle, Moved, CloseRequested, DeleteClicked,
           TopologyChanges, Unmoved, Hidden
  <2>2. \A at \in Positions : at \in Int
    BY DesktopAssumption
  <2>3. \A requested \in (MinWidth - 1)..(MaxWidth + 1) : Clamp(requested, MinWidth, MaxWidth) \in Nat
    <3>1. MinWidth \in Nat \ {0} /\ MaxWidth \in Nat \ {0}
      BY DesktopAssumption
    <3> QED
      BY <3>1 DEF Clamp
  <2>4. window.at \in Int /\ window.width \in Nat
    BY DEF PlaceTypes
  <2> QED
    BY <2>1, <2>2, <2>3, <2>4 DEF WayBack, WindowShape, WindowFields
<1>5. moves' \in Seq(Causes)
  <2>1. \/ moves' = moves \/ (moves # <<>> /\ moves' = Tail(moves))
        \/ moves' = Append(moves, "user") \/ moves' = Append(moves, "system")
    BY DEF Drag, PressHandle, DragHandle, ReleaseHandle, Moved, CloseRequested, DeleteClicked,
           TopologyChanges, Unmoved
  <2>2. moves \in Seq(Causes) /\ "user" \in Causes /\ "system" \in Causes
    BY DEF PlaceTypes, Causes
  <2> QED
    BY ONLY <2>1, <2>2
<1> QED
  BY <1>1, <1>2, <1>3, <1>4, <1>5 DEF PlaceTypes

LEMMA PlaceTypesStep ==
    ASSUME WayBack, PlaceTypes, [Next]_vars PROVE PlaceTypes'
<1>1. CASE Launch \/ MigrateHost \/ Start \/ SetupTick
  BY <1>1, StartedPlaceTypes
<1>2. CASE Crash \/ Shutdown \/ TrayExit
  BY <1>2, GonePlaceTypes
<1>3. CASE WindowCreated
  BY <1>3, CreatedPlaceTypes
<1>4. CASE RestoreTick \/ Focus
  BY <1>4, RestoredPlaceTypes
<1>5. CASE HotkeyPressed \/ ShowButton \/ Escape
  BY <1>5, ChangedPlaceTypes DEF HotkeyPressed, ShowButton, Escape
<1>6. CASE \/ Drag \/ PressHandle \/ DragHandle \/ ReleaseHandle
           \/ Moved \/ CloseRequested \/ DeleteClicked \/ TopologyChanges
  BY <1>6, HandledPlaceTypes
<1>7. CASE UNCHANGED vars
  BY <1>7 DEF vars, desktopVars, hostVars, PlaceTypes
<1> QED
  BY <1>1, <1>2, <1>3, <1>4, <1>5, <1>6, <1>7 DEF Next, User

LEMMA PlaceTypesAlways == Spec => []PlaceTypes
<1>1. Init => PlaceTypes
  <2>1. 0 \in Int /\ Width \in Nat
    BY DesktopAssumption
  <2> QED
    BY <2>1 DEF Init, PlaceTypes, NoWindow, Lists
<1>2. PlaceTypes /\ WayBack /\ [Next]_vars => PlaceTypes'
  BY PlaceTypesStep
<1> QED
  BY <1>1, <1>2, WayBackAlways, PTL DEF Spec

\* Whatever was saved and however the monitors changed since, what the host
\* moves itself is put wholly on a monitor that is there
\* (recover_layout_on_topology, place_on_monitor).
THEOREM AlwaysOnMonitor == Spec => RestoredOnMonitor
<1>1. WayBack /\ PlaceTypes /\ [Next]_vars =>
         [(RestoreTick \/ Focus) /\ window'.at # window.at =>
            \E i \in DOMAIN snapshot' :
               LET m == snapshot'[i] IN
               m.left <= window'.at /\ window'.at + window'.width <= m.left + m.width]_vars
  <2> SUFFICES ASSUME WayBack, PlaceTypes, RestoreTick \/ Focus, window'.at # window.at
               PROVE  \E i \in DOMAIN snapshot' :
                         /\ snapshot'[i].left <= window'.at
                         /\ window'.at + window'.width <= snapshot'[i].left + snapshot'[i].width
    OBVIOUS
  <2>1. PICK bad : window'.at = Placed(bad).at /\ window'.width = Placed(bad).width
    BY RestoredAt
  <2> QED
    BY <2>1, RestoredAt, PlacedAt
<1> QED
  BY <1>1, WayBackAlways, PlaceTypesAlways, PTL DEF Spec, RestoredOnMonitor
-----------------------------------------------------------------------------
(***************************************************************************)
(* The saved layout and the window.  A restore sets its flag only together *)
(* with a Moved event of its own, so that the flag, when a single event is *)
(* left, belongs to a window that is where its layout puts it.             *)
(***************************************************************************)
Settles ==
    /\ phase = "running" /\ window.shown /\ store /\ layout # None /\ snapshot # <<>>
    /\ ~restoring /\ ~resizing
    /\ moves = <<>> \/ (suppress /\ Len(moves) = 1)
    => Agrees(layout, window, snapshot)

Calm ==
    /\ machine.platform = "wayland" => snapshot = <<>>
    /\ window.shown => window.up
    /\ phase = "running" /\ ~window.up => restoring
    /\ mishaps = 0 =>
          /\ suppress => moves # <<>>
          /\ ~window.up => moves = <<>>
          /\ Settles

\* Only where the window is matters to its layout.
LEMMA AgreesByPlace ==
    ASSUME NEW row, NEW w, NEW v, NEW mons, v.at = w.at, v.width = w.width,
           Agrees(row, w, mons)
    PROVE  Agrees(row, v, mons)
  BY DEF Agrees

LEMMA GoneCalm ==
    ASSUME Crash \/ Shutdown \/ TrayExit
    PROVE  Calm'
<1>1. /\ snapshot' = <<>> /\ phase' = "down" /\ suppress' = FALSE /\ moves' = <<>>
      /\ window' = NoWindow
  BY DEF Crash, Shutdown, TrayExit, Gone
<1> QED
  BY <1>1 DEF Calm, Settles, NoWindow

LEMMA StartedCalm ==
    ASSUME PlaceTypes, Calm, Launch \/ MigrateHost \/ Start \/ SetupTick
    PROVE  Calm'
<1>1. CASE Launch
  BY <1>1 DEF Launch, Calm, Settles
<1>2. CASE MigrateHost
  BY <1>2 DEF MigrateHost, desktopVars, hostVars, Calm, Settles
<1>3. CASE Start
  BY <1>3 DEF Start, Calm, Settles
<1>4. CASE SetupTick
  <2>1. UNCHANGED <<machine, phase, snapshot, store, layout, window, resizing, moves, suppress,
                    restoring>>
    BY <1>4 DEF SetupTick
  <2>2. mishaps' = 0 => mishaps = 0
    <3>1. SUBSET {"role", "hotkey", "tray"} \subseteq SUBSET Mishaps
      BY DEF Mishaps
    <3>2. UNCHANGED mishaps \/ \E bad \in SUBSET {"role", "hotkey", "tray"} : Fail(bad)
      BY <1>4 DEF SetupTick
    <3> QED
      BY <3>1, <3>2, FailCounts DEF PlaceTypes
  <2> QED
    BY <2>1, <2>2 DEF Calm, Settles, Agrees
<1> QED
  BY <1>1, <1>2, <1>3, <1>4

\* A new window waits for its first restore.
LEMMA CreatedCalm ==
    ASSUME Calm, WindowCreated
    PROVE  Calm'
<1>1. /\ UNCHANGED <<machine, phase, snapshot, store, restoring, layout, suppress, mishaps>>
      /\ phase = "running" /\ ~window.up
  BY DEF WindowCreated, hostVars, Running
<1>2. restoring /\ (mishaps = 0 => ~suppress)
  BY <1>1 DEF Calm
<1>3. window'.up
  BY DEF WindowCreated, NoWindow
<1> QED
  BY <1>1, <1>2, <1>3 DEF Calm, Settles

\* A restore leaves the window where its layout says, and its flag with an event.
LEMMA RestoredCalm ==
    ASSUME WayBack, PlaceTypes, Calm, RestoreTick \/ Focus
    PROVE  Calm'
<1>1. /\ UNCHANGED <<machine, phase, store, layout, resizing>> /\ window.up
      /\ restoring' \in {restoring, FALSE}
  BY DEF RestoreTick, Focus, Calm
<1>2. PICK bad \in SUBSET {"enumerate", "move", "through"} :
         /\ Fail(bad) /\ RestorePlace(bad)
         /\ window'.at = Placed(bad).at /\ window'.width = Placed(bad).width
         /\ window'.up = Placed(bad).up /\ window'.shown = Placed(bad).shown
  BY RestoredAt
<1>3. snapshot' \in Lists /\ window'.up = window.up /\ window'.shown = window.shown
  BY <1>2, RestoredAt, PlacedAt
<1>4. machine.platform = "wayland" => snapshot' = <<>>
  BY <1>2 DEF RestorePlace, EnumerateMonitors
<1>5. ASSUME mishaps' = 0
      PROVE  /\ suppress' => moves' # <<>>
             /\ store /\ layout # None => Agrees(layout, window', snapshot')
  <2>1. mishaps = 0 /\ bad = {}
    <3>1. bad \in SUBSET Mishaps
      BY DEF Mishaps
    <3> QED
      BY <1>2, <1>5, <3>1, FailCounts DEF PlaceTypes
  <2> DEFINE place == IF store /\ layout # None THEN RecoverLayout(layout, snapshot') ELSE None
  <2>2. /\ suppress' = (suppress \/ (place # None /\ NeedsMove(place)))
        /\ IF Placed(bad).at # window.at THEN moves' = Append(moves, "restore") ELSE moves' = moves
    BY <1>2 DEF RestorePlace
  <2>3. moves \in Seq(Causes) /\ (suppress => moves # <<>>)
    BY <2>1 DEF Calm, PlaceTypes
  <2>4. Append(moves, "restore") # <<>>
    BY <2>3
  <2>5. CASE place = None
    <3>1. store /\ layout # None => RecoverLayout(layout, snapshot') = None
      BY <2>5
    <3>2. ~(place # None /\ NeedsMove(place))
      BY <2>5
    <3> QED
      BY <2>2, <2>3, <2>4, <3>1, <3>2 DEF Agrees
  <2>6. CASE place # None
    <3>1. /\ store /\ layout # None /\ place = RecoverLayout(layout, snapshot')
          /\ snapshot' \in Seq(Monitors) /\ layout \in Layouts
      BY <1>3, <2>6, ListsAreSequences DEF PlaceTypes
    <3>2. PICK at \in Int, width \in Nat : place = [at |-> at, width |-> width]
      BY <2>6, <3>1, RecoveredFits
    <3>3. place.at = at /\ place.width = width
      BY <3>2
    <3>4. Placed(bad).at = at /\ Placed(bad).width = width
      <4>1. Placed(bad) = [window EXCEPT !.at = place.at, !.width = place.width]
        BY <2>1, <2>6 DEF Placed
      <4> HIDE DEF place
      <4> QED
        BY <3>3, <4>1 DEF WayBack, WindowShape, WindowFields
    <3>5. Agrees(layout, window', snapshot')
      BY <1>2, <3>1, <3>2, <3>4 DEF Agrees
    <3>6. NeedsMove(place) => moves' = Append(moves, "restore")
      BY <2>2, <3>3, <3>4 DEF NeedsMove
    <3> QED
      BY <2>2, <2>3, <2>4, <3>5, <3>6
  <2> QED
    BY <2>5, <2>6
<1> QED
  BY <1>1, <1>3, <1>4, <1>5 DEF Calm, Settles

\* A mode change saves the place the window has.
LEMMA ChangedCalm ==
    ASSUME WayBack, PlaceTypes, Calm, NEW md \in {"edit", "show"}, NEW saves \in BOOLEAN,
           ChangeMode(md, saves)
    PROVE  Calm'
<1>1. UNCHANGED <<machine, phase, snapshot, store, restoring, resizing, moves, suppress>>
  BY DEF ChangeMode
<1>2. PICK bad \in SUBSET {"through", "save"} :
         Fail(bad) /\ layout' = IF saves THEN Saved(md, bad) ELSE layout
  BY DEF ChangeMode
<1>3. /\ window'.at = window.at /\ window'.width = window.width
      /\ window'.up = window.up /\ window'.shown = window.shown
  BY ChangedPlaceTypes
<1>4. mishaps' = 0 => mishaps = 0 /\ bad = {}
  <2>1. bad \in SUBSET Mishaps
    BY DEF Mishaps
  <2> QED
    BY <1>2, <2>1, FailCounts DEF PlaceTypes
<1>5. ASSUME mishaps' = 0, window.shown, store, snapshot # <<>>, saves
      PROVE  Agrees(layout', window, snapshot)
  BY <1>2, <1>4, <1>5, SavedRow DEF Calm
<1>6. ASSUME mishaps' = 0 PROVE Settles'
  <2> SUFFICES ASSUME phase = "running", window.shown, store, layout' # None, snapshot # <<>>,
                      ~restoring, ~resizing, moves = <<>> \/ (suppress /\ Len(moves) = 1)
               PROVE  Agrees(layout', window', snapshot)
    BY <1>1, <1>3 DEF Settles
  <2>1. Agrees(layout', window, snapshot)
    BY <1>2, <1>4, <1>5, <1>6 DEF Calm, Settles
  <2> QED
    BY <1>3, <2>1, AgreesByPlace
<1> QED
  BY <1>1, <1>3, <1>4, <1>6 DEF Calm

\* An event saves the place the window has, unless it is the restore's own.
LEMMA MovedCalm ==
    ASSUME PlaceTypes, Calm, Moved
    PROVE  Calm'
<1>1. UNCHANGED <<machine, phase, snapshot, store, mode, restoring, window, resizing>>
      /\ window.up /\ moves # <<>> /\ moves' = Tail(moves) /\ suppress' = FALSE
  BY DEF Moved, Unmoved, hostVars
<1>2. PICK bad \in SUBSET {"save"} :
         Fail(bad) /\ layout' = IF suppress THEN layout ELSE Saved(mode, bad)
  BY DEF Moved
<1>3. mishaps' = 0 => mishaps = 0 /\ bad = {}
  <2>1. bad \in SUBSET Mishaps
    BY DEF Mishaps
  <2> QED
    BY <1>2, <2>1, FailCounts DEF PlaceTypes
<1>4. moves' = <<>> => Len(moves) = 1
  <2>1. moves \in Seq(Causes) /\ moves # <<>> /\ moves' = Tail(moves)
    BY <1>1 DEF PlaceTypes
  <2>2. Len(Tail(moves)) = Len(moves) - 1 /\ Len(moves) \in Nat
    BY ONLY <2>1
  <2>3. Tail(moves) = <<>> => Len(Tail(moves)) = 0
    <3>1. \A s : s = <<>> => Len(s) = 0
      BY ONLY TRUE
    <3> QED
      BY ONLY <3>1
  <2>4. Tail(moves) = <<>> => Len(moves) = 1
    BY ONLY <2>2, <2>3
  <2> QED
    BY ONLY <2>1, <2>4
<1>5. ASSUME mishaps' = 0, phase = "running", window.shown, store, layout' # None,
             snapshot # <<>>, ~restoring, ~resizing, moves' = <<>>
      PROVE  Agrees(layout', window, snapshot)
  <2>1. CASE suppress
    BY <1>2, <1>3, <1>4, <1>5, <2>1 DEF Calm, Settles
  <2>2. CASE ~suppress
    <3>1. layout' = Saved(mode, bad) /\ bad = {} /\ mode \in {"edit", "show"}
      BY <1>2, <1>3, <1>5, <2>2 DEF PlaceTypes
    <3> QED
      BY <1>1, <1>5, <3>1, SavedRow DEF Calm
  <2> QED
    BY <2>1, <2>2
<1>6. mishaps' = 0 => Settles'
  BY <1>1, <1>5 DEF Settles
<1> QED
  BY <1>1, <1>3, <1>6 DEF Calm

\* The other handlers save, resize, hide, or add an event of their own.
LEMMA HandledCalm ==
    ASSUME WayBack, PlaceTypes, Calm,
           \/ Drag \/ PressHandle \/ DragHandle \/ ReleaseHandle
           \/ CloseRequested \/ DeleteClicked \/ TopologyChanges
    PROVE  Calm'
<1>1. UNCHANGED <<machine, phase, snapshot, store, mode, restoring, suppress>>
  BY DEF Drag, PressHandle, DragHandle, ReleaseHandle, CloseRequested, DeleteClicked,
         TopologyChanges, Unmoved, hostVars
<1>2. mishaps' = 0 => mishaps = 0
  <2>1. SUBSET {"save"} \subseteq SUBSET Mishaps
    BY DEF Mishaps
  <2>2. UNCHANGED mishaps \/ \E bad \in SUBSET {"save"} : Fail(bad)
    BY DEF Drag, PressHandle, DragHandle, ReleaseHandle, CloseRequested, DeleteClicked,
           TopologyChanges
  <2> QED
    BY <2>1, <2>2, FailCounts DEF PlaceTypes
<1>3. CASE \/ Drag
           \/ TopologyChanges /\ moves' # moves
  <2>1. /\ UNCHANGED <<layout, resizing>> /\ window'.up = window.up /\ window'.shown = window.shown
        /\ window.shown
    BY <1>3 DEF Drag, TopologyChanges, Handled, WayBack, WindowShape, WindowFields
  <2>2. moves \in Seq(Causes) /\ \E cause \in Causes : moves' = Append(moves, cause)
    BY <1>3 DEF Drag, TopologyChanges, PlaceTypes, Causes
  <2>3. moves' # <<>> /\ (Len(moves') = 1 => moves = <<>>)
    BY <2>2
  <2> QED
    BY <1>1, <1>2, <2>1, <2>3 DEF Calm, Settles
<1>4. CASE TopologyChanges /\ moves' = moves
  <2>1. UNCHANGED <<layout, resizing, window, moves>>
    <3>1. moves \in Seq(Causes) /\ "system" \in Causes
      BY DEF PlaceTypes, Causes
    <3>2. Append(moves, "system") # moves
      BY <3>1
    <3> QED
      BY <1>4, <3>2 DEF TopologyChanges
  <2> QED
    BY <1>1, <1>2, <2>1 DEF Calm, Settles, Agrees
<1>5. CASE PressHandle \/ DragHandle
  <2>1. /\ UNCHANGED moves /\ window'.up = window.up /\ window'.shown = window.shown
        /\ resizing'
    BY <1>5 DEF PressHandle, DragHandle, WayBack, WindowShape, WindowFields
  <2> QED
    BY <1>1, <1>2, <2>1 DEF Calm, Settles
<1>6. CASE ReleaseHandle
  <2>1. UNCHANGED <<window, moves>> /\ window.up
    BY <1>6 DEF ReleaseHandle, Calm
  <2>2. PICK bad \in SUBSET {"save"} : Fail(bad) /\ layout' = Saved(mode, bad)
    BY <1>6 DEF ReleaseHandle
  <2>3. mishaps' = 0 => bad = {}
    <3>1. bad \in SUBSET Mishaps
      BY DEF Mishaps
    <3> QED
      BY <2>2, <3>1, FailCounts DEF PlaceTypes
  <2>4. mode \in {"edit", "show"}
    BY DEF PlaceTypes
  <2>5. mishaps' = 0 /\ store /\ snapshot # <<>> => Agrees(layout', window, snapshot)
    BY <2>1, <2>2, <2>3, <2>4, SavedRow DEF Calm
  <2>6. mishaps' = 0 => Settles'
    BY <1>1, <2>1, <2>5 DEF Settles
  <2> QED
    BY <1>1, <1>2, <2>1, <2>6 DEF Calm
<1>7. CASE CloseRequested \/ DeleteClicked
  <2>1. UNCHANGED moves /\ window'.up = window.up /\ window'.shown = FALSE
    BY <1>7 DEF CloseRequested, DeleteClicked, Hidden, WayBack, WindowShape, WindowFields
  <2> QED
    BY <1>1, <1>2, <2>1 DEF Calm, Settles
<1> QED
  BY <1>3, <1>4, <1>5, <1>6, <1>7

LEMMA CalmStep ==
    ASSUME WayBack, PlaceTypes, Calm, [Next]_vars PROVE Calm'
<1>1. CASE Launch \/ MigrateHost \/ Start \/ SetupTick
  BY <1>1, StartedCalm
<1>2. CASE Crash \/ Shutdown \/ TrayExit
  BY <1>2, GoneCalm
<1>3. CASE WindowCreated
  BY <1>3, CreatedCalm
<1>4. CASE RestoreTick \/ Focus
  BY <1>4, RestoredCalm
<1>5. CASE HotkeyPressed \/ ShowButton \/ Escape
  BY <1>5, ChangedCalm DEF HotkeyPressed, ShowButton, Escape
<1>6. CASE Moved
  BY <1>6, MovedCalm
<1>7. CASE \/ Drag \/ PressHandle \/ DragHandle \/ ReleaseHandle
           \/ CloseRequested \/ DeleteClicked \/ TopologyChanges
  BY <1>7, HandledCalm
<1>8. CASE UNCHANGED vars
  BY <1>8 DEF vars, desktopVars, hostVars, Calm, Settles, Agrees
<1> QED
  BY <1>1, <1>2, <1>3, <1>4, <1>5, <1>6, <1>7, <1>8 DEF Next, User

\* Once every Moved event is handled and nothing failed, the saved layout is where
\* the window is: the flag of a restore never swallows a user's drag
\* (schedule_layout_restore, handle_moved).
THEOREM AlwaysSettles == Spec => []Settled
<1>1. Init => Calm
  BY DEF Init, Calm, Settles, NoWindow
<1>2. WayBack /\ PlaceTypes /\ Calm /\ [Next]_vars => Calm'
  BY CalmStep
<1>3. Calm => Settled
  BY DEF Calm, Settles, Settled
<1> QED
  BY <1>1, <1>2, <1>3, WayBackAlways, PlaceTypesAlways, PTL DEF Spec
=============================================================================
