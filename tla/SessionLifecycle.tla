--------------------------- MODULE SessionLifecycle ---------------------------
(***************************************************************************)
(* What a runtime session lets the supervisor see of a widget, whatever    *)
(* threads, channels and guest calls it takes: it is running only once the *)
(* guest has accepted its start, it ends once, and it is stopped only when *)
(* that was asked for and the guest is gone.                               *)
(***************************************************************************)
VARIABLES
    life,    \* "starting", "running", "failed" or "stopped"
    guest,   \* "new", "up" once it has accepted start, or "gone"
    asked    \* the session has been dropped by its owner

vars == <<life, guest, asked>>

Init == life = "starting" /\ guest = "new" /\ asked = FALSE

GuestStarts == guest = "new" /\ guest' = "up" /\ UNCHANGED <<life, asked>>

GuestEnds == guest # "gone" /\ guest' = "gone" /\ UNCHANGED <<life, asked>>

Ask == ~asked /\ asked' = TRUE /\ UNCHANGED <<life, guest>>

\* The guest may be gone again when its start is reported.
ComeUp == life = "starting" /\ guest # "new" /\ life' = "running" /\ UNCHANGED <<guest, asked>>

Fail == life \in {"starting", "running"} /\ life' = "failed" /\ UNCHANGED <<guest, asked>>

Stop == life = "running" /\ asked /\ guest = "gone" /\ life' = "stopped" /\ UNCHANGED <<guest, asked>>

Next == GuestStarts \/ GuestEnds \/ Ask \/ ComeUp \/ Fail \/ Stop

Spec == Init /\ [][Next]_vars
=============================================================================
