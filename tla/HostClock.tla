------------------------------- MODULE HostClock -------------------------------
(***************************************************************************)
(* The threads the host keeps beside its window (floatile-shell/main.rs):  *)
(* the runtime of the reference clock, whose State is carried to the       *)
(* window, the built-in timer that stands in for it, the sampler of        *)
(* --perf, and the end of the host, which waits for each of them within a  *)
(* budget.  What the clock says is left out; which of the two sources said *)
(* it last is kept.                                                        *)
(***************************************************************************)
EXTENDS Naturals, Sequences

CONSTANTS MaxUpdates  \* States on their way to the bridge (the queue's bound)

VARIABLES
    host,     \* "starting", "running", then the worker it waits for, or "down"
    text,     \* the source of the time shown: "host" or "widget"
    builtin,  \* whether the built-in timer is started
    clock,    \* the clock's thread: "absent", where it stands, or "ended"
    guest,    \* whether the widget's actor is there to send States
    updates,  \* States sent, good or refused by the projection
    perf,     \* the sampler: "absent", "fresh", "sampling" or "ended"
    stop      \* the stop channel of each: "quiet", "asked" or "dropped"

vars == <<host, text, builtin, clock, guest, updates, perf, stop>>
hostOnly  == <<host, text, builtin, stop>>
clockOnly == <<clock, guest, updates>>

Init ==
    /\ host = "starting" /\ text = "host" /\ builtin = FALSE
    /\ clock = "absent" /\ guest = FALSE /\ updates = <<>>
    /\ perf \in {"absent", "fresh"}
    /\ stop = [clock |-> "quiet", perf |-> "quiet"]

-----------------------------------------------------------------------------
(* The host's thread.                                                      *)

\* spawn_clock_runtime needs the binding, a component to run, installed or
\* built, and a thread.
ClockSpawned(projection, component, thread) ==
    IF projection /\ component /\ thread THEN "preparing" ELSE "absent"

\* load_clock_projection gives the binding and an initial State, whose text
\* may be empty.
StartHost ==
    /\ host = "starting"
    /\ \E projection, component, thread, initial \in BOOLEAN :
          /\ text' = IF projection /\ initial THEN "widget" ELSE "host"
          /\ clock' = ClockSpawned(projection, component, thread)
    /\ builtin' = (clock' = "absent")
    /\ host' = "running"
    /\ UNCHANGED <<guest, updates, perf, stop>>

BuiltinTick ==
    /\ host = "running" /\ builtin
    /\ text' = "host"
    /\ UNCHANGED <<host, builtin, stop, perf>> /\ UNCHANGED clockOnly

\* What stop_worker_bounded does first; the reaper joins the worker.
AskToStop(w) == stop' = [stop EXCEPT ![w] = "asked"]

\* The event loop has returned: the clock's runtime is stopped, if there is
\* one, then the sampler.
LeaveLoop ==
    /\ host = "running"
    /\ IF clock # "absent" THEN host' = "clock" /\ AskToStop("clock")
       ELSE IF perf # "absent" THEN host' = "perf" /\ AskToStop("perf")
       ELSE host' = "down" /\ UNCHANGED stop
    /\ UNCHANGED <<text, builtin, perf>> /\ UNCHANGED clockOnly

\* The worker was joined or its budget is exhausted; the end of the stop
\* channel goes with the call.
ClockWaitOver ==
    /\ host = "clock"
    /\ stop' = [clock |-> "dropped", perf |-> IF perf = "absent" THEN "quiet" ELSE "asked"]
    /\ host' = IF perf = "absent" THEN "down" ELSE "perf"
    /\ UNCHANGED <<text, builtin, perf>> /\ UNCHANGED clockOnly

PerfWaitOver ==
    /\ host = "perf"
    /\ stop' = [stop EXCEPT !.perf = "dropped"]
    /\ host' = "down"
    /\ UNCHANGED <<text, builtin, perf>> /\ UNCHANGED clockOnly

-----------------------------------------------------------------------------
(* The clock's thread, while the process lives.                            *)

Alive == host # "down"

\* Runtime, manager, grants and actor: without one of them the thread ends.
Prepare ==
    /\ Alive /\ clock = "preparing"
    /\ \/ clock' = "starting" /\ guest' = TRUE
       \/ clock' = "ended" /\ UNCHANGED guest
    /\ UNCHANGED <<updates, perf>> /\ UNCHANGED hostOnly

\* handle.start: a start that fails is followed by the actor's shutdown.
StartGuest ==
    /\ Alive /\ clock = "starting"
    /\ \/ guest /\ clock' = "bridging"
       \/ clock' = "stopping"
    /\ UNCHANGED <<guest, updates, perf>> /\ UNCHANGED hostOnly

\* The widget sends a State, or its actor is gone.
SendState ==
    /\ Alive /\ guest /\ clock \in {"starting", "bridging", "stopping"}
    /\ Len(updates) < MaxUpdates
    /\ \E good \in BOOLEAN : updates' = Append(updates, good)
    /\ UNCHANGED <<clock, guest, perf>> /\ UNCHANGED hostOnly

GuestEnds ==
    /\ Alive /\ guest
    /\ guest' = FALSE
    /\ UNCHANGED <<clock, updates, perf>> /\ UNCHANGED hostOnly

\* A turn of the loop: a State that the projection refuses is passed over,
\* and the bridge ends when the window's event loop takes no more.
Project ==
    /\ Alive /\ clock = "bridging" /\ updates # <<>>
    /\ updates' = Tail(updates)
    /\ IF Head(updates) /\ host = "running"
       THEN text' = "widget" /\ UNCHANGED clock
       ELSE /\ clock' \in {"bridging", IF Head(updates) THEN "stopping" ELSE "bridging"}
            /\ UNCHANGED text
    /\ UNCHANGED <<host, builtin, stop, guest, perf>>

LeaveBridge ==
    /\ Alive /\ clock = "bridging"
    /\ stop.clock # "quiet" \/ (updates = <<>> /\ ~guest)
    /\ clock' = "stopping"
    /\ UNCHANGED <<guest, updates, perf>> /\ UNCHANGED hostOnly

\* handle.shutdown has returned.
EndClock ==
    /\ Alive /\ clock = "stopping"
    /\ clock' = "ended" /\ guest' = FALSE /\ updates' = <<>>
    /\ UNCHANGED perf /\ UNCHANGED hostOnly

\* PerfSampler: the first sample decides whether it goes on, a later one
\* that fails is left out.
Sample ==
    /\ Alive
    /\ \/ perf = "fresh" /\ perf' \in {"sampling", "ended"}
       \/ perf = "sampling" /\ stop.perf # "quiet" /\ perf' = "ended"
    /\ UNCHANGED clockOnly /\ UNCHANGED hostOnly

Next ==
    \/ StartHost \/ BuiltinTick \/ LeaveLoop \/ ClockWaitOver \/ PerfWaitOver
    \/ Prepare \/ StartGuest \/ SendState \/ GuestEnds \/ Project \/ LeaveBridge \/ EndClock
    \/ Sample

Spec == Init /\ [][Next]_vars

-----------------------------------------------------------------------------
(* Properties.                                                             *)

\* A host whose clock runtime is gone shows the built-in time, as the log
\* says when the runtime cannot be made or its widget not started: "falling
\* back to builtin timer" (main.rs:515-553).
FallsBack == host = "running" /\ clock = "ended" => builtin
=============================================================================
