---------------------------- MODULE MCWidgetSession ----------------------------
(***************************************************************************)
(* Instances of WidgetSession for TLC; the bounds are in the .cfg files.   *)
(***************************************************************************)
EXTENDS WidgetSession

\* What the guest and the operations ask for, in all; nothing that fairness
\* obliges a task to do adds to it.
Inputs == calls + Len(timers) + 2 * completions <= 3
=============================================================================
