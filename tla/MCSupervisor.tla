---------------------------- MODULE MCSupervisor ----------------------------
(***************************************************************************)
(* Two slots and two arena blocks (three where a run says so).  The images *)
(* are a module with a command; another build of it, which ends after      *)
(* module_init() and claims a pin of the second module; a third build of   *)
(* it, which passes the arena test of the checks and does not fit; that    *)
(* second module, with an event handler and the first one's command; and   *)
(* another one, that asks for a pin of the host.                           *)
(***************************************************************************)
EXTENDS Supervisor, TLC

CONSTANTS a, b, c, go, p, q, h

Image(name, cmd, evt, pins, size, valid) ==
  [name |-> name, cmd |-> cmd, evt |-> evt, pins |-> pins, size |-> size, valid |-> valid]

MCNames    == {a, b, c}
MCCommands == {go}
MCPins     == {p, q, h}
MCHostPins == {h}

Command  == Image(a, go, FALSE, {p}, 1, TRUE)
RunsOnce == Image(a, NoCommand, FALSE, {q}, 1, TRUE)
TooLarge == Image(a, go, TRUE, {p}, 3, TRUE)
Handler  == Image(b, go, TRUE, {q}, 1, TRUE)
HostPin  == Image(c, NoCommand, TRUE, {h}, 1, TRUE)

MCImages == {Command, RunsOnce, TooLarge, Handler, HostPin}

\* Enough for one module that hangs in its command while another one faults:
\* the boot brings both up.
MCLiveImages == {Command, Handler}

\* Task control blocks and arena blocks are interchangeable.
MCSymmetry == Permutations(Units) \cup Permutations(Tasks)

=============================================================================
