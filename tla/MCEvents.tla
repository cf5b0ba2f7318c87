------------------------------ MODULE MCEvents -------------------------------
(***************************************************************************)
(* Two slots, two pins, one UART and queues of two records.  Button raises *)
(* one line; Full has three sources, one more than its queue holds; Shell  *)
(* has a UART and no module_event(); Once declares the UART and its        *)
(* module_init() is all there is to it.                                    *)
(***************************************************************************)
EXTENDS Events

CONSTANTS p1, p2, u1, t1, t2, console, none

MCPins  == {p1, p2}
MCUarts == {u1}
MCTasks == {t1, t2}

Button == [lines |-> {p1}, uarts |-> {}, evt |-> TRUE, cmd |-> FALSE]
Full   == [lines |-> {p2}, uarts |-> {u1}, evt |-> TRUE, cmd |-> TRUE]
Shell  == [lines |-> {}, uarts |-> {u1}, evt |-> FALSE, cmd |-> TRUE]
Once   == [lines |-> {}, uarts |-> {u1}, evt |-> FALSE, cmd |-> FALSE]

MCImages == {Button, Full, Shell, Once}

=============================================================================
