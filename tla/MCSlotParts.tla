---------------------------- MODULE MCSlotParts ----------------------------
(***************************************************************************)
(* Three parts of a slot that only its own module's host calls, its        *)
(* interrupts and the supervisor touch: its clock (Watchdog), its pool     *)
(* (Heap) and its event queue (EventQueue).  None reads a variable of      *)
(* another and every property is about one of them, so a behaviour moves   *)
(* only one; which one is chosen at the start.                             *)
(***************************************************************************)
EXTENDS Watchdog, Heap, EventQueue

CONSTANTS p1, p2, console, none

VARIABLE part

MCSources == {p1, p2}
MCValues  == {0, 1}

mcVars == <<wdVars, heapVars, vars, part>>

MCInit ==
  /\ WatchdogInit
  /\ HeapInit
  /\ Init
  /\ part \in {"clock", "pool", "queue"}
  /\ part # "clock" => now = 0

MCNext ==
  /\ part' = part
  /\ \/ part = "clock" /\ WatchdogNext /\ UNCHANGED <<heapVars, vars>>
     \/ part = "pool" /\ HeapNext /\ UNCHANGED <<wdVars, vars>>
     \/ part = "queue" /\ Next /\ UNCHANGED <<wdVars, heapVars>>

MCSpec == MCInit /\ [][MCNext]_mcVars
=============================================================================
