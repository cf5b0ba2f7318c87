------------------------------- MODULE Events --------------------------------
(***************************************************************************)
(* The event layer across the slots: how host_events.c, the UART driver,   *)
(* the supervisor and the module tasks arm, raise, wake and disarm while   *)
(* interrupts arrive between any two of their steps.                       *)
(*                                                                         *)
(* Between two actions any interrupt may be taken; a module task takes a   *)
(* step only where the supervisor blocks ("idle", and "delay" while it     *)
(* waits for a console command).  What one queue does with its records is  *)
(* specified in EventQueue: here a record is its source.  Memory, names    *)
(* and faults are Supervisor's; that two UART instances may share one      *)
(* peripheral, and what a UART's ring holds, are left out.                 *)
(***************************************************************************)
EXTENDS Naturals, Sequences, SequencesExt

CONSTANTS
  NSlots,   \* MDL_MAX_SLOTS
  Pins,     \* the pins that can raise an interrupt
  Uarts,    \* UART instances
  Console,  \* MDL_EVT_CONSOLE
  Images,   \* what modules declare
  Tasks,    \* task control blocks; a freed one is used again
  Depth,    \* the depth every image declares for its queue
  NoTask, NoSlot

Slots == 0 .. NSlots - 1

NoImage   == [lines |-> {}, uarts |-> {}, evt |-> FALSE, cmd |-> FALSE]
Raises(i) == i.lines \cup i.uarts \cup (IF i.cmd THEN {Console} ELSE {})

ASSUME EventsAssumption ==
  /\ NSlots \in Nat \ {0} /\ Depth \in Nat \ {0}
  /\ Images \subseteq [lines : SUBSET Pins, uarts : SUBSET Uarts, evt : BOOLEAN, cmd : BOOLEAN]
  /\ Console \notin Pins \cup Uarts /\ Pins \cap Uarts = {}
  /\ NoTask \notin Tasks /\ NoSlot \notin Slots
  \* tools/packer.py:504-509: an interrupt line needs a module_event().
  /\ \A i \in Images : i.lines # {} => i.evt

VARIABLES
  state,     \* state[s]: "EMPTY", "LOADED" or "RUNNING"
  image,     \* image[s]: the res[] and the entry points of the slot
  pend,      \* pend[s]: the sources of the records that wait, oldest first
  hook,      \* hook[s]: s_evt[s].task, whom a post notifies
  armed,     \* armed[s]: armed_lines
  owner,     \* s_pin_slot
  lines,     \* the lines enabled in the interrupt controller
  open,      \* the UARTs that are open
  task,      \* task[t]: where task t executes, and its slot
  notified,  \* the tasks with a notification to take
  sup        \* the supervisor: what it does next, for which slot and image

hostVars == <<hook, armed, owner, lines, open>>
vars     == <<state, image, pend, hostVars, task, notified, sup>>

Gone       == [at |-> "gone", home |-> 0]
TaskPoints == {"init", "drain", "evt", "cmd", "parking", "wait", "finished", "gone"}
SupPoints  == {"idle", "delete", "empty", "unhook", "disable", "clear", "close", "forget",
               "create", "reset", "arm", "map", "give", "delay"}

Idle == [do |-> "idle", slot |-> 0, img |-> NoImage, left |-> {}, who |-> NoTask]

(* One type invariant. *)
TypeOK ==
  /\ state \in [Slots -> {"EMPTY", "LOADED", "RUNNING"}]
  /\ image \in [Slots -> Images \cup {NoImage}]
  /\ pend \in [Slots -> Seq(Pins \cup Uarts \cup {Console})]
  /\ \A s \in Slots : Len(pend[s]) <= Depth
  /\ hook \in [Slots -> Tasks \cup {NoTask}]
  /\ armed \in [Slots -> SUBSET Pins]
  /\ owner \in [Pins -> Slots \cup {NoSlot}]
  /\ lines \subseteq Pins /\ open \subseteq Uarts
  /\ task \in [Tasks -> [at : TaskPoints, home : Slots]]
  /\ notified \subseteq Tasks
  /\ sup \in [do : SupPoints, slot : Slots, img : Images \cup {NoImage},
              left : SUBSET (Pins \cup Uarts), who : Tasks \cup {NoTask}]

-----------------------------------------------------------------------------

\* mdl_caller_slot(): the task is the one of a slot that runs.
Runs(t, s) == task[t].at \notin {"gone", "finished"} /\ task[t].home = s /\ state[s] = "RUNNING"

Init ==
  /\ state = [s \in Slots |-> "EMPTY"] /\ image = [s \in Slots |-> NoImage]
  /\ pend = [s \in Slots |-> <<>>]     /\ hook = [s \in Slots |-> NoTask]
  /\ armed = [s \in Slots |-> {}]      /\ owner = [p \in Pins |-> NoSlot]
  /\ lines = {} /\ open = {}
  /\ task = [t \in Tasks |-> Gone] /\ notified = {}
  /\ sup = Idle

-----------------------------------------------------------------------------
(* Posting: post_from_isr() and what it leaves of a full queue. *)

Posted_NoLimit(s, x) ==
  pend' = [pend EXCEPT ![s] = IF x \in ToSet(@) THEN @ ELSE Append(@, x)]

Posted(s, x) ==
  pend' = [pend EXCEPT ![s] = IF x \in ToSet(@) \/ Len(@) >= Depth THEN @ ELSE Append(@, x)]

Wake_IfBlocked(s) ==
  notified' = notified \cup {t \in Tasks : t = hook[s] /\ task[t].at = "wait"}

\* A notification to a task that is gone goes to freed memory.
Wake(s) == notified' = notified \cup {t \in Tasks : t = hook[s] /\ task[t].at # "gone"}

Edge(p) ==
  \E s \in Slots :
    /\ p \in lines /\ owner[p] = s
    /\ Posted(s, p) /\ Wake(s)
    /\ UNCHANGED <<state, image, hostVars, task, sup>>

\* mdl_events_post_uart(): the first resident slot that declared the UART.
Byte(u) ==
  \E s \in Slots :
    /\ u \in open /\ state[s] # "EMPTY" /\ u \in image[s].uarts
    /\ \A r \in Slots : r < s => state[r] = "EMPTY" \/ u \notin image[r].uarts
    /\ Posted(s, u) /\ Wake(s)
    /\ UNCHANGED <<state, image, hostVars, task, sup>>

-----------------------------------------------------------------------------
(* The supervisor: reclaim_slot() and, for a load, start_loaded_module(). *)

Does(from, to) == sup.do = from /\ sup' = [sup EXCEPT !.do = to]

\* A fault, the watchdog, an unload or, while it waits, a command's timeout.
ReclaimBegins(s) ==
  /\ state[s] # "EMPTY"
  /\ sup.do = "idle" \/ (sup.do = "delay" /\ sup.slot = s)
  /\ sup' = [Idle EXCEPT !.do = "delete", !.slot = s]
  /\ UNCHANGED <<state, image, pend, hostVars, task, notified>>

\* mdl_res_check() lets no two resident modules share a source.  The bound is
\* Tasks: a load begins only when a control block will be there for it.
LoadBegins(s, i) ==
  /\ sup.do = "idle" /\ \E t \in Tasks : task[t] = Gone \/ Runs(t, s)
  /\ \A r \in Slots \ {s} :
       state[r] # "EMPTY" => (image[r].lines \cup image[r].uarts) \cap (i.lines \cup i.uarts) = {}
  /\ sup' = [Idle EXCEPT !.do = IF state[s] = "EMPTY" THEN "create" ELSE "delete",
                         !.slot = s, !.img = i]
  /\ UNCHANGED <<state, image, pend, hostVars, task, notified>>

DeleteTask ==
  /\ Does("delete", "empty")
  /\ LET dead == {t \in Tasks : Runs(t, sup.slot)}
     IN  /\ task' = [t \in Tasks |-> IF t \in dead THEN Gone ELSE task[t]]
         /\ notified' = notified \ dead
  /\ UNCHANGED <<state, image, pend, hostVars>>

MarkEmpty ==
  /\ Does("empty", "unhook")
  /\ state' = [state EXCEPT ![sup.slot] = "EMPTY"]
  /\ UNCHANGED <<image, pend, hostVars, task, notified>>

(* mdl_events_disarm_slot() *)

Unhook ==
  /\ Does("unhook", "disable")
  /\ hook' = [hook EXCEPT ![sup.slot] = NoTask]
  /\ UNCHANGED <<state, image, pend, armed, owner, lines, open, task, notified>>

DisableLines_All ==
  /\ Does("disable", "clear")
  /\ lines' = {}
  /\ UNCHANGED <<state, image, pend, hook, armed, owner, open, task, notified>>

DisableLines ==
  /\ Does("disable", "clear")
  /\ lines' = lines \ armed[sup.slot]
  /\ UNCHANGED <<state, image, pend, hook, armed, owner, open, task, notified>>

ClearQueue_IfLines ==
  /\ Does("clear", "close")
  /\ armed' = [armed EXCEPT ![sup.slot] = {}]
  /\ pend'  = [pend EXCEPT ![sup.slot] = IF armed[sup.slot] = {} THEN @ ELSE <<>>]
  /\ owner' = [p \in Pins |-> IF owner[p] = sup.slot THEN NoSlot ELSE owner[p]]
  /\ UNCHANGED <<state, image, hook, lines, open, task, notified>>

ClearQueue ==
  /\ Does("clear", "close")
  /\ armed' = [armed EXCEPT ![sup.slot] = {}]
  /\ pend'  = [pend EXCEPT ![sup.slot] = <<>>]
  /\ owner' = [p \in Pins |-> IF owner[p] = sup.slot THEN NoSlot ELSE owner[p]]
  /\ UNCHANGED <<state, image, hook, lines, open, task, notified>>

CloseUarts ==
  /\ Does("close", "forget")
  /\ open' = open \ image[sup.slot].uarts
  /\ UNCHANGED <<state, image, pend, hook, armed, owner, lines, task, notified>>

ForgetImage ==
  /\ sup.do = "forget"
  /\ image' = [image EXCEPT ![sup.slot] = NoImage]
  /\ sup' = IF sup.img = NoImage THEN Idle ELSE [sup EXCEPT !.do = "create"]
  /\ UNCHANGED <<state, pend, hostVars, task, notified>>

(* start_loaded_module() *)

CreateTask(t) ==
  /\ sup.do = "create" /\ task[t] = Gone
  /\ image' = [image EXCEPT ![sup.slot] = sup.img]
  /\ state' = [state EXCEPT ![sup.slot] = "RUNNING"]
  /\ task'  = [task EXCEPT ![t] = [at |-> "init", home |-> sup.slot]]
  /\ sup'   = [sup EXCEPT !.do = "reset", !.who = t]
  /\ UNCHANGED <<pend, hostVars, notified>>

\* mdl_events_reset()
ResetQueue ==
  /\ sup.do = "reset"
  /\ pend' = [pend EXCEPT ![sup.slot] = <<>>]
  /\ hook' = [hook EXCEPT ![sup.slot] = sup.who]
  /\ sup'  = [sup EXCEPT !.do = "arm", !.left = sup.img.lines \cup sup.img.uarts]
  /\ UNCHANGED <<state, image, armed, owner, lines, open, task, notified>>

\* mdl_events_arm_gpio(): the line is enabled before its owner is recorded.
EnableLine(p) ==
  /\ Does("arm", "map") /\ p \in sup.left
  /\ lines' = lines \cup {p}
  /\ UNCHANGED <<state, image, pend, hook, armed, owner, open, task, notified>>

MapLine(p) ==
  /\ sup.do = "map" /\ p \in sup.left \cap lines
  /\ owner' = [owner EXCEPT ![p] = sup.slot]
  /\ armed' = [armed EXCEPT ![sup.slot] = @ \cup {p}]
  /\ sup'   = [sup EXCEPT !.do = "arm", !.left = @ \ {p}]
  /\ UNCHANGED <<state, image, pend, hook, lines, open, task, notified>>

OpenUart(u) ==
  /\ sup.do = "arm" /\ u \in sup.left
  /\ open' = open \cup {u}
  /\ sup'  = [sup EXCEPT !.left = @ \ {u}]
  /\ UNCHANGED <<state, image, pend, hook, armed, owner, lines, task, notified>>

LoadEnds ==
  /\ sup.do = "arm" /\ sup.left = {}
  /\ sup' = Idle
  /\ UNCHANGED <<state, image, pend, hostVars, task, notified>>

(* mdl_supervisor_run_module_command() *)

\* The record is queued; the notification follows outside the critical section.
PostConsole_NoGive(s) ==
  /\ sup.do = "idle" /\ state[s] = "RUNNING" /\ image[s].cmd /\ Len(pend[s]) < Depth
  /\ pend' = [pend EXCEPT ![s] = Append(@, Console)]
  /\ sup' = [Idle EXCEPT !.do = "delay", !.slot = s]
  /\ UNCHANGED <<state, image, hostVars, task, notified>>

PostConsole(s) ==
  /\ sup.do = "idle" /\ state[s] = "RUNNING" /\ image[s].cmd /\ Len(pend[s]) < Depth
  /\ pend' = [pend EXCEPT ![s] = Append(@, Console)]
  /\ sup' = [Idle EXCEPT !.do = "give", !.slot = s]
  /\ UNCHANGED <<state, image, hostVars, task, notified>>

Give ==
  /\ Does("give", "delay")
  /\ Wake(sup.slot)
  /\ UNCHANGED <<state, image, pend, hostVars, task>>

CommandOutstanding(s) ==
  Console \in ToSet(pend[s]) \/ \E t \in Tasks : Runs(t, s) /\ task[t].at = "cmd"

DelayEnds ==
  /\ sup.do = "delay" /\ ~CommandOutstanding(sup.slot)
  /\ sup' = Idle
  /\ UNCHANGED <<state, image, pend, hostVars, task, notified>>

Busy ==
  \/ DeleteTask \/ MarkEmpty \/ Unhook \/ DisableLines \/ ClearQueue \/ CloseUarts \/ ForgetImage
  \/ \E t \in Tasks : CreateTask(t)
  \/ ResetQueue
  \/ \E p \in Pins : EnableLine(p) \/ MapLine(p)
  \/ \E u \in Uarts : OpenUart(u)
  \/ LoadEnds \/ Give \/ DelayEnds

-----------------------------------------------------------------------------
(* module_task_trampoline() *)

Moves(t, from, to) ==
  /\ sup.do \in {"idle", "delay"} /\ task[t].at = from
  /\ task' = [task EXCEPT ![t].at = to]

Own(t) == task[t].home

InitReturns(t) ==
  /\ Moves(t, "init", IF image[Own(t)].cmd \/ image[Own(t)].evt THEN "drain" ELSE "finished")
  /\ state' = [state EXCEPT ![Own(t)] = IF image[Own(t)].cmd \/ image[Own(t)].evt
                                        THEN @ ELSE "LOADED"]
  /\ UNCHANGED <<image, pend, hostVars, notified, sup>>

\* vTaskDelete(NULL).  Nobody clears the hook of a task that ends by itself.
DeleteSelf(t) ==
  /\ sup.do \in {"idle", "delay"} /\ task[t].at = "finished"
  /\ task' = [task EXCEPT ![t] = Gone] /\ notified' = notified \ {t}
  /\ UNCHANGED <<state, image, pend, hostVars, sup>>

\* Without a module_event() the record of a UART is taken and ignored.
HandledAt(s, x) ==
  IF x = Console THEN "cmd" ELSE IF image[s].evt THEN "evt" ELSE "drain"

Take_Newest(t) ==
  LET s == Own(t)
  IN  /\ pend[s] # <<>>
      /\ Moves(t, "drain", HandledAt(s, Last(pend[s])))
      /\ pend' = [pend EXCEPT ![s] = Front(@)]
      /\ UNCHANGED <<state, image, hostVars, notified, sup>>

Take(t) ==
  LET s == Own(t)
  IN  /\ pend[s] # <<>>
      /\ Moves(t, "drain", HandledAt(s, Head(pend[s])))
      /\ pend' = [pend EXCEPT ![s] = Tail(@)]
      /\ UNCHANGED <<state, image, hostVars, notified, sup>>

HandlerReturns(t) ==
  /\ Moves(t, "evt", "drain") \/ Moves(t, "cmd", "drain")
  /\ UNCHANGED <<state, image, pend, hostVars, notified, sup>>

\* The queue is empty: the task is on its way to ulTaskNotifyTake().
Drained(t) ==
  /\ pend[Own(t)] = <<>> /\ Moves(t, "drain", "parking")
  /\ UNCHANGED <<state, image, pend, hostVars, notified, sup>>

\* A notification that is there already is taken without waiting.
NotifyTake(t) ==
  /\ Moves(t, "parking", IF t \in notified THEN "drain" ELSE "wait")
  /\ notified' = notified \ {t}
  /\ UNCHANGED <<state, image, pend, hostVars, sup>>

Woken(t) ==
  /\ t \in notified /\ Moves(t, "wait", "drain")
  /\ notified' = notified \ {t}
  /\ UNCHANGED <<state, image, pend, hostVars, sup>>

\* The 1000 ms of module_task_wait() are over.
TimesOut(t) ==
  /\ t \notin notified /\ Moves(t, "wait", "drain")
  /\ UNCHANGED <<state, image, pend, hostVars, notified, sup>>

\* What a module's task does of itself, and what its own code does.
Trampoline(t) ==
  DeleteSelf(t) \/ Take(t) \/ Drained(t) \/ NotifyTake(t) \/ Woken(t)
ModuleCode(t) == InitReturns(t) \/ HandlerReturns(t)

Next ==
  \/ \E p \in Pins : Edge(p)
  \/ \E u \in Uarts : Byte(u)
  \/ \E s \in Slots : ReclaimBegins(s) \/ PostConsole(s) \/ \E i \in Images : LoadBegins(s, i)
  \/ Busy
  \/ \E t \in Tasks : Trampoline(t) \/ ModuleCode(t) \/ TimesOut(t)

(* The supervisor goes on with what it has begun.  It blocks again and     *)
(* again, and then the module tasks, which share one priority, take turns: *)
(* a task that is ready whenever they run gets its turn.                   *)
Fairness ==
  /\ WF_vars(Busy)
  /\ \A t \in Tasks : SF_vars(Trampoline(t))

Spec == Init /\ [][Next]_vars /\ Fairness

-----------------------------------------------------------------------------
(* Safety *)

(* host_events.c:273-356: whenever the supervisor is not in the middle of  *)
(* a load or a reclaim, exactly the lines and UARTs that the resident      *)
(* images declare are live, each line knows its slot, and a slot that runs *)
(* is notified through its own task: no unload takes a line away from a    *)
(* neighbour, and none leaves one behind.                                  *)
ArmingAgrees ==
  sup.do \in {"idle", "delay"} =>
    /\ \A s \in Slots : armed[s] = image[s].lines
    /\ \A p \in Pins, s \in Slots : owner[p] = s <=> p \in image[s].lines
    /\ lines = UNION {image[s].lines : s \in Slots}
    /\ open = UNION {image[s].uarts : s \in Slots}
    /\ \A s \in Slots : state[s] = "EMPTY" => image[s] = NoImage /\ hook[s] = NoTask
    /\ \A s \in Slots : state[s] = "RUNNING" => hook[s] \in Tasks /\ Runs(hook[s], s)

(* host_events.c, supervisor.c:148-151: what waits in a slot's queue comes *)
(* from a source of the image in that slot, at every step of a reclaim and *)
(* of the load after it: no module ever handles its predecessor's events,  *)
(* though interrupts keep coming while the slot changes hands.             *)
EventsAreOwn == \A s \in Slots : ToSet(pend[s]) \subseteq Raises(image[s])

(* host_events.c:70,327,349: the supervisor rewrites the three indices of  *)
(* a ring outside any critical section.  That is one step, as EventQueue   *)
(* has it, because no live source can post to that slot then: its lines    *)
(* are off, and a slot whose UART is open no longer counts as resident.    *)
QueueIsQuiet ==
  sup.do \in {"clear", "reset"} =>
    /\ \A p \in lines : owner[p] # sup.slot
    /\ state[sup.slot] # "EMPTY" => image[sup.slot].uarts \cap open = {}

(* module_task.c:168-188: a task that found its queue empty, or waits, has *)
(* a notification for every record that came since; the timeout of the     *)
(* wait is never what saves an event.                                      *)
NoLostWakeup ==
  \A t \in Tasks, s \in Slots :
    Runs(t, s) /\ task[t].at \in {"parking", "wait"} /\ pend[s] # <<>> =>
      t \in notified \/ (sup.do = "give" /\ sup.slot = s)

(* The lines and UARTs that are live are those of the resident images: all *)
(* of them while nothing changes hands, and none of a slot whose queue is  *)
(* being emptied.                                                          *)
LinesFollowTheSlots == ArmingAgrees /\ QueueIsQuiet

-----------------------------------------------------------------------------
(* Liveness *)

(* mdl_events_take() (host_events.c:191-213): as long as the handlers of a *)
(* module return, an event that was queued is taken, however many others   *)
(* keep coming, unless the module ends or its slot is reclaimed first.     *)
InItsCode(s) == \E t \in Tasks : Runs(t, s) /\ task[t].at \in {"init", "evt", "cmd"}
EventsAreTaken ==
  \A s \in Slots : \A x \in Pins \cup Uarts :
    []<>~InItsCode(s) => (x \in ToSet(pend[s]) ~> x \notin ToSet(pend[s]) \/ state[s] # "RUNNING")

-----------------------------------------------------------------------------
(* What comments of the code say and the code does not do *)

(* supervisor.c:145-146, host_events.c:322-323: while a source of a slot   *)
(* is live, the task that its interrupts notify exists.                    *)
NotifiesALiveTask ==
  \A s \in Slots :
    hook[s] \in Tasks /\ (armed[s] \cap lines # {} \/ (state[s] # "EMPTY" /\ image[s].uarts \cap open # {}))
      => task[hook[s]].at # "gone"

=============================================================================
