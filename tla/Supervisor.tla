----------------------------- MODULE Supervisor -----------------------------
(***************************************************************************)
(* The slot table and everything that changes it: the supervisor task      *)
(* (src/mdl/core/supervisor.c), the loader it calls (loader.c, arena.c,    *)
(* host_resources.c), the module tasks (module_task.c) and the fault       *)
(* handler (registry.c, fault_arm.c).                                      *)
(*                                                                         *)
(* SCHEDULING.  The supervisor runs at a higher priority than every module *)
(* task, so a module task takes a step only where the supervisor blocks:   *)
(* in ulTaskNotifyTake ("wait") and in the vTaskDelay of a console command *)
(* ("delay").  Everything between two such points is atomic for the        *)
(* modules; it is cut into one action per stage of the supervisor's loop.  *)
(* The supervisor also blocks on the transmit lock (usb_cdc.c:190), with   *)
(* no limit.  A module task that holds it inherits the priority, ends its  *)
(* bounded output and gives the lock back: that wait is part of the step   *)
(* that writes.  A holder the supervisor has deleted never gives it back:  *)
(* the next step that writes ends in "stuck", and there is no other step.  *)
(*                                                                         *)
(* DATA.  An image is what the properties tell apart of a .mdl file: its   *)
(* name, its command name, whether it has an event handler, the physical   *)
(* pins it claims, how many arena blocks it needs, and whether the checks  *)
(* on its bytes pass.  All blocks have one size.  The clock is left to the *)
(* watchdog's model: here any module that is not parked may be overdue.    *)
(***************************************************************************)
EXTENDS Naturals, FiniteSets

CONSTANTS
  NSlots,      \* MDL_MAX_SLOTS
  Images,      \* the images a host may push
  Names,       \* module names; NoName is the empty name
  Commands,    \* console command names; NoCommand is the empty one
  Pins,        \* physical pins
  HostPins,    \* those the host never yields (PIN_HOST_HARD)
  Units,       \* blocks of the arena
  Tasks,       \* task control blocks; a freed one is used again
  CmdPolls,    \* MDL_CMD_TIMEOUT_MS / MDL_CMD_POLL_MS
  NoName, NoCommand, NoTask,
  Orphan       \* in the place of a holder that was deleted

Slots == 0 .. NSlots - 1

ImageType == [name : Names \cup {NoName}, cmd : Commands \cup {NoCommand},
              evt : BOOLEAN, pins : SUBSET Pins, size : Nat, valid : BOOLEAN]

NoImage == [name |-> NoName, cmd |-> NoCommand, evt |-> FALSE,
            pins |-> {}, size |-> 0, valid |-> FALSE]

ASSUME ConstantsAssumption ==
  /\ NSlots \in Nat \ {0}
  /\ CmdPolls \in Nat \ {0}
  /\ Images \subseteq ImageType
  /\ \A i \in Images : i.size > 0
  /\ NoTask \notin Tasks
  /\ Orphan \notin Tasks \cup {NoTask}
  /\ NoName \notin Names
  /\ NoCommand \notin Commands
  /\ IsFiniteSet(Units)

VARIABLES
  state,    \* state[s]: "EMPTY", "LOADED", "RUNNING" or "FAULTED"
  image,    \* image[s]: the name, command and handlers recorded in the slot
  claims,   \* claims[s]: the pins its recorded res[] expands to
  handle,   \* handle[s]: task_handle
  held,     \* held[s]: the arena blocks of the slot
  pending,  \* pending[s]: cmd_pending
  posted,   \* posted[s]: a console event waits in the slot's queue
  task,     \* task[t]: where task t executes, its slot and its memory
  free,     \* the arena blocks that are not handed out
  tx,       \* which module task holds the transmit lock
  sup,      \* where the supervisor is
  target,   \* the slot whose command it waits for
  waited,   \* how many polls of that wait are over
  saved,    \* the images in the flash store
  todo,     \* those restore() has still to bring up
  hostFault \* the fault record that outlives a reset blames the host

slotVars  == <<state, image, claims, handle, held, pending, posted>>
supVars   == <<sup, target, waited>>
savedVars == <<saved, todo, hostFault>>
vars      == <<slotVars, task, free, tx, supVars, savedVars>>

TaskPoints == {"init", "drain", "evt", "cmd", "wait", "finishing", "finished", "trap"}
Gone       == [at |-> "gone", home |-> 0, mem |-> {}]
TaskRecord == [at : TaskPoints, home : Slots, mem : SUBSET Units]
SupPoints  == {"restore", "wait", "scan", "frame", "console", "delay", "stuck"}

\* Where module code runs, which alone can fault or be in log().
InModule   == {"init", "evt", "cmd"}

(* One type invariant: every variable has the type of its C counterpart. *)
TypeOK ==
  /\ state \in [Slots -> {"EMPTY", "LOADED", "RUNNING", "FAULTED"}]
  /\ image \in [Slots -> Images \cup {NoImage}]
  /\ claims \in [Slots -> SUBSET Pins]
  /\ handle \in [Slots -> Tasks \cup {NoTask}]
  /\ held \in [Slots -> SUBSET Units]
  /\ pending \in [Slots -> BOOLEAN]
  /\ posted \in [Slots -> BOOLEAN]
  /\ task \in [Tasks -> TaskRecord \cup {Gone}]
  /\ free \in SUBSET Units
  /\ tx \in Tasks \cup {NoTask, Orphan}
  /\ sup \in SupPoints
  /\ target \in Slots
  /\ waited \in 0 .. CmdPolls
  /\ saved \in SUBSET Images
  /\ todo \in SUBSET Images
  /\ hostFault \in BOOLEAN

-----------------------------------------------------------------------------
(* Looking a slot up. *)

\* The first slot of S in table order: every search of the table returns it.
IsFirst(s, S) == s \in S /\ \A r \in S : s <= r

FreeSlots == {s \in Slots : state[s] = "EMPTY"}

ByName(n) == {s \in Slots : state[s] # "EMPTY" /\ n # NoName /\ image[s].name = n}

ByCommand(c) == {s \in Slots : state[s] = "RUNNING" /\ c # NoCommand /\ image[s].cmd = c}

\* mdl_caller_slot(): the slot whose handle is the running task.
IsCaller(s, t) == state[s] # "EMPTY" /\ handle[s] = t

-----------------------------------------------------------------------------
(* mdl_transport_write() in the supervisor. *)

\* The lock once the tasks of D are deleted.
Left(D) == IF tx \in D \cap Tasks THEN Orphan ELSE tx

\* A step of the supervisor that deletes the tasks of D and writes nothing.
Silent(to, D) == sup' = to /\ tx' = Left(D)

\* One that deletes them and then writes: whoever holds the lock ends first.
Writes(to, D) ==
  \/ Left(D) # Orphan /\ tx' = NoTask /\ sup' = to
  \/ Left(D) = Orphan /\ tx' = Orphan /\ sup' = "stuck"

Stage(from) == sup = from /\ UNCHANGED <<target, waited>>

-----------------------------------------------------------------------------
(* reclaim_slot(), for every slot of R at once. *)

Cleared(f, R, v) == [s \in Slots |-> IF s \in R THEN v ELSE f[s]]

Reclaim_KeepsTask(R) ==
  /\ task'    = task
  /\ free'    = free \cup UNION {held[s] : s \in R}
  /\ state'   = Cleared(state, R, "EMPTY")
  /\ image'   = Cleared(image, R, NoImage)
  /\ claims'  = Cleared(claims, R, {})
  /\ handle'  = Cleared(handle, R, NoTask)
  /\ held'    = Cleared(held, R, {})
  /\ pending' = Cleared(pending, R, FALSE)
  /\ posted'  = Cleared(posted, R, FALSE)

Reclaim_KeepsHeld(R) ==
  /\ task'    = [t \in Tasks |-> IF \E s \in R : handle[s] = t THEN Gone ELSE task[t]]
  /\ free'    = free \cup UNION {held[s] : s \in R}
  /\ state'   = Cleared(state, R, "EMPTY")
  /\ image'   = Cleared(image, R, NoImage)
  /\ claims'  = Cleared(claims, R, {})
  /\ handle'  = Cleared(handle, R, NoTask)
  /\ held'    = held
  /\ pending' = Cleared(pending, R, FALSE)
  /\ posted'  = Cleared(posted, R, FALSE)

Reclaim(R) ==
  /\ task'    = [t \in Tasks |-> IF \E s \in R : handle[s] = t THEN Gone ELSE task[t]]
  /\ free'    = free \cup UNION {held[s] : s \in R}
  /\ state'   = Cleared(state, R, "EMPTY")
  /\ image'   = Cleared(image, R, NoImage)
  /\ claims'  = Cleared(claims, R, {})
  /\ handle'  = Cleared(handle, R, NoTask)
  /\ held'    = Cleared(held, R, {})
  /\ pending' = Cleared(pending, R, FALSE)
  /\ posted'  = Cleared(posted, R, FALSE)

Owners(R) == {handle[s] : s \in R}

\* The slots of R one after the other; s is the first that gives GPIO pins
\* back, and says so at the end of its reclaim.
ReclaimSays(R, s, to) ==
  LET Q == {r \in R : r <= s}
  IN  /\ s \in R /\ claims[s] # {}
      /\ \/ Left(Owners(Q)) # Orphan /\ Reclaim(R) /\ tx' = NoTask /\ sup' = to
         \/ Left(Owners(Q)) = Orphan /\ Reclaim(Q) /\ tx' = Orphan /\ sup' = "stuck"

\* A reclaim that is not answered, and one that is.
ReclaimOnly(R, to) ==
  \/ Reclaim(R) /\ Silent(to, Owners(R))
  \/ \E s \in R : ReclaimSays(R, s, to)

ReclaimAndWrite(R, to) ==
  \/ Reclaim(R) /\ Writes(to, Owners(R))
  \/ \E s \in R : ReclaimSays(R, s, to)

-----------------------------------------------------------------------------
(* mdl_load() and start_loaded_module() for image i into slot s.  A slot   *)
(* that is being replaced is reclaimed first, in the same step.            *)

\* mdl_res_check(): the host's own pins, then every other resident slot's.
PinConflict(i, s) ==
  \/ i.pins \cap HostPins # {}
  \/ \E r \in Slots \ {s} : state[r] # "EMPTY" /\ i.pins \cap claims[r] # {}

\* mdl_load_validate(); the arena test looks at the largest free block only.
Validates(i, s) == i.valid /\ free # {} /\ ~PinConflict(i, s)

\* What reclaim_slot() gives back before the new image takes its memory.
Returned(s) == IF state[s] = "EMPTY" THEN {} ELSE held[s]
Victim(s)   == IF state[s] = "EMPTY" THEN NoTask ELSE handle[s]

\* mdl_arena_acquire() fails after the claims were recorded.
AcquireFails(i, s) ==
  /\ Cardinality(free \cup Returned(s)) < i.size
  /\ free'    = free \cup Returned(s)
  /\ task'    = [t \in Tasks |-> IF t = Victim(s) THEN Gone ELSE task[t]]
  /\ state'   = [state EXCEPT ![s] = "EMPTY"]
  /\ image'   = [image EXCEPT ![s] = IF state[s] = "EMPTY" THEN @ ELSE NoImage]
  /\ claims'  = [claims EXCEPT ![s] = i.pins]
  /\ handle'  = [handle EXCEPT ![s] = NoTask]
  /\ held'    = [held EXCEPT ![s] = IF state[s] = "EMPTY" THEN @ ELSE {}]
  /\ pending' = [pending EXCEPT ![s] = FALSE]
  /\ posted'  = [posted EXCEPT ![s] = FALSE]

\* The image is copied into blocks U; what the slot then records of it.
Copied(i, s, U) ==
  /\ U \subseteq free \cup Returned(s)
  /\ Cardinality(U) = i.size
  /\ free'    = (free \cup Returned(s)) \ U
  /\ held'    = [held EXCEPT ![s] = U]
  /\ image'   = [image EXCEPT ![s] = i]
  /\ claims'  = [claims EXCEPT ![s] = i.pins]
  /\ pending' = [pending EXCEPT ![s] = FALSE]
  /\ posted'  = [posted EXCEPT ![s] = FALSE]

\* xTaskCreateRestricted() fails: the callers set the state back to EMPTY
\* and leave the arena blocks recorded in the slot.
CreateFails(i, s) ==
  \E U \in SUBSET (free \cup Returned(s)) :
    /\ Copied(i, s, U)
    /\ task'   = [t \in Tasks |-> IF t = Victim(s) THEN Gone ELSE task[t]]
    /\ state'  = [state EXCEPT ![s] = "EMPTY"]
    /\ handle' = [handle EXCEPT ![s] = NoTask]

Starts(i, s) ==
  \E U \in SUBSET (free \cup Returned(s)), t \in Tasks :
    /\ Copied(i, s, U)
    /\ task[t] = Gone \/ t = Victim(s)
    /\ task'   = [u \in Tasks |-> IF u = t THEN [at |-> "init", home |-> s, mem |-> U]
                                  ELSE IF u = Victim(s) THEN Gone ELSE task[u]]
    /\ state'  = [state EXCEPT ![s] = "RUNNING"]
    /\ handle' = [handle EXCEPT ![s] = t]

-----------------------------------------------------------------------------
(* Reset and mdl_supervisor_restore(). *)

\* A reset loses the RAM and keeps the flash.
Init ==
  /\ state   = [s \in Slots |-> "EMPTY"]
  /\ image   = [s \in Slots |-> NoImage]
  /\ claims  = [s \in Slots |-> {}]
  /\ handle  = [s \in Slots |-> NoTask]
  /\ held    = [s \in Slots |-> {}]
  /\ pending = [s \in Slots |-> FALSE]
  /\ posted  = [s \in Slots |-> FALSE]
  /\ task    = [t \in Tasks |-> Gone]
  /\ free    = Units
  /\ tx      = NoTask
  /\ sup     = "restore"
  /\ target  = 0
  /\ waited  = 0
  /\ saved   = {}
  /\ todo    = {}
  /\ hostFault = FALSE

Restart ==
  /\ state'   = [s \in Slots |-> "EMPTY"]
  /\ image'   = [s \in Slots |-> NoImage]
  /\ claims'  = [s \in Slots |-> {}]
  /\ handle'  = [s \in Slots |-> NoTask]
  /\ held'    = [s \in Slots |-> {}]
  /\ pending' = [s \in Slots |-> FALSE]
  /\ posted'  = [s \in Slots |-> FALSE]
  /\ task'    = [t \in Tasks |-> Gone]
  /\ free'    = Units
  /\ tx'     = NoTask
  /\ sup'     = "restore"
  /\ target'  = 0
  /\ waited'  = 0
  /\ saved'   = saved
  /\ todo'    = saved

\* The power fails, or someone presses reset.
PowerCycle == Restart /\ hostFault' \in {hostFault, FALSE}

\* Each saved image goes to the first free slot; the order is the store's.
\* No module has run yet: the lock is free for every message.
RestoreOne(i, s) ==
  /\ sup = "restore" /\ i \in todo
  /\ IsFirst(s, FreeSlots)
  /\ \/ ~Validates(i, s) /\ UNCHANGED <<slotVars, task, free>>
     \/ Validates(i, s) /\ (AcquireFails(i, s) \/ CreateFails(i, s) \/ Starts(i, s))
  /\ todo' = todo \ {i}
  /\ UNCHANGED <<tx, supVars, saved, hostFault>>

RestoreEnds ==
  /\ sup = "restore" /\ (todo = {} \/ FreeSlots = {})
  /\ sup' = "wait" /\ todo' = {}
  /\ UNCHANGED <<slotVars, task, free, tx, target, waited, saved, hostFault>>

-----------------------------------------------------------------------------
(* mdl_supervisor_run(): one pass is wake, scan, frame, console. *)

\* A notification or the 500 ms poll.
Wake ==
  /\ Stage("wait") /\ Silent("scan", {})
  /\ UNCHANGED <<slotVars, task, free, savedVars>>

Parked(s) == handle[s] \in Tasks /\ task[handle[s]].at = "wait"

\* Every faulted slot, and every running one that is overdue and not parked.
Scan_FirstSlot ==
  /\ Stage("scan")
  /\ \E overdue \in SUBSET {s \in Slots : state[s] = "RUNNING" /\ ~Parked(s)} :
       ReclaimOnly({s \in {0} : state[s] = "FAULTED"} \cup overdue, "frame")
  /\ UNCHANGED savedVars

Scan_FaultedOnly ==
  /\ Stage("scan")
  /\ ReclaimOnly({s \in Slots : state[s] = "FAULTED"}, "frame")
  /\ UNCHANGED savedVars

Scan ==
  /\ Stage("scan")
  /\ \E overdue \in SUBSET {s \in Slots : state[s] = "RUNNING" /\ ~Parked(s)} :
       ReclaimOnly({s \in Slots : state[s] = "FAULTED"} \cup overdue, "frame")
  /\ UNCHANGED savedVars

\* No frame, a STATUS, or a LOAD that is refused: the slots stay as they are.
FrameChangesNothing ==
  /\ Stage("frame")
  /\ Silent("console", {}) \/ Writes("console", {})
  /\ UNCHANGED <<slotVars, task, free, savedVars>>

\* find_slot_by_name(), else find_free_slot().
IsDestination(i, s) ==
  IF ByName(i.name) # {} THEN IsFirst(s, ByName(i.name)) ELSE IsFirst(s, FreeSlots)

CommandTaken(i, s) == \E r \in Slots : r # s /\ IsFirst(r, ByCommand(i.cmd))

\* board_persist_save(): replace by name, or append.
SaveTo(i) == {j \in saved : j.name # i.name} \cup {i}

HandleLoad(i, s) ==
  /\ Stage("frame")
  /\ IsDestination(i, s) /\ ~CommandTaken(i, s) /\ Validates(i, s)
  /\ \/ AcquireFails(i, s) /\ saved' = saved
     \/ CreateFails(i, s) /\ saved' = saved
     \/ Starts(i, s) /\ saved' \in {saved, SaveTo(i)}
  /\ Writes("console", {Victim(s)})
  /\ UNCHANGED <<todo, hostFault>>

\* The module to replace was deleted in its output: its reclaim says what
\* became of its pins, and the new one is never copied.
LoadSticks(i, s) ==
  /\ Stage("frame")
  /\ IsDestination(i, s) /\ ~CommandTaken(i, s) /\ Validates(i, s)
  /\ state[s] # "EMPTY" /\ Left({handle[s]}) = Orphan
  /\ ReclaimSays({s}, s, "console")
  /\ UNCHANGED savedVars

Occupied == {s \in Slots : state[s] # "EMPTY"}

HandleUnload ==
  /\ Stage("frame")
  /\ ReclaimAndWrite(Occupied, "console")
  /\ UNCHANGED savedVars

\* No line, a line that only reads, or a command that could not be posted.
ConsoleChangesNothing ==
  /\ Stage("console")
  /\ Silent("wait", {}) \/ Writes("wait", {})
  /\ UNCHANGED <<slotVars, task, free, savedVars>>

\* mdl_supervisor_request_unload().
ConsoleUnload ==
  /\ Stage("console")
  /\ ReclaimAndWrite(Occupied, "wait")
  /\ UNCHANGED savedVars

ConsoleForget ==
  /\ Stage("console") /\ Writes("wait", {})
  /\ saved' = {}
  /\ UNCHANGED <<slotVars, task, free, todo, hostFault>>

\* mdl_supervisor_run_module_command() up to its first vTaskDelay.
RunCommand(c, s) ==
  /\ sup = "console" /\ IsFirst(s, ByCommand(c))
  /\ pending' = [pending EXCEPT ![s] = TRUE]
  /\ posted'  = [posted EXCEPT ![s] = TRUE]
  /\ sup' = "delay" /\ target' = s /\ waited' = 0
  /\ UNCHANGED <<state, image, claims, handle, held, task, free, tx, savedVars>>

\* The slot's event queue was full: cmd_pending stays set, nothing is posted.
CommandNotQueued(c, s) ==
  /\ Stage("console") /\ IsFirst(s, ByCommand(c))
  /\ pending' = [pending EXCEPT ![s] = TRUE]
  /\ Writes("wait", {})
  /\ UNCHANGED <<state, image, claims, handle, held, posted, task, free, savedVars>>

PollDone ==
  /\ Stage("delay") /\ ~pending[target]
  /\ Writes("wait", {})
  /\ UNCHANGED <<slotVars, task, free, savedVars>>

PollFaulted ==
  /\ Stage("delay") /\ pending[target] /\ state[target] = "FAULTED"
  /\ ReclaimAndWrite({target}, "wait")
  /\ UNCHANGED savedVars

PollAgain_NoLimit ==
  /\ sup = "delay" /\ pending[target] /\ state[target] # "FAULTED"
  /\ waited' = waited + 1
  /\ UNCHANGED <<slotVars, task, free, tx, sup, target, savedVars>>

PollAgain_RestartsClock ==
  /\ sup = "delay" /\ pending[target] /\ state[target] # "FAULTED"
  /\ waited + 1 < CmdPolls
  /\ waited' = 0
  /\ UNCHANGED <<slotVars, task, free, tx, sup, target, savedVars>>

PollAgain ==
  /\ sup = "delay" /\ pending[target] /\ state[target] # "FAULTED"
  /\ waited + 1 < CmdPolls
  /\ waited' = waited + 1
  /\ UNCHANGED <<slotVars, task, free, tx, sup, target, savedVars>>

PollTimeout_LeavesIt ==
  /\ Stage("delay") /\ pending[target] /\ state[target] # "FAULTED"
  /\ waited + 1 = CmdPolls
  /\ Writes("wait", {})
  /\ UNCHANGED <<slotVars, task, free, savedVars>>

PollTimeout ==
  /\ Stage("delay") /\ pending[target] /\ state[target] # "FAULTED"
  /\ waited + 1 = CmdPolls
  /\ ReclaimAndWrite({target}, "wait")
  /\ UNCHANGED savedVars

SupervisorStep ==
  \/ \E i \in Images, s \in Slots : RestoreOne(i, s)
  \/ RestoreEnds
  \/ Wake
  \/ Scan
  \/ FrameChangesNothing
  \/ \E i \in Images, s \in Slots : HandleLoad(i, s) \/ LoadSticks(i, s)
  \/ HandleUnload
  \/ ConsoleChangesNothing
  \/ ConsoleUnload
  \/ ConsoleForget
  \/ \E c \in Commands, s \in Slots : RunCommand(c, s) \/ CommandNotQueued(c, s)
  \/ PollDone \/ PollFaulted \/ PollAgain \/ PollTimeout

-----------------------------------------------------------------------------
(* module_task_trampoline(), and the fault handler in a module task. *)

ModulesRun == sup \in {"wait", "delay", "stuck"}

Moves(t, from, to) ==
  /\ ModulesRun /\ task[t].at = from /\ tx # t
  /\ task' = [task EXCEPT ![t].at = to]
  /\ UNCHANGED <<free, tx, supVars, savedVars>>

\* module_init() returned; without a command or an event handler the task ends.
InitReturns_EventsOnly(t) ==
  \E s \in Slots :
    /\ IsCaller(s, t)
    /\ Moves(t, "init", IF ~image[s].evt THEN "finishing" ELSE "drain")
    /\ UNCHANGED slotVars

InitReturns(t) ==
  \E s \in Slots :
    /\ IsCaller(s, t)
    /\ Moves(t, "init", IF image[s].cmd = NoCommand /\ ~image[s].evt
                        THEN "finishing" ELSE "drain")
    /\ UNCHANGED slotVars

\* module_task_mark_finished(): the handle is cleared, the task still runs.
MarkFinished(t) ==
  \E s \in Slots :
    /\ IsCaller(s, t)
    /\ Moves(t, "finishing", "finished")
    /\ state'  = [state EXCEPT ![s] = "LOADED"]
    /\ handle' = [handle EXCEPT ![s] = NoTask]
    /\ UNCHANGED <<image, claims, held, pending, posted>>

\* vTaskDelete(NULL).
DeleteSelf(t) ==
  /\ ModulesRun /\ task[t].at = "finished"
  /\ task' = [task EXCEPT ![t] = Gone]
  /\ UNCHANGED <<slotVars, free, tx, supVars, savedVars>>

TakeConsole(t) ==
  \E s \in Slots :
    /\ IsCaller(s, t) /\ posted[s]
    /\ Moves(t, "drain", "cmd")
    /\ posted' = [posted EXCEPT ![s] = FALSE]
    /\ UNCHANGED <<state, image, claims, handle, held, pending>>

\* module_task_finish_cmd().
FinishCmd(t) ==
  \E s \in Slots :
    /\ IsCaller(s, t)
    /\ Moves(t, "cmd", "drain")
    /\ pending' = [pending EXCEPT ![s] = FALSE]
    /\ UNCHANGED <<state, image, claims, handle, held, posted>>

TakeEvent(t) ==
  \E s \in Slots :
    /\ IsCaller(s, t) /\ image[s].evt
    /\ Moves(t, "drain", "evt")
    /\ UNCHANGED slotVars

HandlerReturns(t) == Moves(t, "evt", "drain") /\ UNCHANGED slotVars

\* module_task_wait(): parked until a notification or its own timeout.
Park(t) ==
  /\ \A s \in Slots : IsCaller(s, t) => ~posted[s]
  /\ Moves(t, "drain", "wait") /\ UNCHANGED slotVars

Unpark(t) == Moves(t, "wait", "drain") /\ UNCHANGED slotVars

\* host_log() in mdl_transport_write(): what it prints is bounded.
LogTakes(t) ==
  /\ ModulesRun /\ task[t].at \in InModule /\ tx = NoTask
  /\ tx' = t
  /\ UNCHANGED <<slotVars, task, free, supVars, savedVars>>

LogGives(t) ==
  /\ ModulesRun /\ tx = t
  /\ tx' = NoTask
  /\ UNCHANGED <<slotVars, task, free, supVars, savedVars>>

\* mdl_record_fault(): the first slot whose text holds the faulting address.
\* That is the module's own when it touched what it may not; after a jump
\* it is the address jumped to, which may lie in any resident module's.
Fault(t) ==
  /\ ModulesRun /\ task[t].at \in InModule /\ tx # t
  /\ \E s \in Slots, u \in Units :
       /\ IsFirst(s, {r \in Slots : state[r] # "EMPTY" /\ u \in held[r]})
       /\ state' = [state EXCEPT ![s] = "FAULTED"]
  /\ task' = [task EXCEPT ![t].at = "trap"]
  /\ UNCHANGED <<image, claims, handle, held, pending, posted, free, tx, supVars, savedVars>>

\* The address is in no slot's text (a call through a wild pointer), the
\* exception could not be stacked, or it is a BusFault or a UsageFault.
FaultResets(t) ==
  /\ ModulesRun /\ task[t].at \in InModule
  /\ Restart /\ hostFault' = TRUE

ModuleStep(t) ==
  \/ InitReturns(t) \/ MarkFinished(t) \/ DeleteSelf(t)
  \/ TakeConsole(t) \/ FinishCmd(t) \/ TakeEvent(t) \/ HandlerReturns(t)
  \/ LogTakes(t) \/ LogGives(t)
  \/ Park(t) \/ Unpark(t) \/ Fault(t) \/ FaultResets(t)

Next == SupervisorStep \/ (\E t \in Tasks : ModuleStep(t)) \/ PowerCycle

\* A module that hangs in the loop its fault was answered with.
Trapped(s) == handle[s] \in Tasks /\ task[handle[s]].at = "trap"

\* The supervisor has the highest priority but one.  Every place where it
\* blocks has a timeout, but for the transmit lock: it always takes its next
\* step, and it has none when the lock's holder was deleted.  A trapped task
\* calls its host no more, so that the scans do find its slot overdue.
Fairness ==
  /\ WF_vars(SupervisorStep)
  /\ \A s \in Slots : SF_vars(Scan /\ Trapped(s) /\ state'[s] = "EMPTY")

Spec == Init /\ [][Next]_vars /\ Fairness

-----------------------------------------------------------------------------
(* Safety *)

(* supervisor.c and module_task.c hand tasks and slots over to each other  *)
(* through task_handle: a handle is always that of a living task of this   *)
(* very slot, whose stack lies in the slot's arena blocks, and every task  *)
(* that has not marked itself finished is reachable through its handle, so *)
(* that a reclaim can delete it: also one that has trapped, whichever slot *)
(* its fault was charged to.  A task created in a TCB used before never    *)
(* revives a stale handle.                                                 *)
HandlesAgree ==
  /\ \A s \in Slots :
       /\ state[s] = "RUNNING" => handle[s] # NoTask
       /\ handle[s] # NoTask =>
            /\ state[s] \in {"RUNNING", "FAULTED"}
            /\ task[handle[s]].at \notin {"gone", "finished"}
            /\ task[handle[s]].home = s
            /\ task[handle[s]].mem = held[s]
  /\ \A t \in Tasks : task[t].at \notin {"gone", "finished"} => handle[task[t].home] = t

(* arena.c: a block is never handed to two slots, and never both free and  *)
(* held, whichever loads fail in between and wherever they fail.           *)
ArenaExclusive ==
  /\ \A s \in Slots : held[s] \cap free = {}
  /\ \A r, s \in Slots : r # s => held[r] \cap held[s] = {}
  /\ \A s \in Slots : state[s] # "EMPTY" => held[s] # {}

(* host_resources.c: one physical pin has one owner among the resident     *)
(* modules, and never one the host keeps for itself, also after a boot     *)
(* that restored several modules and after loads that failed half way.     *)
PinsExclusive ==
  /\ \A s \in Slots : state[s] # "EMPTY" => claims[s] \cap HostPins = {}
  /\ \A r, s \in Slots :
       r # s /\ state[r] # "EMPTY" /\ state[s] # "EMPTY" => claims[r] \cap claims[s] = {}

(* supervisor.c:360-368: a push of the same module replaces it, so a name  *)
(* never names two resident modules; nor does a boot bring one up twice,   *)
(* because the store replaces by name too, and what restore() has still to *)
(* load is not resident yet.                                               *)
NamesUnique ==
  /\ todo \subseteq saved
  /\ \A i, j \in saved : i.name = j.name => i = j
  /\ \A i \in todo : sup = "restore" /\ ByName(i.name) = {}
  /\ \A r, s \in Slots :
       r # s /\ state[r] # "EMPTY" /\ state[s] # "EMPTY" /\ image[r].name # NoName
         => image[r].name # image[s].name

(* Memory, wires and names have one owner each, at every step of a load,   *)
(* a replacement, a reclaim and a boot, and wherever one of them fails:    *)
(* the supervisor keeps no second record that could tell it otherwise.     *)
NothingIsShared == ArenaExclusive /\ PinsExclusive /\ NamesUnique

(* The supervisor's scan runs before its frame and console handlers, and   *)
(* no module runs in between: a handler never meets a faulted slot, whose  *)
(* task is still alive.                                                    *)
HandlersSeeNoFault ==
  sup \in {"restore", "frame", "console"} => \A s \in Slots : state[s] # "FAULTED"

(* s_cmd_argc and s_cmd_argv (module_task.c:78-79) are one pair for all    *)
(* slots: it is safe because a console command is outstanding in at most   *)
(* one slot, the one the supervisor waits for, and in none once the wait   *)
(* is over, however it ended.  That wait reads cmd_pending: it is set for  *)
(* as long as the command is queued or runs.                               *)
OneCommandAtATime ==
  \A s \in Slots :
    LET runs == handle[s] # NoTask /\ task[handle[s]].at = "cmd"
    IN  /\ posted[s] \/ runs => sup = "delay" /\ target = s /\ pending[s]
        /\ ~(posted[s] /\ runs)

(* While the supervisor waits for a command, the slot it polls still holds *)
(* the module the command was posted to: it never reads the cmd_ret of a   *)
(* module that came after it, because a module that has a command does not *)
(* end by itself.                                                          *)
WaitsOnALiveSlot ==
  /\ sup = "delay" => state[target] \in {"RUNNING", "FAULTED"} /\ image[target].cmd # NoCommand
  /\ \A s \in Slots :
       handle[s] # NoTask /\ task[handle[s]].at = "finishing" => image[s].cmd = NoCommand

(* Liveness *)

(* A slot marked as faulted is reclaimed, whatever the other modules, the  *)
(* console and the host keep the supervisor busy with; but a neighbour     *)
(* that was marked may still end by itself, which makes it "LOADED", and   *)
(* a supervisor stuck on an orphaned transmit lock reclaims nothing.       *)
FaultedIsReclaimed ==
  \A s \in Slots :
    state[s] = "FAULTED" ~> state[s] \in {"EMPTY", "LOADED"} \/ sup = "stuck"

(* The task that faulted is deleted in the end, also when its fault was    *)
(* charged to another slot and its own still reads "RUNNING": then it is   *)
(* the watchdog that takes it.  The same exception.                        *)
CulpritIsDeleted ==
  \A t \in Tasks : task[t].at = "trap" ~> task[t].at # "trap" \/ sup = "stuck"

(* supervisor.c:489-496: the supervisor's own watchdog loop does not run    *)
(* while it waits for a console command, and yet that wait ends, whatever  *)
(* the module does, and the console is served again; except that the       *)
(* supervisor is stuck for ever when it deletes a module in its output.    *)
CommandWaitEnds == sup = "delay" ~> sup \in {"console", "restore", "stuck"}

-----------------------------------------------------------------------------
(* What comments of the code say and the code does not do *)

(* supervisor.c:125-127 "After the task is gone": every block a living     *)
(* task runs on belongs to its slot.                                       *)
TaskMemoryIsHeld ==
  \A t \in Tasks : task[t].at # "gone" => task[t].mem \subseteq held[task[t].home]

(* fault_arm.c:95-99: a module's fault leads to the recovery of its slot,  *)
(* and the record of a host fault says that the host has a bug.  Nothing   *)
(* in this specification is a fault of the host.                           *)
HostFaultIsAHostBug == ~hostFault

(* supervisor.c:555-558 "A module that faults or wedges takes only itself  *)
(* out": a fault marks the slot of the task that trapped, and no other.    *)
FaultMarksItsOwn ==
  \A s \in Slots : state[s] = "RUNNING" /\ state'[s] = "FAULTED"
    => /\ handle[s] # NoTask /\ task[handle[s]].at # "trap"
       /\ task'[handle[s]].at = "trap"
FaultIsContained == [][FaultMarksItsOwn]_vars

=============================================================================
