------------------------------ MODULE Watchdog ------------------------------
(***************************************************************************)
(* When the supervisor takes a module for hung: the two tick fields of its *)
(* slot, the host calls that write them (src/mdl/host/host_api.c, the      *)
(* wait in module_task.c) and the scan that reads them (supervisor.c).     *)
(*                                                                         *)
(* The fields are per slot and so is the test, so one slot is enough.  The *)
(* module's task has the lowest priority and shares it: any number of      *)
(* ticks and scans may pass between two of its steps, in the middle of a   *)
(* host call too.  Ticks are counted modulo TickMod, as uint32_t is modulo *)
(* 2^32, and compared the same way.                                        *)
(*                                                                         *)
(* The supervisor scans once per turn of its loop, and a turn may be long: *)
(* it waits for the command of a module, and it may wait for ever for the  *)
(* transmit lock (see Supervisor).                                         *)
(***************************************************************************)
EXTENDS Integers

CONSTANTS
  TickMod,    \* 2^32
  Timeout,    \* MDL_WATCHDOG_TIMEOUT_MS
  Poll,       \* the wait before a scan (MDL_WATCHDOG_POLL_MS)
  Turn,       \* the longest the loop works before it waits again: the command
              \* of a module (MDL_CMD_TIMEOUT_MS) and what comes before it
  Rate,       \* ticks per second and milliseconds per second, both 1000
  WaitTicks,  \* the longest wait for an event
  Delays      \* what the module asks delay_ms() for

ASSUME WatchdogAssumption ==
  /\ TickMod \in Nat \ {0} /\ TickMod % 2 = 0
  /\ Timeout \in Nat /\ Poll \in Nat \ {0} /\ Turn \in Nat
  /\ Timeout + Turn + Poll < TickMod \div 2
  /\ Rate \in Nat \ {0}
  /\ WaitTicks \in Nat /\ Delays \subseteq 0 .. TickMod - 1

VARIABLES
  now,      \* xTaskGetTickCount()
  sup,      \* the supervisor "works" on a turn, "waits" for the next, or is
            \* "stuck" in a send: a task was deleted that held the lock
  due,      \* ticks until it must go on
  running,  \* the slot is RUNNING; it is EMPTY otherwise
  active,   \* last_active_tick
  parked,   \* parked_until_tick
  at,       \* where the module's task is: "runs"; "parks", the deadline is
            \* written and privilege is down; "sleeps", "waits", blocked;
            \* "wakes", ready again; "unparked", the deadline is gone
  left,     \* ticks it still has to sleep
  ahead,    \* ticks still to come of the delay it asked for
  quiet,    \* ticks it was not blocked since it last made progress, up to Cap
  slipped   \* ticks it was ready and did not run, before or after its sleep

slotVars == <<running, active, parked>>
taskVars == <<at, left, ahead, quiet, slipped>>
wdVars   == <<now, sup, due, slotVars, taskVars>>

Ticks   == 0 .. TickMod - 1
Forever == TickMod - 1            \* MDL_PARKED_FOREVER
Half    == TickMod \div 2
Cap     == TickMod

Later(a, b)  == (a + b) % TickMod
Minus(a, b) == (a - b) % TickMod

WatchdogInit ==
  /\ now \in Ticks
  /\ sup = "works" /\ due = Turn
  /\ running = FALSE /\ active = 0 /\ parked = 0
  /\ at = "runs" /\ left = 0 /\ ahead = 0 /\ quiet = 0 /\ slipped = 0

-----------------------------------------------------------------------------
(* The clock and the slot. *)

UpTo(n)   == IF n < Cap THEN n + 1 ELSE Cap
DownTo(n) == IF n > 0 THEN n - 1 ELSE 0

Blocked == at \in {"sleeps", "waits"}

Tick ==
  /\ sup # "stuck" => due > 0
  /\ now' = Later(now, 1)
  /\ due' = DownTo(due)
  /\ left' = IF Blocked THEN DownTo(left) ELSE left
  /\ ahead' = IF Blocked THEN DownTo(ahead) ELSE ahead
  /\ at' = IF Blocked /\ left <= 1 THEN "wakes" ELSE at
  /\ quiet' = IF running /\ ~ Blocked THEN UpTo(quiet) ELSE quiet
  /\ slipped' = IF at \in {"parks", "wakes"} THEN UpTo(slipped) ELSE slipped
  /\ UNCHANGED <<sup, slotVars>>

\* mdl_start_module_task(): the count starts before the task first runs.
Start ==
  /\ sup = "works" /\ ~ running
  /\ running' = TRUE
  /\ active' = now
  /\ at' = "runs" /\ quiet' = 0
  /\ UNCHANGED <<now, sup, due, parked, left, ahead, slipped>>

\* reclaim_slot()
Reclaims ==
  /\ running' = FALSE
  /\ active' = 0 /\ parked' = 0
  /\ at' = "runs" /\ left' = 0 /\ ahead' = 0 /\ quiet' = 0 /\ slipped' = 0

\* A command, an image that replaces it, or a fault.
Unload == running /\ sup # "stuck" /\ Reclaims /\ UNCHANGED <<now, sup, due>>

-----------------------------------------------------------------------------
(* The module's host calls. *)

Runs(place) == running /\ at = place

Feeds == active' = now /\ quiet' = 0

\* watchdog_feed(), and the end of every call of a driver.
Feed ==
  /\ Runs("runs")
  /\ Feeds
  /\ UNCHANGED <<now, sup, due, running, parked, at, left, ahead, slipped>>

\* pdMS_TO_TICKS(): the product is an unsigned of the tick's width.
InTicks(ms) == ((ms * Rate) % TickMod) \div Rate

\* delay_ms(): the deadline is announced first, in milliseconds, ...
Delay_Parks(ms) ==
  /\ Runs("runs")
  /\ parked' = Later(now, ms + 1)
  /\ at' = "parks" /\ left' = InTicks(ms) /\ ahead' = ms /\ slipped' = 0
  /\ UNCHANGED <<now, sup, due, running, active, quiet>>

\* ... the sleep begins whenever the task runs again.  vTaskDelay(0) only yields.
Delay_Sleeps ==
  /\ Runs("parks")
  /\ at' = IF left = 0 THEN "wakes" ELSE "sleeps"
  /\ UNCHANGED <<now, sup, due, running, active, parked, left, ahead, quiet, slipped>>

\* module_task_wait()
Wait ==
  /\ Runs("runs")
  /\ parked' = Forever
  /\ at' = "waits" /\ left' = WaitTicks
  /\ UNCHANGED <<now, sup, due, running, active, ahead, quiet, slipped>>

Notified ==
  /\ Runs("waits")
  /\ at' = "wakes"
  /\ UNCHANGED <<now, sup, due, running, active, parked, left, ahead, quiet, slipped>>

Return_Unparks_Not ==
  /\ Runs("wakes")
  /\ at' = "unparked" /\ left' = 0 /\ ahead' = 0
  /\ UNCHANGED <<now, sup, due, running, active, parked, quiet, slipped>>

\* Both calls end with these two stores, in this order.
Return_Unparks ==
  /\ Runs("wakes")
  /\ parked' = 0
  /\ at' = "unparked" /\ left' = 0 /\ ahead' = 0
  /\ UNCHANGED <<now, sup, due, running, active, quiet, slipped>>

Return_Feeds_Not ==
  /\ Runs("unparked")
  /\ at' = "runs" /\ slipped' = 0
  /\ quiet' = 0
  /\ UNCHANGED <<now, sup, due, running, active, parked, left, ahead>>

Return_Feeds ==
  /\ Runs("unparked")
  /\ Feeds
  /\ at' = "runs" /\ slipped' = 0
  /\ UNCHANGED <<now, sup, due, running, parked, left, ahead>>

-----------------------------------------------------------------------------
(* One turn of mdl_supervisor_run(). *)

\* (int32_t)(a - b) < 0
Before(a, b) == Minus(a, b) >= Half

IsParked_Unsigned == parked = Forever \/ (parked # 0 /\ now < parked)

IsParked == parked = Forever \/ (parked # 0 /\ Before(now, parked))

IsOverdue == ~ IsParked /\ Minus(now, active) > Timeout

Scan ==
  /\ sup = "waits"
  /\ sup' = "works" /\ due' = Turn
  /\ now' = now
  /\ IF running /\ IsOverdue
     THEN Reclaims
     ELSE UNCHANGED <<slotVars, taskVars>>

\* The frame and the line are done: ulTaskNotifyTake().
Waits ==
  /\ sup = "works"
  /\ sup' = "waits" /\ due' = Poll
  /\ UNCHANGED <<now, slotVars, taskVars>>

\* mdl_transport_write() after another slot's task was deleted in it.
Sticks ==
  /\ sup # "stuck"
  /\ sup' = "stuck" /\ due' = 0
  /\ UNCHANGED <<now, slotVars, taskVars>>

WatchdogNext ==
  \/ Tick \/ Start \/ Unload \/ Scan \/ Waits \/ Sticks
  \/ Feed \/ Wait \/ Notified
  \/ \E ms \in Delays : Delay_Parks(ms)
  \/ Delay_Sleeps \/ Return_Unparks \/ Return_Feeds

WatchdogSpec == WatchdogInit /\ [][WatchdogNext]_wdVars

-----------------------------------------------------------------------------
(* Properties. *)

(* A module that computes without a word to the host is gone after the      *)
(* timeout, the longest turn of the loop and one poll, whatever it did      *)
(* before, wherever the counter wraps (supervisor.c:531-542, 571-591): no   *)
(* deadline or time of its last call outlives the call.  But not when the   *)
(* supervisor is stuck in a send.                                           *)
HungIsReclaimed ==
  running /\ at = "runs" /\ sup # "stuck" => quiet <= Timeout + Turn + Poll

Killed == running /\ ~ running' /\ Scan

\* Its announced deadline is no measure of its sleep: it fell on the tick
\* that means "not parked", or it is more than half the counter ahead.
Misread == parked = 0 \/ ahead >= Half

(* A scan takes out only a module that was not blocked for longer than the  *)
(* timeout since it last made progress (registry.h:50-65, 82-89), but in    *)
(* the cases the code is open to: the module is back from its wait, its     *)
(* deadline is gone and its progress is not noted yet (host_api.c:642-644,  *)
(* module_task.c:184-185); or its sleep is over or under way, and the       *)
(* deadline misread, or past because it lost the processor around its sleep *)
(* (host_api.c:633-642).                                                    *)
OnlyTheHungAreKilled ==
  [][Killed => \/ quiet > Timeout
               \/ at = "unparked"
               \/ at \in {"sleeps", "wakes"} /\ (Misread \/ slipped > 0)]_wdVars

(* A sleeping or waiting module is not hung (registry.h:82-89): no scan     *)
(* takes it out before its time is over, but when its deadline is misread   *)
(* or it lost the processor for more than a tick between announcing the     *)
(* deadline and sleeping.                                                   *)
SleepersAreSpared == [][Killed /\ Blocked => Misread \/ slipped > 1]_wdVars
=============================================================================
