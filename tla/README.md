# A verification project for the module sandbox

The repository is firmware for a Cortex-M4 board: a FreeRTOS host that loads
position-independent modules over USB into slots of RAM, runs each as an MPU-confined
task, arbitrates the pins between them, hands them interrupts and console commands,
contains their faults, watches for hangs, and keeps chosen modules in flash for the next
boot. This directory holds TLA+ specifications of it, TLC configurations that check them
on small instances, and proofs that TLAPS checks for every value of the constants.

`src/mdl/core`, `src/mdl/host` and `src/mdl/transport` are the host's own logic;
`src/mdl/arch` is the part that knows the CPU, `src/mdl/tests/hil` the boards (the flash
store and `main.c` live there), `src/mdl/third_party` and the CMSIS headers are vendored.

## 1. Inventory

Who runs when (`tests/hil/*/main.c`, `module_task.c`, `supervisor.c`):

| actor | priority | blocks in |
|---|---|---|
| interrupt handlers (EXTI, USART, USB) | 6, all the same, no nesting | never |
| USB receive task | MAX-2 | a 10 ms delay between polls |
| supervisor task | MAX-3 | `ulTaskNotifyTake` (500 ms at most), the 10 ms polls of a console command, the transmit lock |
| heartbeat / indicator tasks | 2 | delays |
| module tasks | 1, time-sliced among themselves | parks, queue waits, delays |

A module task therefore takes a step only while the supervisor blocks; an interrupt comes
at any point; the USB task preempts the supervisor at any point. Every model's grain of
atomicity follows from this table.

### Components

**Supervisor** (`core/supervisor.c`). *State*: the slot table (state, image name, command,
task handle, claims, regions, `cmd_pending`). *Operations*: scan (reclaim faulted and overdue
slots), a frame (LOAD, LOAD_PERSIST, UNLOAD, PING, STATS), a console line (modules,
unload, forget, a module's own command), restore at boot. *Interacts with* all that follows.
*Hard*: a replacement must be checked while the old module runs and carried out after it is
gone; waits for a command while nothing else is supervised; a load can fail at four places.
*Correct when*: tasks, memory, pins and names have one owner at all times, a faulted slot is reclaimed
and the task that faulted deleted, every wait ends. Its weak points: which slot a fault is charged to, and
the transmit lock, on which it waits without a limit.

**Module task** (`core/module_task.c`). *State*: where its trampoline is; `s_cmd_argc/argv`
shared by all slots. *Operations*: `module_init`, drain the queue, handler or command, park, end.
*Hard*: it ends by itself in two steps (clear the handle, delete the task) with the supervisor
free to run in between; the wake-up between "queue empty" and "wait".

**Loader, arena, buddy** (`core/loader.c`, `arena.c`, `buddy.c`). *State*: free blocks per order.
*Operations*: validate, acquire three regions all or nothing, copy and relocate, release.
*Hard*: the check before the replacement and the allocation after it do not ask the same
question; splitting and coalescing; a request of zero bytes.

**Resources** (`host/host_resources.c`). *State*: none of its own; it reads the slots' claims.
*Correct when* one pin has one owner, whatever the state of the slot that holds it.

**Registry and fault handlers** (`core/registry.c`, `arch/arm_cm4/fault_arm.c`).
*Operations*: attribute a fault to the slot whose text holds the PC, mark it FAULTED and divert
the task into a trap, or reset the board. *Hard*: it runs as an exception of the module; the PC of a
module that jumped is not in its own text.

**Flash store** (`tests/hil/common/board_persist.c`, contract in `core/persist.h`). *State*: two
banks, each with a table, images, a sequence number, a checksum, and a magic word that is written
last. *Operations*: save (build the other bank, then erase the old one), forget, read at boot.
*Hard*: a power cut or a failure between any two flash operations; the sequence number wraps;
the buffer the image is written from.

**Event queue and event layer** (`host/host_events.c`). *State*: a ring with its statistics per slot,
the task to notify, `s_pin_slot`, the interrupt controller's lines. *Operations*: post from
an interrupt (merge, add or lose), post a console command, take, reset, arm, disarm.
*Hard*: interrupts between any two steps of a load or a reclaim; full queues; saturation and wrap;
indices rewritten outside critical sections.

**UART driver** (`host/host_uart.c`). *State*: open flag, receive ring, drop counter, rate. *Hard*:
ring shared by handler and reader; the window between enabling the interrupt and setting `open`; error flags that
the read of a byte clears; what the peripheral still holds when its owner changes;
instances 2 and 4 on one peripheral; the loopback test.

**Host API** (`host/host_api.c`). *State*: `last_active_tick`, `parked_until_tick` per slot; the
pool a module allocates from. *Hard*: two words written by the module's task and read by the
supervisor's, ticks modulo 2^32 and a conversion to them that wraps earlier; a block freed twice, a pointer that
never was a block, a size that wraps.

**I2C, SPI, ADC** (`host/host_i2c.c`, `host_spi.c`, `host_adc.c`). *State*: which bus is open, the
divider and mode of an SPI, the channels claimed and the one ADC they share. *Operations*: claim,
transfer or conversion, recovery, release, and the console's transfer on an I2C bus. *Hard*: a module is
unloaded in the middle of a transfer; two modules convert on one ADC without a lock.

**Protocol and USB transport** (`transport/protocol.c`, `usb_cdc.c`). *State*: the parser, one frame
buffer with a ready flag, the transmit lock. *Hard*: typed text and frames share the bytes; the
supervisor works on the buffer the parser goes on writing; a second frame before the first is taken;
a response in three writes; a task deleted with the lock in its hands.

**Console** (`transport/console.c`). *State*: one line buffer with a ready flag, the same hazards.

**Outside the logic**: MPU set-up, context switch and relocation (`arch/`), CRC, clock and LED
set-up, the packer and the host-side tools (`tools/`), the FreeRTOS port, sample modules.

`PROJECT.json` has one entry per component with what is modelled of it, and every hazard at
the line where it bites.

## 2. The modules

| module | models | is used by |
|---|---|---|
| `Supervisor` | slots, loads, reclaims, console, module tasks, faults, boot | `MCSupervisor`, `SupervisorProofs` |
| `Store` | what `persist.h` promises, abstractly | `Persist` (refinement) |
| `Persist` | the two-bank store, one action per flash operation | `MCStorage`, `PersistProofs` |
| `EventStream` | what `mdl_format.h:200-243` promises of events, abstractly | `EventQueue` (refinement) |
| `EventQueue` | the ring of one slot, with its statistics | `MCSlotParts`, `EventQueueProofs` |
| `Events` | all slots' events, interrupts against loads, reclaims and tasks | `MCEvents`, `EventsProofs` |
| `Allocator` | what `buddy.h` promises, abstractly | `Buddy`, `Arena` (refinements) |
| `Buddy` | the buddy allocator, one turn of its loops at a time | `Arena` |
| `Arena` | its callers: acquire, undo, release, self-test | `MCStorage`, `BuddyProofs` |
| `Watchdog` | the tick fields of a slot, the calls that write them and the scan | `MCSlotParts`, `HostCallsProofs` |
| `Heap` | the pool of a module, `alloc` and `free` | `MCSlotParts`, `HostCallsProofs` |
| `Resources` | declarations, their pins, `mdl_res_check` | `Uart`, `Buses`, `Adc` |
| `Uart`, `Buses`, `Adc` | the drivers, a call cut where others can come between | `Devices` |
| `Devices` | loads, unloads, the console and GPIO over all drivers | `MCDevices`, `DevicesProofs` |
| `Transport` | parser, line buffer, responses and the transmit lock | `MCTransport`, `TransportProofs` |

The definitions named `Name_Something` next to `Name` are plausible wrong versions of `Name`,
kept to show that each property notices one.

### Supervisor

`state`, `image`, `claims`, `handle`, `held`, `pending` are the fields of a slot of the same meaning;
`posted` stands for the console record in the slot's queue; `free` is the arena; `task` is the
set of control blocks with where each task is (`at`), the slot it was created for (`home`) and the
blocks its stack lies in (`mem`), which is not the slot's field and may outlive it; `saved` is
the set in flash; `todo` is what `mdl_supervisor_restore` has still to load; `sup`, `target`,
`waited` are the supervisor's control point and its command wait; `tx` is the module task that holds the transmit
lock, or `Orphan` when that task was deleted.

The supervisor's loop is `Wake`, `Scan`, one frame (`HandleLoad`, `HandleUnload`,
`FrameChangesNothing`), one console line (`ConsoleUnload`, `ConsoleForget`, `RunCommand`,
`CommandNotQueued`, `ConsoleChangesNothing`) and back to `wait`. `HandleLoad` is
the whole of `handle_load`: find the destination, validate, refuse a taken command, reclaim
the old module, acquire, copy, create the task, save; it is composed of `AcquireFails`,
`CreateFails` and `Starts`, which `RestoreOne` shares. A module task moves through `init`, `drain`,
`evt`, `cmd`, `wait`, `finishing`, `finished`; `LogTakes` and `LogGives` are its output, bounded by
`usb_cdc.c:197`; `Fault` and `FaultResets` are the exception handlers. The address of a fault is any
in the arena: after a jump it is the address jumped to, and `Fault` marks the first slot whose memory holds it, as
`mdl_record_fault` does, while the task that trapped is the one that ran. `Restart` is a reset: everything is lost but
`saved` and the fault record.

Modules step only in `ModulesRun`, i.e. while `sup` is `wait`, `delay` or `stuck`. A step of the supervisor that writes
waits for the lock; a living holder inherits its priority, ends its output and gives it back, all within that step. When the
step deletes the holder, or one before it did, it ends in `stuck` (`Writes`, `ReclaimSays`), where the supervisor has no
step left. Modules then go on, and only a reset, a wild jump included, gets the board out.

### Store and Persist

`Store` has three variables: the `saved` set, the `shadow` of a superseded set that may still
be there, and whether an operation is under way. A save adds or replaces one image in one
step; a failure or a power cut leaves the old or the new set; a `forget` cut short may
leave a superseded set behind (the code does not promise more, and the model of it shows why).

`Persist` has two banks (`magic`, `seq`, `table`, and in `body` the images its data sectors hold),
and `op`, the next flash operation: erase the other bank's header, its image sectors,
carry the kept images over, write the new one, checksum, header, magic, and erase the old bank
in the same two steps. `OperationFails` and `PowerCut` can occur at any of them. `Fits` says which sets
fit in a bank.

### EventStream and EventQueue

`EventStream` is a sequence of records; `EventQueue` is the ring. `post_from_isr` is split
by its outcome into `Merge`, `Lose`, `Add`; `Take`, `PostConsole`, `Reset` and `Disarm` are
the other functions. The refinement reads the ring from `head`. Two variables are not in the code:
`raised`, the number of occurrences since the last reset, and `newest`, the last payload of each source.
Each operation is one step: the handlers share a priority, the tasks use critical sections, and
the two functions that do neither (`mdl_events_reset`, `mdl_events_disarm_slot`) run when
nobody can post to that ring, which is a part of `LinesFollowTheSlots` of `Events`.
Left out: the time stamps and the one-second rate window.

### Events

`pend[s]` is the queue of `EventQueue` without counts and payloads, `hook[s]` is `s_evt[s].task`,
`armed[s]` the mask of lines, `owner[p]` is `s_pin_slot`, `lines` the interrupt lines
enabled, `open` the UARTs open. A reclaim and a load are cut where an interrupt can tell
the difference: delete the task, mark the slot EMPTY, unhook, disable the lines, clear the
queue, close the UARTs, forget the image; create the task, reset the queue, and per source
enable, then map. `Edge` and `Byte` are the interrupts. The trampoline has a step for "the
queue was empty" (`Drained`), one for consuming a notification before blocking
(`NotifyTake`), one for being woken, one for the timeout.

Assumed: an image that declares an interrupt line has an event handler (`tools/packer.py:504-509`
refuses to build any other). Left out: memory, names, pins and faults (in `Supervisor`), the shared
peripheral of UART instances 2 and 4 (in `Devices`).

### Allocator, Buddy and Arena

`Allocator` has one variable, the set of granted blocks; a grant is a block of a power of two, aligned to
its size and apart from all others. `Buddy` has `free[k]`, the list of order `k` as a set (its
sequence only decides which of several equal blocks is taken), `order[a]`, which is `s_order`, and
`hand`, the block a call is working on. `mdl_buddy_alloc` is `Alloc_Pop`, `Alloc_Split` once per turn of
the loop, `Alloc_Return`; `mdl_buddy_free` is `Free_Take`, `Free_Merge` per turn, `Free_Push`. A call that
refuses is `Alloc_Refuses`, or changes nothing. Powers of two are a function, `P`, so that proofs need no
induction.

`Arena` makes these calls in the order of the code: three allocations and, if one of them is NULL, three
frees (`FreeAll`); three frees for a release; the script of the self-test, between saving the live state and
restoring it. A free block holds its list link, so pushing it writes memory: `disturbed` is the
set of slots whose memory was written to. When the self-test overwrote the link of a block the lists
are undefined and the behaviour is not followed further (`Undefined`).

`Supervisor` goes on using an arena of equal blocks: a load there needs a number of blocks and gets all or none,
which is what `NothingLeaks` says of the real one; `AcquireFails` covers every reason for a NULL.

### Watchdog and Heap

`Watchdog` is one slot: `active` is `last_active_tick`, `parked` is `parked_until_tick`, `now` the tick
counter, all modulo `TickMod` and compared as the code compares them. Any number of ticks and scans may
pass between two stores of `host_delay_ms`: `Delay_Parks`, `Delay_Sleeps`, then `Return_Unparks` and
`Return_Feeds`. The deadline is announced in milliseconds and the sleep is in ticks: `InTicks` multiplies before it divides, modulo
`TickMod`, as `pdMS_TO_TICKS` does. `Wait` is the wait for an event. The supervisor (`sup`) works on a turn of its loop, for
`Turn` ticks at most (the command of a module takes up to 5 s), waits for `Poll` at most, and scans; or it is
stuck on the transmit lock and scans no more (`Sticks`). Three variables are not in the code: `quiet`, ticks not asleep
since the module made progress, `slipped`, ticks it was ready and did not run around a sleep, and `ahead`, what is to come of the delay it
asked for.

`Heap` is the pool of a module: `hdr` is what its memory reads as at each place a header can be, `list`
is `pool_free_list`, `top` is `pool_next`; `owned[b]` counts those in the module who think that block `b` is
theirs. `free` takes any pointer that passes the code's range test: a former header (`Free`), or any other
(`Free_Foreign`), whose header then is text or data. Such headers are `loose`: `Rewrite` changes them whenever they are on
the list, as the arguments of a command or a store of the module do, to another block, to none or to an address outside
the heap; `Alloc_Astray` is the search that follows it there, and what it does there is not followed further. An address that is not aligned stands
with the cell it begins in. A request may be so large that its rounding wraps.

Neither shares state with the other nor with the event queue, so `MCSlotParts` chooses one of the three parts of a slot at the start and
moves only that one. `MCStorage` does the same with the two places an image is kept, `Arena` and `Persist`.

### Resources, Uart, Buses, Adc and Devices

`res[s]` is the list of declarations of slot `s`, `call[s]` the host call its task is in. Each driver module
defines claim, release and the steps of its calls; `Devices` composes them. Its supervisor works on one
declaration after the other (`Claim_...`, `Release_...`), as `start_loaded_module()` and `reclaim_slot()` do,
deletes the task first, and serves the console's I2C command when it is idle.
Module tasks may step between any two of its steps: it can block on the transmit lock in a report. That allows a few
more interleavings than the code has, which is safe for the safety properties checked here.

`Uart`: `head`, `tail`, `ring`, `dropped` and `uopen` are the fields of `uart_bus_t`; `irq` the line, `rx`
the enable bit, `data` and `err` (overrun, framing or noise) the peripheral. The n-th byte on a line is the number n, which is what lets
`ReceivedInOrder` speak of order and loss. `Serve` is the whole handler: with a byte there, reading status and data clears the
flags, and only an error that arrives while the handler runs (`late`) meets the test behind it, which throws that byte away
and counts it; an error without a byte is counted. `lost` records that a byte was overrun, `own` and `stale` which byte was the last
before the claim and which one the data register still held. A read is cut between the copy and the move of `tail`, a claim
between enabling the line and setting `uopen`, a release before it clears `uopen`. A vector serves only
open instances (`Serves`); `LooksUp` are the vectors that look for one.

`Buses`: a wire is idle, busy, wedged (a transfer broke off) or garbled (a second one began on
it). `Adc`: one ADC with its selected channel, its flag and its data, and conversions in five steps; the flag `mixed` of
a call says that another module's conversion has come between.

No task takes a step while an interrupt is pending (`TasksRun`).

### Transport

A byte of a frame is the frame and its position, so that a checksum matches exactly a frame's own bytes. `parser`,
`buf`, `ready`, `line`, `lock` are the state of the code; `usb`, `sup`, `mod` are where the three tasks
are; `pc` is what the other end is sending: it may break a frame off (`BreaksOff`), type text between frames,
and send before the answer is there (`early`). The parser takes its five states in five disjuncts of `RxByte`; what it lets through goes to
the console one byte at a time, each echoed under the lock. A response is three writes with the lock given up in between
(`SupervisorSends`). The order of the priorities is USB task, supervisor, module; a waiting task gets the lock only when none above it
wants it (`CanTake`). `DeletesTask` is a reclaim, which leaves the lock to a dead task if the module was sending.

## 3. The runs

| run | what is on the instance | what it shows |
|---|---|---|
| `supervisor` | 2 slots, 2 arena blocks, 2 control blocks, 5 images, 2 command polls; 1,138,000 states | one owner of every task, block, pin and name, whichever slot a fault is charged to |
| `supervisor_live` | the same with 2 images that share a command; 97,000 states | a faulted slot is reclaimed, the task that faulted is deleted, a command wait ends, but for a supervisor stuck on an orphaned lock |
| `events` | 2 slots, 2 lines, 1 UART, 2 control blocks, queues of 2, 4 images; 81,000 states | lines and queues change hands cleanly, no lost wake-up, no starvation |
| `storage` | arena: 2 slots, a pool of 32 bytes in orders 1 to 5, images of three shapes, one without data; flash: 2 banks, 4 images of 3 names, 2 entries, not every pair fits, sequence numbers modulo 4; 100,000 states | no overlap, no rubble, no leak; the allocator implements `Allocator`; only the self-test writes into a loaded module; saves are atomic, the newer bank wins, a set survives |
| `slot_parts` | clock: 16 ticks, timeout 3, a poll of 1 and turns of up to 3, delays of 0, 2, 5 and 10; a pool of 12 bytes, sizes modulo 32; queue: 2 pins and the console, ring of 3, any depth, counts saturating at 2, statistics modulo 3; 2,077,000 states | a hung module is reclaimed and a live or sleeping one is not, but for named exceptions; the pool stays tiled, double frees only share blocks; the ring implements the stream |
| `devices` | 2 slots, 3 UARTs on 2 peripherals, an I2C, an SPI, 2 ADC channels, 3 GPIOs in four sets of images, rings of 3, 3 bytes a line; 1,014,000 states | bytes arrive in order, wires are not garbled, devices and pins follow the declarations |
| `transport` | magic of 2, a frame with payload and one without, 2 frames begun, 3 keys typed, lines of 1; 902,000 states | frames are found after any text, buffers hold still, responses are whole, nobody waits for ever |
| `task_memory` | 2 slots, 3 blocks, 3 control blocks | a finished module's memory is released while its task runs (finding) |
| `module_fault` | the same | a module's wild jump is recorded as a bug of the host (finding) |
| `late_edge` | the `events` instance | an interrupt during a reclaim notifies a deleted task (finding) |
| `fault_charge` | 2 slots, 3 blocks, 3 control blocks | a jump into a neighbour's text has the neighbour taken out (finding) |
| `stray_header` | the `slot_parts` instance | a foreign pointer given back leads the search out of the heap (finding) |

The last five are disagreements between a comment or a document and the code; each checks one property that
states what the comment says, and TLC shows a behaviour of the code against it. The comments
are quoted in `PROJECT.json`.

`NothingIsShared` is one property of three parts (blocks, pins, names), each a theorem of its own;
`SavesAreAtomic` implies that the newer bank wins and that a name is saved once; `DeliversTheStream` implies that
the indices agree and a source has one record. The parts are still defined, and proved.

### Known exposures

Properties are stated as the code keeps them, and name what they except. A reader should know these exceptions:

- *Two owners of one command.* The refusal of a taken command name is in the handler of a push; the boot
  restores saved images without it (`supervisor.c:72`).
- *A replacement that costs the old module.* Validation asks for the largest of the three regions, acquisition for all three, and
  a region of zero bytes is never granted (`loader.c:160-190`, `arena.c:75-78`); by then the old module is gone.
- *A save from the receive buffer.* If the PC sends before the answer, the image changes while it is being written; the checksum fails
  after the old bank is erased, and both sets are lost (`board_persist.c:285-316`). `BuffersHoldStill` has the condition on
  the PC.
- *A fault charged to a neighbour.* A module that jumps into another's text has that one marked and taken out; its own slot reads RUNNING until
  the watchdog finds it (`registry.c:67-73`). `HandlesAgree` and `CulpritIsDeleted` say that it is found.
- *The USART claim window.* A byte that comes after `uart_apply` is pending when the line is enabled, or comes between that and
  `u->open = true`: `USART2_IRQHandler` returns without reading it, and it is taken again for ever (`host_uart.c:228-234`).
  `OnlyAClaimCanStick`: nowhere else.
- *A byte of the time before.* A claim does not read the data register; what it held may be the first byte of the new owner
  (`host_uart.c:226-234`). `ReceivedInOrder` allows that one.
- *Errors on the line.* An overrun found with a byte is not counted, and a byte with a framing or noise error is received as a good one, because
  the reads that fetch the byte clear the flags before they are tested (`host_uart.c:120-138`).
- *Loopback.* It empties the ring with the interrupt enabled, so what arrived meanwhile is neither read nor counted
  (`host_uart.c:322`).
- *The self-test.* It runs on the live pool and writes list links into resident modules, though `buddy.h:95-97` says it
  cannot. `OnlyTheTestDisturbs`: nothing else does.
- *The transmit lock.* A module task deleted while it sends keeps the lock for ever (`usb_cdc.c:189-208`), and the supervisor
  waits for it with its next answer, without a limit, inside a reclaim too: a module that hangs in its output can wedge the console
  after all (`supervisor.c:489-496` says that the command timeout prevents it). The liveness properties except that state by name.
- *Responses.* The echo of text typed at that moment can come between the three writes of a response.
- *The ADC.* Two modules that convert at once can read each other's channel, or none (`host_adc.c:149-165`). `OnlyAnOverlapMixesReadings`
  says that nothing else does; it does not say that modules do not overlap.
- *The watchdog.* A scan between the two stores at the end of a long sleep reclaims a healthy module (`host_api.c:642-644`). A
  sleeper is reclaimed too when its deadline is tick 0, more than half the counter ahead, or when it lost
  the processor for more than a tick between announcing the sleep and sleeping. `registry.h:82-89` says that sleeping is not
  hanging; `OnlyTheHungAreKilled` and `SleepersAreSpared` except these cases by name. A scan is late by as much as a turn of the loop takes,
  some 5 s in a command and not the 500 ms that `supervisor.h:25-27` gives as the worst case; `HungIsReclaimed` counts with `Turn`.
- *Long delays.* Above 4,294,967 ms the conversion to ticks wraps: the sleep is shorter than what was asked, and its deadline is not
  (`host_api.c:633-638`). A sleep longer than the watchdog period is not taken for a hang, as `host_api.h:306-311` says: its deadline
  is announced, and spares it.
- *Foreign pointers.* `free` takes back any pointer into the heap, and the privileged search of a later `alloc` follows what its
  header has become (`host_api.c:732-741, 788-798`), out of the heap if need be.
- *Sizes that wrap.* A request within 15 bytes of the top of `size_t` is granted a block of no size, or of nearly all of it.
  The model takes such a request, and the properties of the pool say nothing after it.
- *UART and I2C settings.* A release leaves rate, half-duplex mode and pin function to the next owner; I2C leaves its pins.
  `DevicesFollowTheClaims` is about the flags and about the pins of the other drivers.
- *Two mappings of one USART.* A declared UART stays closed when the other mapping was open at its claim. `DevicesFollowTheClaims` allows a
  declared UART to be closed whenever its peripheral has another mapping, which is more than the code does.
- *SPI.* The three early returns of a transfer with -2 come without a recovery (`host_spi.c:317-346`). They wait for a flag far longer
  than a byte takes at the slowest divider, so the model has no peripheral that fails to answer. An idle bus is the host's side of it: a
  device on it that was cut off in a byte is not modelled.

### Why the bounds are enough

*Supervisor.* Every property relates at most two slots, two tasks or two images. Two slots give a
replacement in place, a neighbour, and "no slot free". Two blocks make the arena run out with
both slots taken and when `TooLarge`, which needs three, passes its checks and then finds
no room. Two control blocks, fewer than the two slots and a dying
task could need, make a freed one be used again at the next load.
Three names, of which one has three builds, give the replacement and the conflict;
two images share a command and two share a pin. `CmdPolls` (500 on the target) is 2: an answer before the first
poll, between two polls, and none. The four-slot table of the code is covered by the proofs.

Two images with text of their own are enough for a fault charged to a neighbour, in both orders of the table, and for a holder of
the lock that is deleted by a scan, a frame, the console or a command's timeout.

For liveness two images are enough: one module hangs in its command
while the other faults, hangs or runs, and a boot brings both up.

*Storage, flash.* Two builds of one module and two other modules give replacement, addition and a full table; one pair
that does not fit gives the failure in the middle of a save. The sequence number wraps after
four saves; only its neighbours matter, and four is the smallest power
of two for which "newer" by signed difference makes sense: with two values, a successor is its own
predecessor.

*Storage, arena.* Five orders give a split of four turns and merges across all of them; the shapes are one that
fits twice, one that fits beside it, and one without data, whose acquisition always fails half-way. The
proofs cover any number of orders.

*Events.* `Full` has three sources and a queue of two, so records are lost; `Button` and `Full`
can be resident together, and `Full`, `Shell` and `Once` want the same UART one after the
other, so a slot's sources go from one image to the next.

*SlotParts, clock and pool.* The counter wraps within one sleep; the delays are none, shorter and longer than the timeout, and longer
than half the counter; with two ticks a millisecond's unit their conversion wraps for the longest. A turn is as long as the timeout.
Three blocks of the smallest size fill the pool of 12 bytes, or two of the next;
requests of 30 and 31 wrap when rounded or when the header is added. Two owners of one block, and two misuses: a free and what becomes of its header, or two
frees, after which the list can run in a circle. Garbage reads as a size that fits nothing or everything.

*SlotParts, queue.* Ring indices wrap after three operations; the depth takes every value from 0, which
stands for the whole ring as any value beyond it does; merging saturates at the second occurrence.

*Devices.* Each set of images is a separate family of behaviours, because drivers interact only through
pins, slots and the supervisor: two UARTs on one peripheral with a button on a wire of one of them; a UART
alone and a declaration that the host refuses; two ADC channels and a bus; a bus and an SPI that want the
same chip select. Three bytes fill the ring of three places (two usable) and lose one,
or overrun the register.

*Transport.* A magic of two has a partial match; a payload of two has a middle; two frames give "broken off, then
whole" and "before the answer"; three keys give a false magic followed by text, and a line with its terminator.

### Fairness

*Supervisor*: `WF_vars(SupervisorStep)`. The supervisor has the highest priority
but one; the only task above it polls and sleeps; each of its blocking calls has a timeout, but for the transmit lock. A living
holder of that lock inherits its priority and sends for a bounded time (`usb_cdc.c:197`); a deleted holder
leaves it without a step, in `stuck`, where weak fairness asks for none, and the three properties name that state. Module tasks have no
fairness: they may hang, which is the point of
`CommandWaitEnds` and `FaultedIsReclaimed`. A second conjunct is the clock that this module leaves out: in `Scan` any module may be
overdue or not, and a task in the trap, which calls its host no more, is found overdue by a scan in the end
(`SF_vars` of the scan that takes it). `CulpritIsDeleted` needs it for the task whose fault was charged to another slot.

*Events*: weak fairness of the supervisor while it is busy, for the same reason, and strong
fairness of each trampoline: tasks of equal priority are time-sliced, and the supervisor blocks
again and again, so a task that is ready again and again runs. The code of modules
(`InitReturns`, `HandlerReturns`) has no fairness; `EventsAreTaken` is stated
for modules whose handlers return infinitely often.

*Transport*: weak fairness of each of the three tasks. The USB task and the supervisor have the highest priorities and sleep
in between, a write gives up after a bounded number of tries (`usb_cdc.c:197`), and a module that waits for the lock gets the
processor whenever the other two sleep. The PC, the log calls of a module and the reclaims have no fairness.

The other modules have none: their properties are about safety. (`HungIsReclaimed` of `Watchdog` is an
invariant on ticks, from the bounds `Turn` on a turn of the loop and `Poll` on its wait, and not a fairness property.)

Deadlock is checked in every run but `transport`, where the system does stop for good once a deleted
task holds the lock.

## 4. The proofs

Every safety property that a passing run checks, invariants, action properties and refinements, is also a theorem, for
every value of the constants that the named assumptions allow; every proof is checked to the last leaf. The
assumptions stand next to the constants: `ConstantsAssumption` (`Supervisor`), `StoreAssumption`, `QueueAssumption`,
`OrdersAssumption` (`Buddy`), `ArenaAssumption`, `EventsAssumption`, `WatchdogAssumption`, `HeapAssumption`,
`DevicesAssumption` (`Resources`), `UartAssumption`, `BusAssumption`, `AdcAssumption`, `CatalogAssumption` (`Devices`),
`TransportAssumption`. TLC evaluates each of them on a run. Three of them say something of the program and not only of types:
an image that declares an interrupt line has a handler for it (`EventsAssumption`), timeout, turn and poll together are less than
half the counter (`WatchdogAssumption`: 3 s, some 5 s and 500 ms on the target, with a counter of 32
bits; a supervisor that is stuck has no such bound and is excepted), and a peripheral that two UART instances share has a vector that serves the open one of them
(`UartAssumption`: instances 2 and 4).

Induction over data is out of the provers' reach. Where an argument needs it (powers of two divide each other, an ordered ring has no
gap, the free list reaches its end) the proof takes the least counterexample: `<` on `Nat` is
well-founded, and the fact that a non-empty set of numbers has a least member (`Smallest`, `LeastOne`,
`SmallestOf`) has no operator for a parameter.

**`SupervisorProofs`** (any number of slots, tasks, blocks, images, pins and polls). `IInv` is the conjunction of
the invariants of the `supervisor` run, `NothingIsShared` in its three parts. Together they are inductive, and most of them are not
alone:
`ArenaExclusive` after a task creation needs `HandlesAgree` to know that the reclaimed slot's blocks
are the slot's; `HandlesAgree` across a command needs `WaitsOnALiveSlot` and
`OneCommandAtATime` (a task in `cmd` is in the slot the supervisor waits for); those need
`HandlersSeeNoFault` (no second command is posted while a faulted task still has one); and
`NamesUnique` through a boot needs its conjunct on `todo`. The proof has one lemma per stage of
a load and per action of a task, then `NextKeepsIInv`; each invariant is a theorem of its own. A fault that marks a neighbour leaves the
culprit's own slot RUNNING with its handle, which is what `HandlesAgree` needs for the culprit to stay reachable; a supervisor that gets
stuck in the middle of reclaiming several slots has reclaimed a prefix of them, so the lemma on a reclaim is for any set of slots.
`MemoryIsKeptByTheLiving` says how far the finding of `task_memory` reaches: a task that has not marked itself
finished runs on blocks that are neither free nor anybody else's.

**`PersistProofs`** (any sequence modulus the assumption allows, any images, any capacity). `IInv`
adds to the types and `OneEntryPerName`: two valid banks have successive numbers (`Successive`);
before the magic word is written the destination is not valid and the source is what was active when
the save began (`BeforeMagic`); after it the destination is valid, newer and holds the new image
(`AfterMagic`); and a forget goes through the banks in its order (`ForgetOrder`). From it follow
`NewBankWins`, `ASetSurvives` and the refinement `SavesAreAtomic`: every step, failures and power cuts included,
is a step of `Store` or changes nothing that it sees.

**`EventQueueProofs`** (any sources, payloads, ring size, saturation and counter range). `IInv` is the
conjunction of `TypeOK`, `NothingIsUncounted`, `IndicesAgree` and `OneRecordPerSource`. The ring needs `IndicesAgree` so
that the tail is not the slot of a record that waits (`TailIsFree`); the statistics need sums
modulo the counter range to be independent of the order of the additions, which is proved from
the division theorem (`SumOfRemainder`). `RingDeliversTheStream` is the refinement: writing at the
tail is `Append`, moving the head is `Tail`, and merging changes the one record the stream
would change, because two positions never share a slot (`SlotsDiffer`).

**`BuddyProofs`, the allocator** (any orders, any function `P` that doubles from one to the next). `BuddyInv` says that all blocks, be they
free, live or in the hand of a call, are pairwise disjoint, aligned to their size and inside the pool (`Sound`). It is
inductive only with the hand among them: in the middle of a split the upper half is already on a list and the
lower half nowhere else. The arithmetic is in lemmas on multiples: half of an aligned block is aligned
(`HalfOfMultiple`), and the partner of an aligned block that is not aligned to the next order lies below it (`OddMultiple`). From it follow
`BlocksNeverOverlap`, `BlocksAreAligned` and `BuddyImplementsAllocator`: only `Alloc_Return` and `Free_Take` are steps of `Allocator`.

`NoRoomIsEverHidden` says that a request is refused only when no free room of its size and alignment exists. Two facts carry
it (`RoomInv`): the blocks cover the pool (`Covered`), without which room could be neither free nor live; and no two partners are on one
list (`NoPartnersFree`), which holds in the middle of a merge too because the block in hand is on none. An
aligned range that only smaller free blocks meet would then contain two free partners: take the smallest of the blocks.

**`BuddyProofs`, the arena** (any slots and shapes). `ArenaInv` adds to both: what each job's remaining script is (`JobShape`); that the live blocks are
exactly those that a slot or the job owns, each once (`OwnersAgree`), of which "nothing leaks" is the case of no job;
that what the self-test put aside is itself sound, covering and merged (`SavedIsKept`), since the restore makes it the arena
again, whatever the test did meanwhile; and `QuietUnlessTested`. `Owners` leaves the slot of a release
out and `Owns` counts down the script: that is where a block changes its owner. From it follow
`NothingEverLeaks`, `NobodyIsDisturbedButByTheTest` and, through `Buddy`, that `Arena` implements `Allocator`.

**`EventsProofs`** (any slots, tasks, lines, UARTs, queue depths and images). The properties speak of moments between two jobs of the supervisor;
`IInv` says the same of every moment of a job. `PhasesAgree` says which fields of the slot a job has already cleared, `TasksAgree` that a
running slot has one live task and its hook, `LinesAgree` which sources are mapped, enabled and open so far
(`IsMapped`, `IsEnabled`, `IsOpen`: the code maps after enabling and unmaps after disabling, so the three differ),
`SourcesAreApart` that no two images share a source, the one being loaded included, and `QueuesAgree` that what waits
belongs to the slot. `EventsAreOwn` needs all of them: an interrupt posts to the slot that `s_pin_slot` names, so that entry must be right at every
moment of a job at which the line is enabled. `NoLostWakeup` is inductive given `TasksAgree`, because a notification goes to the task in the hook.
`LateEdgesStayConfined` says how far the finding of `late_edge` reaches: the task behind a live source is a living task of
that slot, but from its deletion to `mdl_events_disarm_slot()`, and after a module without handlers has ended.

**`HostCallsProofs`, the clock** (any even period of the counter, tick rate, timeout, turn and delays). `ActiveAgrees` says that the difference of ticks
is the time without progress, as long as the module computes, and `DeadlineAgrees` that a deadline minus the present is what is to come of the delay it asked for,
corrected by what slipped; a sleep is never longer than that (`left <= ahead`), wherever the conversion wraps. Both are only good up to half a period,
which is why `HungIsReclaimed` needs `SeenRecently`: at the last scan the module was not overdue, so
it is taken within `Timeout + Turn + Poll`, before the difference can wrap. `PlacesAgree` says which call has a deadline. The
modular arithmetic comes from the uniqueness of division. Theorems: `HungAreReclaimed`, `NoneIsKilledEarly`, `SleepersLive`.

**`HostCallsProofs`, the pool** (any sizes, and requests). `PoolTyped` and `Laid` hold however often the module
gives its blocks back, until it gives back a pointer that is none or a size wraps (neither property says anything after that): all that ever were
headers lie apart in the used part, and the list, whatever its shape, leads only to them. That gives `DamageStaysContained`. As long as it has misused nothing, `Tidy` holds: the
list is a chain of distinct headers that ends (`Chains`), no block on it has an owner, and the blocks on it and the owned ones tile the
used part (`Tiles`). The chain is the part that is not in the property: without it the first fit could walk
into a block twice. That it ends is by counting, since its members are distinct (`ChainIsShort`).

**`DevicesProofs`, the claims** (any slots, devices, pins and catalogues). `OpensAgree` says that a device is open exactly
when a declaration that the supervisor has reached, or not yet left, names it; `ClaimsApart` that no pin is declared twice, also
by the image that waits for the slot being released; `LinesAgree` and `CallsAgree` tie the interrupt lines and the calls under
way to open devices; `ConfAgrees`, `WiresAgree` and `ConversionsAgree` are the pins, the wires and the ADC at every moment.
`WireIsNeverGarbled` holds because a wire that is not idle belongs to a call, to the console or to a bus still to be released
(`WireAgrees`), so that nobody else is on the bus who could start a transfer on it. From `IInv` follow `DevicesAlwaysFollowTheClaims`, `OnlyAClaimSticks`,
`WiresStayClean`, `SpiStaysAsSet` and `ReadingsStayUnmixed`.

**`DevicesProofs`, the rings** (any ring size of two or more, any number of bytes). `UartInv` says that the bytes in a watched ring ascend, lie
above what was read and below what the peripheral holds, and that every gap is accounted for by an overrun, a drop or the loopback
test (`InOrder`), none lying before the claim but the one the data register held (`Ordered` has both numbers). Only watched rings are ordered: while the loopback test is between its two stores, and while the slot is being
released, the interrupt may still write to a ring that nobody reads. A read is cut between the copy and the move of `tail`, so `HandsAgree` keeps that
what a call has in hand is what the ring still has there. The four ring lemmas (`ByteArrives`, `ByteIsPut`, `ByteIsLost`, `ByteIsTaken`) are
about numbers only. The theorem is `BytesArriveInOrder`.

**`TransportProofs`** (any frames, payloads, magic and line lengths). `OneSends` ties the lock to the task that sends; `BufferFollows` says that the buffer
agrees with the parser as far as it has captured; `FrameHolds` and `LineHolds` that what is ready or in use is unchanged unless
the PC went on before the answer (`early`); `FrameFollows` that the parser is where the frame being sent is, if it saw its first byte while hunting. Theorems: `BuffersAlwaysHoldStill`,
`ResponsesStayWhole`, `FramesAreAlwaysFound`.

### Only model-checked

The liveness properties (`FaultedIsReclaimed`, `CulpritIsDeleted`, `CommandWaitEnds`, `EventsAreTaken`, `NothingWaitsForEver`): fairness is
outside what the proof system handles. The findings are counterexamples, for which a run is the proof;
of several of them a theorem says where they end.

## 5. What is not modelled

- The bytes of an image: magic, CRC, bounds, relocation entries are one Boolean, `valid`.
- The three regions of a slot as such: `Arena` has three blocks, `Supervisor` a number of equal ones; the guard band is not told apart.
- What the MPU allows: a module is code that may fault and touches nothing but its own.
- Peripheral registers: what a transfer carries, UART write, config and half-duplex mode, clock set-up, LEDs and their
  hand-over, formatting of reports, the console's read-only commands (most of `console.c`).
- The time stamps of events and the one-second rate window.
- Failure of a task creation for want of kernel heap halts these boards
  (`configUSE_MALLOC_FAILED_HOOK`), so the branch of the code that handles it is not reached there; the model has it as
  the code has it (`CreateFails`).
- Unnamed images: the store treats the empty name as a key, the slot table does not. The packer always writes a
  name; `Supervisor` and `Persist` meet only in the set `saved`.
- The indicator task as a writer: it prints a greeting under the same lock when a terminal opens (`Transport` has three
  tasks on it). Its priority is between supervisor and modules and it is never deleted, so it can delay the others and orphan nothing.
- `mdl_proto_take_frame` tests the flag and hands out the buffer in one step; the parser could come between only for a PC
  that sends before its answer, which `BuffersHoldStill` excepts.
- Host-side tools.

## 6. Plan

Done: slots and tasks, the flash store, the queue, the event layer, the buddy allocator and its callers, the
watchdog, the pool of a module, the drivers, the transport; proofs of the safety of all of them. What is left, in the
order of what it would add:

1. **Boot**: store and slots in one module, unnamed images included.
2. **From the arena of equal blocks to the real one**: `Supervisor`'s `free` as an abstraction of what `Arena` promises.
3. **UART settings** (rate, half-duplex mode, pin function) in `Devices`, if the driver is changed to restore them.
