------------------------------ MODULE Devices -------------------------------
(***************************************************************************)
(* The devices as the slots change hands: the supervisor opens what a      *)
(* loaded image declares (start_loaded_module()), closes what a slot held  *)
(* (reclaim_slot()) and serves the console's I2C command, one device after *)
(* the other, while module tasks are in the middle of calls and interrupts *)
(* arrive.  The GPIO half of src/mdl/host/host_api.c is here as well.      *)
(***************************************************************************)
EXTENDS Uart, Buses, Adc

CONSTANTS
  Catalogs,  \* sets of images; a behaviour uses those of one set
  Default    \* the state gpio_set_default() gives a pin

ASSUME CatalogAssumption ==
  /\ Default \notin Devs
  /\ \A c \in Catalogs : \A image \in c : image \in Seq(Devs) /\ image # <<>>

VARIABLES
  catalog,
  sup,     \* the supervisor's job: its slot, the declaration it is at
  conf     \* conf[pin]: the device the pin was last configured for

slotVars == <<res, alive, catalog>>
devVars  == <<slotVars, sup, conf, call, uartVars, busVars, adcVars>>

Idle == [at |-> "idle", slot |-> NoDev, i |-> 0, next |-> <<>>]

DevInit ==
  /\ res = [s \in Slots |-> <<>>]
  /\ alive = [s \in Slots |-> FALSE]
  /\ call = [s \in Slots |-> NoCall]
  /\ catalog \in Catalogs
  /\ sup = Idle
  /\ conf = [pin \in Pins |-> Default]
  /\ UartInit /\ BusesInit /\ AdcInit

Open(d) == \/ d \in Uarts /\ uopen[d]
           \/ d \in Buses /\ bopen[d]
           \/ d \in Adcs /\ claimed[d]

Set(pins, to)  == conf' = [pin \in Pins |-> IF pin \in pins THEN to ELSE conf[pin]]

-----------------------------------------------------------------------------
(* A load or an unload begins. *)

\* handle_load(), handle_unload(): the task goes first, wherever it is.
ReclaimFor(s, image) ==
  /\ sup' = [at |-> "release", slot |-> s, i |-> 1, next |-> image]
  /\ alive' = [alive EXCEPT ![s] = FALSE]
  /\ call' = [call EXCEPT ![s] = NoCall]
  /\ BreaksOff(s)
  /\ UNCHANGED <<res, catalog, conf, uartVars, bopen, spi, adcVars>>

Load(s, image) ==
  /\ sup.at = "idle"
  /\ ResCheck(image, s)
  /\ IF res[s] # <<>> THEN ReclaimFor(s, image)
     ELSE /\ res' = [res EXCEPT ![s] = image]
          /\ alive' = [alive EXCEPT ![s] = TRUE]
          /\ sup' = [at |-> "claim", slot |-> s, i |-> 1, next |-> <<>>]
          /\ UNCHANGED <<catalog, conf, call, uartVars, busVars, adcVars>>

Unload(s) == sup.at = "idle" /\ res[s] # <<>> /\ ReclaimFor(s, <<>>)

-----------------------------------------------------------------------------
(* start_loaded_module(): one declaration after the other. *)

AtDev(at) == sup.at = at /\ sup.i <= Len(res[sup.slot])
Dev       == res[sup.slot][sup.i]
GoesOn    == sup' = [sup EXCEPT !.i = @ + 1]

\* A GPIO declaration opens nothing, a failed claim is only reported.
Claim_Nothing ==
  /\ AtDev("claim")
  /\ Dev \in Gpios \/ Open(Dev) \/ (Dev \in Uarts /\ UartClaimRefuses(Dev))
  /\ GoesOn
  /\ UNCHANGED <<slotVars, conf, call, uartVars, busVars, adcVars>>

Claim_Bus ==
  /\ AtDev("claim") /\ Dev \in Buses /\ BusClaim(Dev)
  /\ Set(PinsOf[Dev], Dev)
  /\ GoesOn
  /\ UNCHANGED <<slotVars, call, uartVars, adcVars>>

Claim_Adc ==
  /\ AtDev("claim") /\ Dev \in Adcs /\ ~ claimed[Dev] /\ AdcClaim(Dev)
  /\ Set(PinsOf[Dev], Dev)
  /\ GoesOn
  /\ UNCHANGED <<slotVars, call, uartVars, busVars>>

Claim_Uart ==
  /\ AtDev("claim") /\ Dev \in Uarts /\ UartClaim_Applies(Dev)
  /\ Set(PinsOf[Dev], Dev)
  /\ sup' = [sup EXCEPT !.at = "irq"]
  /\ UNCHANGED <<slotVars, call, busVars, adcVars>>

Claim_UartIrq ==
  /\ AtDev("irq") /\ UartClaim_IrqOn(Dev)
  /\ sup' = [sup EXCEPT !.at = "open"]
  /\ UNCHANGED <<slotVars, conf, call, busVars, adcVars>>

Claim_UartOpen ==
  /\ AtDev("open") /\ UartClaim_Opens(Dev)
  /\ sup' = [sup EXCEPT !.at = "claim", !.i = @ + 1]
  /\ UNCHANGED <<slotVars, conf, call, busVars, adcVars>>

Claim_Ends ==
  /\ sup.at = "claim" /\ sup.i > Len(res[sup.slot])
  /\ sup' = Idle
  /\ UNCHANGED <<slotVars, conf, call, uartVars, busVars, adcVars>>

-----------------------------------------------------------------------------
(* reclaim_slot(): the devices one by one, then the pins of GPIO claims.   *)

Release_Nothing ==
  /\ AtDev("release") /\ ~ Open(Dev)
  /\ GoesOn
  /\ UNCHANGED <<slotVars, conf, call, uartVars, busVars, adcVars>>

\* host_i2c_release() leaves the pins, host_spi_release() hands them back.
Release_Bus ==
  /\ AtDev("release") /\ Dev \in Buses /\ BusRelease(Dev)
  /\ IF Dev \in Spis THEN Set(PinsOf[Dev], Default) ELSE UNCHANGED conf
  /\ GoesOn
  /\ UNCHANGED <<slotVars, call, uartVars, adcVars>>

Release_Adc ==
  /\ AtDev("release") /\ Dev \in Adcs /\ claimed[Dev] /\ AdcRelease(Dev)
  /\ Set(PinsOf[Dev], Default)
  /\ GoesOn
  /\ UNCHANGED <<slotVars, call, uartVars, busVars>>

Release_Uart ==
  /\ AtDev("release") /\ Dev \in Uarts /\ UartRelease_IrqOff(Dev)
  /\ sup' = [sup EXCEPT !.at = "close"]
  /\ UNCHANGED <<slotVars, conf, call, busVars, adcVars>>

Release_UartCloses ==
  /\ AtDev("close") /\ UartRelease_Closes(Dev)
  /\ sup' = [sup EXCEPT !.at = "release", !.i = @ + 1]
  /\ UNCHANGED <<slotVars, conf, call, busVars, adcVars>>

\* host_gpio_release_claims()
ClaimedGpioPins(s) == UNION {PinsOf[g] : g \in {d \in Gpios : Declared(s, d)}}

Release_Ends_ClearsFirst ==
  /\ sup.at = "release" /\ sup.i > Len(res[sup.slot])
  /\ res' = [res EXCEPT ![sup.slot] = sup.next]
  /\ alive' = [alive EXCEPT ![sup.slot] = sup.next # <<>>]
  /\ sup' = IF sup.next = <<>> THEN Idle
            ELSE [at |-> "claim", slot |-> sup.slot, i |-> 1, next |-> <<>>]
  /\ UNCHANGED <<catalog, conf, call, uartVars, busVars, adcVars>>

Release_Ends ==
  /\ sup.at = "release" /\ sup.i > Len(res[sup.slot])
  /\ Set(ClaimedGpioPins(sup.slot), Default)
  /\ res' = [res EXCEPT ![sup.slot] = sup.next]
  /\ alive' = [alive EXCEPT ![sup.slot] = sup.next # <<>>]
  /\ sup' = IF sup.next = <<>> THEN Idle
            ELSE [at |-> "claim", slot |-> sup.slot, i |-> 1, next |-> <<>>]
  /\ UNCHANGED <<catalog, call, uartVars, busVars, adcVars>>

-----------------------------------------------------------------------------
(* The console, the pins, and who runs when. *)

Shell_Begins(b) ==
  /\ sup.at = "idle" /\ Shell_Opens(b)
  /\ Set(IF bopen[b] THEN {} ELSE PinsOf[b], b)
  /\ sup' = [at |-> IF bopen[b] THEN "shell" ELSE "shell, to release", slot |-> b, i |-> 0, next |-> <<>>]
  /\ UNCHANGED <<slotVars, call, uartVars, adcVars>>

Shell_Ends ==
  /\ sup.at \in {"shell", "shell, to release"} /\ Shell_Closes(sup.slot, sup.at = "shell")
  /\ sup' = Idle
  /\ UNCHANGED <<slotVars, conf, call, uartVars, adcVars>>

\* host_gpio_set(): a module drives a pin it has declared.
Gpio_Sets(s, g) ==
  /\ alive[s] /\ call[s] = NoCall /\ Declared(s, g)
  /\ Set(PinsOf[g], g)
  /\ UNCHANGED <<slotVars, sup, call, uartVars, busVars, adcVars>>

SupervisorStep ==
  \/ \E s \in Slots, image \in catalog : Load(s, image)
  \/ \E s \in Slots : Unload(s)
  \/ Claim_Nothing \/ Claim_Bus \/ Claim_Adc
  \/ Claim_Uart \/ Claim_UartIrq \/ Claim_UartOpen \/ Claim_Ends
  \/ Release_Nothing \/ Release_Bus \/ Release_Adc
  \/ Release_Uart \/ Release_UartCloses \/ Release_Ends
  \/ \E b \in I2cs : Shell_Begins(b)
  \/ Shell_Ends

ModuleStep(s) ==
  \/ UartCall(s) /\ UNCHANGED <<slotVars, sup, conf, busVars, adcVars>>
  \/ BusCall(s) /\ UNCHANGED <<slotVars, sup, conf, uartVars, adcVars>>
  \/ AdcCall(s) /\ UNCHANGED <<slotVars, sup, conf, uartVars, busVars>>
  \/ \E g \in Gpios : Gpio_Sets(s, g)

DevNext ==
  \/ TasksRun /\ SupervisorStep
  \/ TasksRun /\ \E s \in Slots : ModuleStep(s)
  \/ \E p \in Periphs : (Byte(p) \/ Isr(p)) /\ UNCHANGED <<slotVars, sup, conf, call, busVars, adcVars>>
  \/ AdcCompletes /\ UNCHANGED <<slotVars, sup, conf, uartVars, busVars>>

DevSpec == DevInit /\ [][DevNext]_devVars

-----------------------------------------------------------------------------
(* Properties. *)

(* Between two jobs of the supervisor a device is open for the one module   *)
(* that declared it, and its pins are configured for it and for no other; a *)
(* declared device is open, but for a second mapping of a UART; and a pin   *)
(* that nobody holds is back in its default state, except that the UART and *)
(* the I2C driver leave theirs to the next owner (supervisor.c:134-170,     *)
(* 296-317; host_api.c:430-459; host_adc.c:202-229).                        *)
DevicesFollowTheClaims ==
  sup.at = "idle" =>
    /\ \A d \in Devs \ Gpios :
         /\ Open(d) => /\ \E s \in Slots : Declared(s, d)
                       /\ \A pin \in PinsOf[d] : conf[pin] = d
         /\ \A s \in Slots : Declared(s, d) => Open(d) \/ \E v \in Uarts \ {d} : PeriphOf[v] = PeriphOf[d]
    /\ \A u, v \in Uarts : uopen[u] /\ uopen[v] /\ PeriphOf[u] = PeriphOf[v] => u = v
    /\ \A pin \in Pins : ~ HeldByModule(pin, NoDev) => conf[pin] \in {Default} \cup Uarts \cup I2cs
    /\ up <=> \E c \in Adcs : claimed[c]

(* An interrupt that its handler does not serve is taken again for ever and *)
(* starves every task.  It can happen in one place: a byte has arrived for  *)
(* USART2, since uart_apply() or before it, when host_uart_claim() enables  *)
(* the line and has yet to set open (host_uart.c:228-234).                  *)
OnlyAClaimCanStick ==
  \A p \in Periphs : Pending(p) /\ Serves(p) = {} =>
    /\ sup.at = "open"
    /\ PeriphOf[Dev] = p
=============================================================================
