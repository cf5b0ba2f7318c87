----------------------------- MODULE Resources -----------------------------
(***************************************************************************)
(* What the loaded modules have declared, and the check that keeps two of  *)
(* them off one wire (src/mdl/host/host_resources.c).  A declaration names *)
(* a device; it is compared with others by the pins the device occupies.   *)
(***************************************************************************)
EXTENDS Integers, Sequences

CONSTANTS
  Slots,
  Uarts, I2cs, Spis, Adcs, Gpios,   \* the devices a module can declare
  PinsOf,     \* PinsOf[d]: g_periph and the whitelist's pin_id
  HostHard,   \* the pins whose owner is PIN_HOST_HARD
  NoDev

Devs == Uarts \cup I2cs \cup Spis \cup Adcs \cup Gpios
Pins == UNION {PinsOf[d] : d \in Devs}

\* A device is of one kind, and the pins of an I2C bus have no other use
\* (board_pins.def: PB8 and PB9).
ASSUME DevicesAssumption ==
  /\ DOMAIN PinsOf = Devs
  /\ NoDev \notin Devs \cup Slots
  /\ Uarts \cap (I2cs \cup Spis \cup Adcs \cup Gpios) = {}
  /\ I2cs \cap (Spis \cup Adcs \cup Gpios) = {}
  /\ Spis \cap (Adcs \cup Gpios) = {} /\ Adcs \cap Gpios = {}
  /\ \A b \in I2cs : \A d \in Devs \ {b} : PinsOf[b] \cap PinsOf[d] = {}

VARIABLES
  res,     \* res[s]: the slot's declarations, <<>> while it is EMPTY
  alive,   \* alive[s]: the slot's task exists
  call     \* call[s]: the host call the slot's task is in

NoCall == [at |-> "none", dev |-> NoDev, left |-> 0, mixed |-> FALSE]

Declared(s, d) == \E i \in DOMAIN res[s] : res[s][i] = d

\* pin_held_by_module(): any slot that is not EMPTY, the excluded one apart.
HeldByModule(pin, exclude) ==
  \E s \in Slots \ {exclude} : \E i \in DOMAIN res[s] : pin \in PinsOf[res[s][i]]

\* mdl_res_check()
ResCheck(claims, exclude) ==
  /\ \A i \in DOMAIN claims :
       /\ PinsOf[claims[i]] # {}
       /\ PinsOf[claims[i]] \cap HostHard = {}
       /\ \A pin \in PinsOf[claims[i]] : ~ HeldByModule(pin, exclude)
  /\ \A i, j \in DOMAIN claims : i # j => PinsOf[claims[i]] \cap PinsOf[claims[j]] = {}

\* A task that is in no call enters one, on a device it has declared.
Enters(s, d, at) ==
  /\ alive[s]
  /\ call[s] = NoCall
  /\ Declared(s, d)
  /\ call' = [call EXCEPT ![s] = [at |-> at, dev |-> d, left |-> 0, mixed |-> FALSE]]

Goes(s, at)   == call' = [call EXCEPT ![s].at = at]
Returns(s)    == call' = [call EXCEPT ![s] = NoCall]
Is(s, at)     == call[s].at = at
=============================================================================
