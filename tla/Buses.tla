------------------------------- MODULE Buses --------------------------------
(***************************************************************************)
(* The I2C and SPI drivers (src/mdl/host/host_i2c.c, host_spi.c): a        *)
(* transfer runs in the task of the module that declared the bus, so an    *)
(* unload can come in the middle of it and leave the lines as they are;    *)
(* the console transfers on an I2C bus that no module has declared.        *)
(***************************************************************************)
EXTENDS Resources

CONSTANTS
  Divs,       \* the dividers of div_for(), ascending
  PClk,       \* SPI_PCLK_HZ
  SpiDefault, \* SPI_DEFAULT_HZ
  Speeds      \* the speeds a module may ask for

ASSUME BusAssumption ==
  /\ Divs # {} /\ Divs \subseteq Nat \ {0}
  /\ PClk \in Nat /\ SpiDefault \in Nat \ {0} /\ Speeds \subseteq Nat \ {0}

Buses == I2cs \cup Spis

VARIABLES
  bopen,   \* i2c_bus_t.open, spi_bus_t.open
  wire,    \* idle, busy, wedged (a transfer broke off), or garbled by a second one
  spi      \* mode and hz of each SPI, what was asked, and by which slot

busVars == <<bopen, wire, spi>>

\* div_for(): the fastest divider that is not too fast, else the slowest.
DivFor_Nearest(want) ==
  CHOOSE d \in Divs :
    \A e \in Divs : (PClk \div d - want) * (PClk \div d - want)
                    <= (PClk \div e - want) * (PClk \div e - want)

DivFor(want) ==
  LET enough == {d \in Divs : PClk \div d <= want}
  IN  IF enough = {} THEN CHOOSE d \in Divs : \A e \in Divs : e <= d
      ELSE CHOOSE d \in enough : \A e \in enough : d <= e

\* spi_apply()
Applied(mode, hz, by) == [mode |-> mode, hz |-> PClk \div DivFor(hz), asked |-> hz, by |-> by]

BusesInit ==
  /\ bopen = [b \in Buses |-> FALSE]
  /\ wire = [b \in Buses |-> "idle"]
  /\ spi = [b \in Spis |-> [mode |-> 0, hz |-> SpiDefault, asked |-> SpiDefault, by |-> NoDev]]

\* A transfer starts: on an idle bus it has the lines to itself.
Drives(b) == wire' = [wire EXCEPT ![b] = IF @ = "idle" THEN "busy" ELSE "garbled"]

-----------------------------------------------------------------------------
(* Claim and release, on the supervisor task. *)

BusClaim(b) ==
  /\ ~ bopen[b]
  /\ bopen' = [bopen EXCEPT ![b] = TRUE]
  /\ UNCHANGED wire
  /\ spi' = IF b \in Spis THEN [spi EXCEPT ![b] = Applied(0, SpiDefault, NoDev)] ELSE spi

\* i2c_reset(), spi_i2s_reset()
BusRelease_NoReset(b) ==
  /\ bopen[b]
  /\ bopen' = [bopen EXCEPT ![b] = FALSE]
  /\ UNCHANGED <<wire, spi>>

BusRelease(b) ==
  /\ bopen[b]
  /\ bopen' = [bopen EXCEPT ![b] = FALSE]
  /\ wire' = [wire EXCEPT ![b] = "idle"]
  /\ UNCHANGED spi

-----------------------------------------------------------------------------
(* The module-facing half. *)

\* host_i2c_write_impl(), _read_impl(): one transfer; _write_read_impl(): two.
I2c_Begins(s, b) ==
  /\ b \in I2cs /\ bopen[b]
  /\ alive[s] /\ call[s] = NoCall /\ Declared(s, b)
  /\ \E n \in {1, 2} :
       call' = [call EXCEPT ![s] = [at |-> "i2c", dev |-> b, left |-> n - 1, mixed |-> FALSE]]
  /\ Drives(b)
  /\ UNCHANGED <<bopen, spi>>

I2c_Succeeds(s) ==
  /\ Is(s, "i2c")
  /\ IF call[s].left = 0
     THEN Returns(s) /\ wire' = [wire EXCEPT ![call[s].dev] = "idle"]
     ELSE call' = [call EXCEPT ![s].left = @ - 1] /\ UNCHANGED wire
  /\ UNCHANGED <<bopen, spi>>

\* No answer, a bus error: the rest of the call is bus_recover().
I2c_Fails(s) ==
  /\ Is(s, "i2c") /\ Goes(s, "recover")
  /\ wire' = [wire EXCEPT ![call[s].dev] = "wedged"]
  /\ UNCHANGED <<bopen, spi>>

I2c_Recovers(s) ==
  /\ Is(s, "recover") /\ Returns(s)
  /\ wire' = [wire EXCEPT ![call[s].dev] = "idle"]
  /\ UNCHANGED <<bopen, spi>>

\* host_spi_config_impl()
Spi_Configures(s, b, mode, hz) ==
  /\ b \in Spis /\ bopen[b]
  /\ alive[s] /\ call[s] = NoCall /\ Declared(s, b)
  /\ spi' = [spi EXCEPT ![b] = Applied(mode, hz, s)]
  /\ UNCHANGED <<call, bopen, wire>>

\* host_spi_transfer_impl(), whose master always clocks.
Spi_Begins(s, b) ==
  /\ b \in Spis /\ bopen[b]
  /\ Enters(s, b, "spi")
  /\ Drives(b)
  /\ UNCHANGED <<bopen, spi>>

\* A poll that runs out (three returns of -2) is left out: its limit is far
\* longer than a byte takes at the slowest divider.
Spi_Ends(s) ==
  /\ Is(s, "spi") /\ Returns(s)
  /\ wire' = [wire EXCEPT ![call[s].dev] = "idle"]
  /\ UNCHANGED <<bopen, spi>>

BusCall(s) ==
  \/ \E b \in Buses : I2c_Begins(s, b) \/ Spi_Begins(s, b)
  \/ \E b \in Spis, hz \in Speeds : Spi_Configures(s, b, 3, hz)
  \/ I2c_Succeeds(s) \/ I2c_Fails(s) \/ I2c_Recovers(s) \/ Spi_Ends(s)

\* The task of slot s is deleted, wherever it is: a transfer breaks off.
BreaksOff(s) ==
  wire' = IF call[s].dev \in Buses THEN [wire EXCEPT ![call[s].dev] = "wedged"] ELSE wire

-----------------------------------------------------------------------------
(* host_i2c_shell(): the supervisor transfers for the console. *)

\* shell_bus_free()
ShellBusFree(b) == \A s \in Slots : ~ Declared(s, b)

Shell_Opens(b) ==
  /\ b \in I2cs /\ ShellBusFree(b)
  /\ bopen' = [bopen EXCEPT ![b] = TRUE]
  /\ Drives(b)
  /\ UNCHANGED spi

\* Recovered after a failure, and released as it was found.
Shell_Closes(b, wasOpen) ==
  /\ bopen' = [bopen EXCEPT ![b] = wasOpen]
  /\ wire' = [wire EXCEPT ![b] = "idle"]
  /\ UNCHANGED spi

-----------------------------------------------------------------------------
(* No transfer starts on a bus another one is using, be it a module's or    *)
(* the console's, and none on lines that a failed transfer left in the      *)
(* middle of a byte (host_i2c.c:231-246, 308-330).  A transfer that an      *)
(* unload broke off has let go of the lines by the time the bus is closed   *)
(* (host_i2c.c:202-205).                                                    *)
WireIsNeverGarbled ==
  \A b \in Buses : wire[b] # "garbled" /\ (~ bopen[b] => wire[b] = "idle")

(* An SPI bus runs as its present owner set it up, never faster than it     *)
(* asked unless no divider is slow enough, and at the defaults until then   *)
(* (host_spi.c:86-94, 213-215).                                              *)
SpiIsAsItsOwnerSetIt ==
  \A b \in Spis : bopen[b] =>
    /\ spi[b].by # NoDev => Declared(spi[b].by, b)
    /\ spi[b].by = NoDev => spi[b].mode = 0 /\ spi[b].asked = SpiDefault
    /\ \/ spi[b].hz <= spi[b].asked
       \/ \A d \in Divs : spi[b].hz <= PClk \div d
=============================================================================
