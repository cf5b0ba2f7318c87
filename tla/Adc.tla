-------------------------------- MODULE Adc ---------------------------------
(***************************************************************************)
(* The ADC driver (src/mdl/host/host_adc.c): every module that declared a  *)
(* channel converts on the same peripheral, in its own task and without a  *)
(* lock, so that a time slice may end between any two of its steps.        *)
(***************************************************************************)
EXTENDS Resources

CONSTANT Vref    \* ADC_VREF_CHANNEL, the host's own

ASSUME AdcAssumption == Vref # NoDev

VARIABLES
  claimed,   \* adc_ch_t.claimed
  up,        \* s_adc_up
  sel,       \* the channel selected
  running,   \* the channel of the conversion under way, or NoDev
  done,      \* the OCCE flag
  value,     \* the channel whose conversion the data register holds
  wrong      \* slots that were given another channel's value, or a timeout,
             \* by a conversion that none other overlapped

adcVars == <<claimed, up, sel, running, done, value, wrong>>

AdcInit ==
  /\ claimed = [c \in Adcs |-> FALSE]
  /\ up = FALSE
  /\ sel = NoDev /\ running = NoDev /\ value = NoDev
  /\ done = FALSE
  /\ wrong = {}

-----------------------------------------------------------------------------
(* Claim and release, on the supervisor task. *)

AdcClaim(c) ==
  /\ claimed' = [claimed EXCEPT ![c] = TRUE]
  /\ up' = TRUE
  /\ UNCHANGED <<sel, running, done, value, wrong>>

\* The last channel to go takes the peripheral down with it.
AdcRelease(c) ==
  /\ claimed' = [claimed EXCEPT ![c] = FALSE]
  /\ up' = (\E d \in Adcs \ {c} : claimed[d])
  /\ running' = IF up' THEN running ELSE NoDev
  /\ UNCHANGED <<sel, done, value, wrong>>

-----------------------------------------------------------------------------
(* convert_once(), step by step. *)

Steps         == {"clear", "trigger", "wait", "stop", "data"}
Converting(s) == call[s].at \in Steps

\* The channel a call converts: its own, then the reference for millivolts.
Channel(s) == IF call[s].left = 2 THEN Vref ELSE call[s].dev

\* Slot s takes a step of a conversion, to the step at: the conversions of
\* the others are no longer alone.
Converts(s, at) ==
  call' = [t \in Slots |->
             IF t = s THEN [call[s] EXCEPT !.at = at]
             ELSE IF Converting(t) THEN [call[t] EXCEPT !.mixed = TRUE] ELSE call[t]]

Adc_Begins(s, c) ==
  /\ c \in Adcs /\ claimed[c] /\ up
  /\ Enters(s, c, "select")
  /\ UNCHANGED adcVars

Alone(s) == running = NoDev /\ \A t \in Slots \ {s} : ~ Converting(t)

Adc_Selects(s) ==
  /\ Is(s, "select")
  /\ call' = [t \in Slots |->
                IF t = s THEN [call[s] EXCEPT !.at = "clear", !.mixed = ~ Alone(s)]
                ELSE IF Converting(t) THEN [call[t] EXCEPT !.mixed = TRUE] ELSE call[t]]
  /\ sel' = Channel(s)
  /\ UNCHANGED <<claimed, up, running, done, value, wrong>>

Adc_Clears_Not(s) == Is(s, "clear") /\ Converts(s, "trigger") /\ UNCHANGED adcVars

Adc_Clears(s) ==
  /\ Is(s, "clear") /\ Converts(s, "trigger")
  /\ done' = FALSE
  /\ UNCHANGED <<claimed, up, sel, running, value, wrong>>

Adc_Triggers(s) ==
  /\ Is(s, "trigger") /\ Converts(s, "wait")
  /\ running' = sel
  /\ UNCHANGED <<claimed, up, sel, done, value, wrong>>

\* The peripheral ends a conversion.
AdcCompletes ==
  /\ up /\ running # NoDev
  /\ value' = running
  /\ done' = TRUE
  /\ running' = NoDev
  /\ UNCHANGED <<call, claimed, up, sel, wrong>>

Adc_SeesFlag(s) == Is(s, "wait") /\ done /\ Converts(s, "stop") /\ UNCHANGED adcVars

\* The poll limit runs out only when no conversion is going to end.
Adc_TimesOut(s) ==
  /\ Is(s, "wait") /\ ~ done /\ running = NoDev
  /\ Returns(s)
  /\ wrong' = IF call[s].mixed THEN wrong ELSE wrong \cup {s}
  /\ UNCHANGED <<claimed, up, sel, running, done, value>>

Adc_Stops(s) == Is(s, "stop") /\ Converts(s, "data") /\ UNCHANGED adcVars

\* Reading the data clears the flag.  A call for millivolts reads twice.
Adc_Reads(s) ==
  /\ Is(s, "data")
  /\ done' = FALSE
  /\ wrong' = IF value # Channel(s) /\ ~ call[s].mixed THEN wrong \cup {s} ELSE wrong
  /\ \/ Returns(s)
     \/ call[s].left = 0 /\ call' = [call EXCEPT ![s].at = "select", ![s].left = 2]
  /\ UNCHANGED <<claimed, up, sel, running, value>>

AdcCall(s) ==
  \/ \E c \in Adcs : Adc_Begins(s, c)
  \/ Adc_Selects(s) \/ Adc_Clears(s) \/ Adc_Triggers(s) \/ Adc_SeesFlag(s)
  \/ Adc_TimesOut(s) \/ Adc_Stops(s) \/ Adc_Reads(s)

-----------------------------------------------------------------------------
(* A module reads the voltage of its own pin, and reads it in time, whoever *)
(* came and went before; only a conversion that another module's overlaps   *)
(* can return that module's channel or none (host_adc.c:149-165).           *)
OnlyAnOverlapMixesReadings == wrong = {}
=============================================================================
