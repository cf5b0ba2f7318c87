----------------------------- MODULE MCDevices ------------------------------
(* Instances of Devices for TLC. *)
EXTENDS Devices, TLC

CONSTANTS s1, s2

MCPinsOf ==
  ("u2" :> {"PA2", "PA3"}) @@ ("u4" :> {"PD5", "PD6"}) @@ ("u3" :> {"PB10"}) @@
  ("i2c1" :> {"PB8"}) @@ ("spi3" :> {"PB3"}) @@ ("adc0" :> {"PA0"}) @@ ("adc1" :> {"PA1"}) @@
  ("btn" :> {"PA3"}) @@ ("cs" :> {"PE3"}) @@ ("u1tx" :> {"PA9"})

MCPeriphOf == ("u2" :> "USART2") @@ ("u4" :> "USART2") @@ ("u3" :> "USART3")

\* UARTs that share a peripheral, and a button on the wire of one of them;
\* two ADC channels; buses and a chip select; claims that are refused.
MCCatalogs ==
  { {<<"u2">>, <<"u4">>, <<"btn">>},
    {<<"u3">>, <<"btn", "u2">>, <<"u1tx">>},
    {<<"adc0", "i2c1">>, <<"adc1">>},
    {<<"spi3", "cs">>, <<"i2c1", "cs">>, <<"btn", "u2", "cs">>} }

MCSymmetry == Permutations(Slots)
=============================================================================
