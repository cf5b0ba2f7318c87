---------------------------- MODULE MCTransport -----------------------------
(* An instance for TLC: a frame without payload and one with.              *)
EXTENDS Transport

CONSTANTS Status, Load

MCFrames     == {Status, Load}
MCPayloadLen == [f \in MCFrames |-> IF f = Status THEN 0 ELSE 2]
MCTyped      == {"M", "x", "BS", "CR", "LF"}
=============================================================================
