----------------------------- MODULE Allocator -----------------------------
(***************************************************************************)
(* What the arena's allocator promises (src/mdl/core/buddy.h:49-75): a     *)
(* block is a power of two in size, aligned to its own size and shared     *)
(* with nobody until it is given back.                                     *)
(***************************************************************************)
EXTENDS Integers

CONSTANTS Orders, P, Addresses

VARIABLE granted     \* the blocks that are handed out, [at |-> base, size |-> bytes]

Blocks == {[at |-> a, size |-> P[k]] : a \in Addresses, k \in Orders}

Apart(b, c) == b.at + b.size <= c.at \/ c.at + c.size <= b.at

Init == granted = {}

Grant(b) ==
  /\ b.at % b.size = 0
  /\ \A c \in granted : Apart(b, c)
  /\ granted' = granted \cup {b}

GiveBack(b) ==
  /\ b \in granted
  /\ granted' = granted \ {b}

Next == \E b \in Blocks : Grant(b) \/ GiveBack(b)

Spec == Init /\ [][Next]_granted
=============================================================================
