----------------------------- MODULE MCStorage -----------------------------
(***************************************************************************)
(* The two places where an image is kept: the arena it runs from (Arena)   *)
(* and the flash store (Persist).  Neither reads a variable of the other   *)
(* and every property is about one of them, so a behaviour moves only one; *)
(* which one is chosen at the start.                                       *)
(***************************************************************************)
EXTENDS Arena, Persist, TLC

CONSTANTS s1, s2

VARIABLE part

MCSymmetry == Permutations(Slots)

\* Two slots load images of three shapes into a pool of 32 bytes.
MCPow    == [k \in 1 .. 5 |-> 2 ^ k]
MCShapes == {[text |-> 3, data |-> 1], [text |-> 5, data |-> 1], [text |-> 16, data |-> 0]}

\* Two builds of one module and one build of each of two others; a bank holds
\* two entries, of which not every pair fits.
A1 == [name |-> "a", bytes |-> "1"]
A2 == [name |-> "a", bytes |-> "2"]
B1 == [name |-> "b", bytes |-> "1"]
C1 == [name |-> "c", bytes |-> "1"]

MCImages  == {A1, A2, B1, C1}
MCFits(S) == ~({A2, C1} \subseteq S)

mcVars == <<arenaVars, vars, part>>

MCInit ==
  /\ ArenaInit
  /\ Init
  /\ part \in {"arena", "flash"}

MCNext ==
  /\ part' = part
  /\ \/ part = "arena" /\ ArenaNext /\ UNCHANGED vars
     \/ part = "flash" /\ Next /\ UNCHANGED arenaVars

MCSpec == MCInit /\ [][MCNext]_mcVars
=============================================================================
