---------------------------- MODULE BuddyProofs ----------------------------
(***************************************************************************)
(* The allocator never overlaps, misaligns or hides a block, for every     *)
(* pool and every sequence of calls, those with a stale, a foreign or a    *)
(* middle pointer included; and whoever loads, tests and tears modules     *)
(* down in whatever order, each block has one owner, every job that ends   *)
(* leaves nothing behind, and only a run of memtest can disturb a module.  *)
(***************************************************************************)
EXTENDS Arena, TLAPS, WellFoundedInduction, SequenceTheorems

-----------------------------------------------------------------------------
(* Multiples. *)

LEMMA MultipleMod ==
  ASSUME NEW m \in Nat \ {0}, NEW q \in Int
  PROVE  (m * q) % m = 0
BY Z3

LEMMA ModMultiple ==
  ASSUME NEW m \in Nat \ {0}, NEW a \in Int, a % m = 0
  PROVE  \E q \in Int : a = m * q
<1>1. a \div m \in Int BY Z3
<1>2. a = m * (a \div m) BY Z3
<1> QED BY <1>1, <1>2, Z3

LEMMA EvenOrOdd ==
  ASSUME NEW q \in Int
  PROVE  \E r \in Int : q = 2 * r \/ q = 2 * r + 1
<1>1. q \div 2 \in Int /\ (q = 2 * (q \div 2) \/ q = 2 * (q \div 2) + 1) BY Z3
<1> QED BY <1>1, Z3

LEMMA SumOfMultiples ==
  ASSUME NEW m \in Nat \ {0}, NEW a \in Int, NEW b \in Int, a % m = 0, b % m = 0
  PROVE  (a + b) % m = 0
<1>1. PICK q \in Int : a = m * q BY ModMultiple
<1>2. PICK r \in Int : b = m * r BY ModMultiple
<1>3. a + b = m * (q + r) /\ q + r \in Int BY <1>1, <1>2, Z3
<1>4. (m * (q + r)) % m = 0 BY <1>3, MultipleMod
<1> QED BY <1>3, <1>4

LEMMA HalfOfMultiple ==
  ASSUME NEW p \in Nat \ {0}, NEW m \in Nat \ {0}, m = 2 * p, NEW a \in Int, a % m = 0
  PROVE  a % p = 0 /\ (a + p) % p = 0
<1>1. PICK q \in Int : a = m * q BY ModMultiple
<1>2. a = p * (2 * q) /\ 2 * q \in Int BY <1>1, Z3
<1>3. a + p = p * (2 * q + 1) /\ 2 * q + 1 \in Int BY <1>1, Z3
<1>4. (p * (2 * q)) % p = 0 BY <1>2, MultipleMod
<1>5. (p * (2 * q + 1)) % p = 0 BY <1>3, MultipleMod
<1> QED BY <1>2, <1>3, <1>4, <1>5

LEMMA OddMultiple ==
  ASSUME NEW p \in Nat \ {0}, NEW m \in Nat \ {0}, m = 2 * p, NEW a \in Int,
         a % p = 0, a % m # 0
  PROVE  (a - p) % m = 0
<1>1. PICK q \in Int : a = p * q BY ModMultiple
<1>2. PICK r \in Int : q = 2 * r \/ q = 2 * r + 1 BY EvenOrOdd
<1>3. (m * r) % m = 0 BY MultipleMod
<1>4. q # 2 * r
  <2>1. q = 2 * r => a = m * r BY <1>1, Z3
  <2> QED BY <2>1, <1>3
<1>5. a - p = m * r BY <1>1, <1>2, <1>4, Z3
<1> QED BY <1>3, <1>5

LEMMA ApartFromHalves ==
  ASSUME NEW x \in Nat, NEW size \in Nat \ {0}, NEW p \in Nat \ {0}, NEW n \in Nat,
         x + size <= n \/ n + p <= x,
         x + size <= n + p \/ n + p + p <= x
  PROVE  x + size <= n \/ n + 2 * p <= x
OBVIOUS

-----------------------------------------------------------------------------
(* Sets of blocks. *)

Sound(S) ==
  /\ \A x \in S : x[2] % P[x[3]] = 0 /\ x[2] + P[x[3]] <= Pool
  /\ \A x, y \in S : x # y => Disjoint(x, y)

LEMMA Constants ==
  /\ MinOrder \in Orders /\ MaxOrder \in Orders
  /\ Orders \subseteq Nat \ {0}
  /\ \A k \in Orders : P[k] \in Nat \ {0} /\ P[k] % P[MinOrder] = 0
  /\ Pool \in Nat \ {0}
  /\ \A k \in Orders : k < MaxOrder => k + 1 \in Orders /\ P[k + 1] = 2 * P[k]
  /\ Bases \subseteq Nat
BY OrdersAssumption DEF Orders, Pool, Bases

\* A block that only changes hands stays apart from the others.
LEMMA SoundMoved ==
  ASSUME NEW S \in SUBSET Marked, NEW T \in SUBSET Marked, Sound(S),
         NEW old \in S, NEW new \in Marked,
         new[2] = old[2], new[3] = old[3],
         T \subseteq (S \ {old}) \cup {new}
  PROVE  Sound(T)
<1>1. ASSUME NEW x \in T PROVE x[2] % P[x[3]] = 0 /\ x[2] + P[x[3]] <= Pool
  BY <1>1 DEF Sound
<1>2. ASSUME NEW x \in T, NEW y \in T, x # y PROVE Disjoint(x, y)
  <2>1. CASE x = new
    <3>1. y \in S /\ y # old BY <2>1, <1>2
    <3>2. Disjoint(old, y) BY <3>1 DEF Sound
    <3> QED BY <3>2, <2>1 DEF Disjoint
  <2>2. CASE y = new
    <3>1. x \in S /\ x # old BY <2>2, <1>2
    <3>2. Disjoint(x, old) BY <3>1 DEF Sound
    <3> QED BY <3>2, <2>2 DEF Disjoint
  <2>3. CASE x # new /\ y # new
    BY <2>3, <1>2 DEF Sound
  <2> QED BY <2>1, <2>2, <2>3
<1> QED BY <1>1, <1>2 DEF Sound

\* A block split in two halves.
LEMMA SoundSplit ==
  ASSUME NEW S \in SUBSET Marked, NEW T \in SUBSET Marked, Sound(S),
         NEW old \in S, NEW lower \in Marked, NEW upper \in Marked,
         NEW k \in Orders, k < MaxOrder, old[3] = k + 1,
         lower[2] = old[2], lower[3] = k, upper[2] = old[2] + P[k], upper[3] = k,
         T \subseteq (S \ {old}) \cup {lower, upper}
  PROVE  Sound(T)
<1>1. /\ P[k] \in Nat \ {0} /\ P[k + 1] \in Nat \ {0} /\ P[k + 1] = 2 * P[k]
      /\ old[2] \in Nat /\ \A x \in Marked : x[2] \in Nat /\ P[x[3]] \in Nat
  BY Constants DEF Marked
<1>2. old[2] % P[k + 1] = 0 /\ old[2] + P[k + 1] <= Pool BY DEF Sound
<1>3. old[2] % P[k] = 0 /\ (old[2] + P[k]) % P[k] = 0
  BY <1>1, <1>2, HalfOfMultiple
<1>4. \A x \in {lower, upper} : x[2] % P[x[3]] = 0 /\ x[2] + P[x[3]] <= Pool
  BY <1>1, <1>2, <1>3, Constants
<1>5. \A x \in S \ {old} : \A h \in {lower, upper} : Disjoint(x, h) /\ Disjoint(h, x)
  <2> SUFFICES ASSUME NEW x \in S \ {old} PROVE \A h \in {lower, upper} : Disjoint(x, h) /\ Disjoint(h, x)
    OBVIOUS
  <2>1. Disjoint(x, old) BY DEF Sound
  <2>2. x[2] + P[x[3]] <= old[2] \/ old[2] + P[k + 1] <= x[2] BY <2>1 DEF Disjoint
  <2>3. x[2] \in Nat /\ P[x[3]] \in Nat BY <1>1
  <2> QED BY <2>2, <2>3, <1>1 DEF Disjoint
<1>6. Disjoint(lower, upper) /\ Disjoint(upper, lower) BY <1>1 DEF Disjoint
<1>7. \A x \in T : x[2] % P[x[3]] = 0 /\ x[2] + P[x[3]] <= Pool BY <1>4 DEF Sound
<1>8. ASSUME NEW x \in T, NEW y \in T, x # y PROVE Disjoint(x, y)
  <2>1. CASE x \in S \ {old} /\ y \in S \ {old} BY <2>1, <1>8 DEF Sound
  <2>2. CASE x \in S \ {old} /\ y \in {lower, upper} BY <2>2, <1>5
  <2>3. CASE x \in {lower, upper} /\ y \in S \ {old} BY <2>3, <1>5
  <2>4. CASE x \in {lower, upper} /\ y \in {lower, upper} BY <2>4, <1>6, <1>8
  <2> QED BY <2>1, <2>2, <2>3, <2>4
<1> QED BY <1>7, <1>8 DEF Sound

\* Two partner halves that become one block.
LEMMA SoundMerge ==
  ASSUME NEW S \in SUBSET Marked, NEW T \in SUBSET Marked, Sound(S),
         NEW old \in S, NEW partner \in S, NEW new \in Marked,
         NEW k \in Orders, k < MaxOrder, old[3] = k, partner[3] = k,
         partner[2] = PartnerOf(old[2], k), new[3] = k + 1,
         new[2] = IF partner[2] < old[2] THEN partner[2] ELSE old[2],
         T \subseteq (S \ {old, partner}) \cup {new}
  PROVE  Sound(T)
<1>1. /\ P[k] \in Nat \ {0} /\ P[k + 1] \in Nat \ {0} /\ P[k + 1] = 2 * P[k]
      /\ old[2] \in Nat /\ partner[2] \in Nat /\ new[2] \in Nat
      /\ \A x \in Marked : x[2] \in Nat /\ P[x[3]] \in Nat
  BY Constants DEF Marked
<1>2. /\ old[2] % P[k] = 0 /\ old[2] + P[k] <= Pool
      /\ partner[2] + P[k] <= Pool BY DEF Sound
<1>3. /\ new[2] % P[k + 1] = 0
      /\ \/ old[2] = new[2] /\ partner[2] = new[2] + P[k]
         \/ partner[2] = new[2] /\ old[2] = new[2] + P[k]
  <2>1. CASE old[2] % (2 * P[k]) = 0
    <3>1. partner[2] = old[2] + P[k] BY <2>1 DEF PartnerOf
    <3> QED BY <3>1, <2>1, <1>1
  <2>2. CASE old[2] % (2 * P[k]) # 0
    <3>1. partner[2] = old[2] - P[k] BY <2>2 DEF PartnerOf
    <3>2. old[2] % P[k + 1] # 0 BY <2>2, <1>1
    <3>3. (old[2] - P[k]) % P[k + 1] = 0 BY <3>2, <1>1, <1>2, OddMultiple
    <3> QED BY <3>1, <3>3, <1>1
  <2> QED BY <2>1, <2>2
<1>4. new[2] + P[k + 1] <= Pool BY <1>1, <1>2, <1>3, Constants
<1>5. \A x \in S \ {old, partner} : Disjoint(x, new) /\ Disjoint(new, x)
  <2> SUFFICES ASSUME NEW x \in S \ {old, partner} PROVE Disjoint(x, new) /\ Disjoint(new, x)
    OBVIOUS
  <2>1. Disjoint(x, old) /\ Disjoint(x, partner) BY DEF Sound
  <2>2. /\ x[2] + P[x[3]] <= old[2] \/ old[2] + P[k] <= x[2]
        /\ x[2] + P[x[3]] <= partner[2] \/ partner[2] + P[k] <= x[2]
    BY <2>1 DEF Disjoint
  <2>3. x[2] \in Nat /\ P[x[3]] \in Nat \ {0} BY Constants DEF Marked
  <2>4. /\ x[2] + P[x[3]] <= new[2] \/ new[2] + P[k] <= x[2]
        /\ x[2] + P[x[3]] <= new[2] + P[k] \/ new[2] + P[k] + P[k] <= x[2]
    BY <2>2, <1>3
  <2>5. x[2] + P[x[3]] <= new[2] \/ new[2] + 2 * P[k] <= x[2]
    BY <2>3, <2>4, <1>1, ApartFromHalves
  <2> QED BY <2>5, <1>1 DEF Disjoint
<1>6. \A x \in T : x[2] % P[x[3]] = 0 /\ x[2] + P[x[3]] <= Pool BY <1>3, <1>4 DEF Sound
<1>7. ASSUME NEW x \in T, NEW y \in T, x # y PROVE Disjoint(x, y)
  <2>1. CASE x = new BY <2>1, <1>5, <1>7
  <2>2. CASE y = new BY <2>2, <1>5, <1>7
  <2>3. CASE x # new /\ y # new BY <2>3, <1>7 DEF Sound
  <2> QED BY <2>1, <2>2, <2>3
<1> QED BY <1>6, <1>7 DEF Sound

-----------------------------------------------------------------------------
(* The inductive invariant: between the turns of a loop the block in hand   *)
(* is one of the blocks that overlap with no other.                         *)

HandInOrder == hand.at = "split" => hand.want <= hand.order

BuddyInv == BuddyTypeOK /\ HandInOrder /\ Sound(AllBlocks)

At(kind, a, k) == <<kind, a, k>>

LEMMA BlockLists ==
  ASSUME NEW x
  PROVE  x \in AllBlocks <=>
           \E a \in Bases, k \in Orders :
             \/ x = At("free", a, k) /\ a \in free[k]
             \/ x = At("live", a, k) /\ order[a] = k
             \/ x = At("hand", a, k) /\ hand.at # "none" /\ a = hand.addr /\ k = hand.order
BY DEF AllBlocks, Marked, At

LEMMA InitInv == BuddyInit => BuddyInv
<1> SUFFICES ASSUME BuddyInit PROVE BuddyInv OBVIOUS
<1> USE DEF BuddyInit
<1>1. 0 \in Bases
  <2>1. (P[MinOrder] * 0) % P[MinOrder] = 0 BY Constants, MultipleMod
  <2> QED BY <2>1, Constants DEF Bases
<1>2. BuddyTypeOK BY <1>1, Constants DEF BuddyTypeOK, FreshFree, FreshOrder, NoHand
<1>3. \A x \in AllBlocks : x = At("free", 0, MaxOrder)
  BY Constants DEF AllBlocks, Marked, FreshFree, FreshOrder, NoHand, At
<1>4. 0 % P[MaxOrder] = 0 /\ 0 + P[MaxOrder] <= Pool
  <2>1. (P[MaxOrder] * 0) % P[MaxOrder] = 0 BY Constants, MultipleMod
  <2> QED BY <2>1, Constants DEF Pool
<1>5. Sound(AllBlocks) BY <1>3, <1>4 DEF Sound, At
<1> QED BY <1>2, <1>5 DEF BuddyInv, HandInOrder, NoHand

LEMMA PopInv == ASSUME BuddyInv, NEW n, Alloc_Pop(n) PROVE BuddyInv'
<1> USE DEF BuddyInv
<1>1. PICK want \in Orders, have \in Orders, a \in Bases :
        /\ hand.at = "none" /\ want <= have /\ a \in free[have]
        /\ free' = [free EXCEPT ![have] = free[have] \ {a}]
        /\ hand' = [at |-> "split", addr |-> a, order |-> have, want |-> want]
        /\ order' = order
  <2>1. PICK want \in Orders, have \in Orders :
          /\ hand.at = "none" /\ IsSmallestWithRoom(have, want)
          /\ \E a \in free[have] :
               /\ free' = [free EXCEPT ![have] = free[have] \ {a}]
               /\ hand' = [at |-> "split", addr |-> a, order |-> have, want |-> want]
          /\ order' = order
    BY DEF Alloc_Pop
  <2>2. want <= have BY <2>1, Constants DEF IsSmallestWithRoom
  <2>3. free[have] \subseteq Bases BY DEF BuddyTypeOK
  <2> QED BY <2>1, <2>2, <2>3
<1>2. BuddyTypeOK' BY <1>1 DEF BuddyTypeOK
<1>3. HandInOrder' BY <1>1 DEF HandInOrder
<1>4. Sound(AllBlocks')
  <2> DEFINE old == At("free", a, have)  new == At("hand", a, have)
  <2>1. old \in AllBlocks /\ new \in Marked BY <1>1 DEF AllBlocks, Marked, At
  <2>2. AllBlocks' \subseteq (AllBlocks \ {old}) \cup {new}
    BY <1>1 DEF AllBlocks, Marked, At, BuddyTypeOK
  <2>3. AllBlocks \in SUBSET Marked /\ AllBlocks' \in SUBSET Marked BY DEF AllBlocks, Marked, Bases, Orders, Pool
  <2>4. new[2] = old[2] /\ new[3] = old[3] BY DEF At
  <2> QED BY <2>1, <2>2, <2>3, <2>4, SoundMoved
<1> QED BY <1>2, <1>3, <1>4 DEF Sound, Disjoint, Pool

LEMMA SplitInv == ASSUME BuddyInv, Alloc_Split PROVE BuddyInv'
<1> USE DEF BuddyInv
<1> DEFINE k == hand.order - 1  up == hand.addr + P[k]
           old == At("hand", hand.addr, hand.order)
           lower == At("hand", hand.addr, k)  upper == At("free", up, k)
<1>1. /\ hand.at = "split" /\ hand.want <= k
      /\ free' = [free EXCEPT ![k] = free[k] \cup {up}]
      /\ hand' = [at |-> "split", addr |-> hand.addr, order |-> k, want |-> hand.want]
      /\ order' = order
  <2>1. hand.order \in Nat /\ hand.want \in Nat BY Constants DEF BuddyTypeOK
  <2>2. hand.order > hand.want BY DEF Alloc_Split
  <2>3. hand.want <= k BY <2>1, <2>2
  <2> QED BY <2>3 DEF Alloc_Split
<1>2. /\ k \in Orders /\ k < MaxOrder /\ hand.order = k + 1 /\ hand.order \in Orders
      /\ hand.addr \in Bases /\ hand.want \in Orders
  <2>1. hand.addr \in Bases /\ hand.order \in Orders /\ hand.want \in Orders
    BY DEF BuddyTypeOK
  <2>2. \A o \in Orders, w \in Orders :
           w <= o - 1 => o - 1 \in Orders /\ o - 1 < MaxOrder /\ o = (o - 1) + 1
    BY OrdersAssumption DEF Orders
  <2> QED BY <1>1, <2>1, <2>2
<1>3. old \in AllBlocks BY <1>1, <1>2 DEF AllBlocks, Marked, At
<1>4. up \in Bases
  <2>1. hand.addr + P[k + 1] <= Pool BY <1>2, <1>3 DEF Sound, At
  <2>2. (hand.addr + P[k]) % P[MinOrder] = 0
    <3>1. hand.addr \in Nat /\ hand.addr % P[MinOrder] = 0 BY <1>2, Constants DEF Bases
    <3>2. P[k] \in Nat /\ P[k] % P[MinOrder] = 0 /\ P[MinOrder] \in Nat \ {0} BY <1>2, Constants
    <3> QED BY <3>1, <3>2, SumOfMultiples
  <2>3. up \in 0 .. Pool - 1
    <3>1. hand.addr \in Nat /\ P[k] \in Nat \ {0} /\ P[k + 1] = 2 * P[k] /\ Pool \in Nat
      BY <1>2, Constants
    <3> HIDE DEF k
    <3> QED BY <3>1, <2>1
  <2> QED BY <2>2, <2>3 DEF Bases
<1>5. BuddyTypeOK' BY <1>1, <1>2, <1>4 DEF BuddyTypeOK
<1>6. HandInOrder' BY <1>1 DEF HandInOrder
<1>7. Sound(AllBlocks')
  <2>1. lower \in Marked /\ upper \in Marked BY <1>2, <1>4 DEF Marked, At
  <2>2. AllBlocks' \subseteq (AllBlocks \ {old}) \cup {lower, upper}
    <3> SUFFICES ASSUME NEW x \in AllBlocks' PROVE x \in (AllBlocks \ {old}) \cup {lower, upper}
      OBVIOUS
    <3>1. x \in Marked BY DEF AllBlocks, Marked, Bases, Orders, Pool
    <3>2. CASE x[1] = "free" BY <3>1, <3>2, <1>1, <1>2 DEF AllBlocks, Marked, At, BuddyTypeOK
    <3>3. CASE x[1] = "live" BY <3>1, <3>3, <1>1 DEF AllBlocks, Marked, At
    <3>4. CASE x[1] = "hand" BY <3>1, <3>4, <1>1 DEF AllBlocks, Marked, At
    <3> QED BY <3>1, <3>2, <3>3, <3>4 DEF Marked
  <2>3. AllBlocks \in SUBSET Marked /\ AllBlocks' \in SUBSET Marked
    BY DEF AllBlocks, Marked, Bases, Orders, Pool
  <2>4. /\ old[3] = k + 1 /\ lower[2] = old[2] /\ lower[3] = k
        /\ upper[2] = old[2] + P[k] /\ upper[3] = k BY <1>2 DEF At
  <2> HIDE DEF k, up, old, lower, upper
  <2> QED BY <1>2, <1>3, <2>1, <2>2, <2>3, <2>4, SoundSplit
<1> QED BY <1>5, <1>6, <1>7 DEF Sound, Disjoint, Pool

LEMMA ReturnInv == ASSUME BuddyInv, Alloc_Return PROVE BuddyInv'
<1> USE DEF BuddyInv
<1> DEFINE old == At("hand", hand.addr, hand.order)  new == At("live", hand.addr, hand.order)
<1>1. /\ hand.at = "split" /\ hand.addr \in Bases /\ hand.order \in Orders
      /\ order' = [order EXCEPT ![hand.addr] = hand.order]
      /\ hand' = NoHand /\ free' = free
  BY DEF Alloc_Return, BuddyTypeOK
<1>2. BuddyTypeOK'
  <2>1. 0 \in Bases
    <3>1. (P[MinOrder] * 0) % P[MinOrder] = 0 BY Constants, MultipleMod
    <3> QED BY <3>1, Constants DEF Bases
  <2> QED BY <1>1, <2>1, Constants DEF BuddyTypeOK, NoHand
<1>3. HandInOrder' BY <1>1 DEF HandInOrder, NoHand
<1>4. Sound(AllBlocks')
  <2>1. old \in AllBlocks /\ new \in Marked BY <1>1 DEF AllBlocks, Marked, At
  <2>2. AllBlocks' \subseteq (AllBlocks \ {old}) \cup {new}
    BY <1>1 DEF AllBlocks, Marked, At, BuddyTypeOK, NoHand
  <2>3. AllBlocks \in SUBSET Marked /\ AllBlocks' \in SUBSET Marked
    BY DEF AllBlocks, Marked, Bases, Orders, Pool
  <2>4. new[2] = old[2] /\ new[3] = old[3] BY DEF At
  <2> QED BY <2>1, <2>2, <2>3, <2>4, SoundMoved
<1> QED BY <1>2, <1>3, <1>4 DEF Sound, Disjoint, Pool

LEMMA TakeInv == ASSUME BuddyInv, NEW p, Free_Take(p) PROVE BuddyInv'
<1> USE DEF BuddyInv
<1> DEFINE old == At("live", p, order[p])  new == At("hand", p, order[p])
<1>1. /\ hand.at = "none" /\ p \in Bases /\ order[p] \in Orders
      /\ order' = [order EXCEPT ![p] = 0] /\ free' = free
      /\ hand' = [at |-> "merge", addr |-> p, order |-> order[p], want |-> MinOrder]
  BY DEF Free_Take, IsLive, BuddyTypeOK
<1>2. BuddyTypeOK' BY <1>1, Constants DEF BuddyTypeOK
<1>3. HandInOrder' BY <1>1 DEF HandInOrder
<1>4. Sound(AllBlocks')
  <2>1. old \in AllBlocks /\ new \in Marked BY <1>1 DEF AllBlocks, Marked, At
  <2>2. AllBlocks' \subseteq (AllBlocks \ {old}) \cup {new}
    BY <1>1, Constants DEF AllBlocks, Marked, At, BuddyTypeOK
  <2>3. AllBlocks \in SUBSET Marked /\ AllBlocks' \in SUBSET Marked
    BY DEF AllBlocks, Marked, Bases, Orders, Pool
  <2>4. new[2] = old[2] /\ new[3] = old[3] BY DEF At
  <2> HIDE DEF old, new
  <2> QED BY <2>1, <2>2, <2>3, <2>4, SoundMoved
<1> QED BY <1>2, <1>3, <1>4 DEF Sound, Disjoint, Pool

LEMMA MergeInv == ASSUME BuddyInv, Free_Merge PROVE BuddyInv'
<1> USE DEF BuddyInv
<1> DEFINE k == hand.order  b == PartnerOf(hand.addr, k)
           lo == IF b < hand.addr THEN b ELSE hand.addr
           old == At("hand", hand.addr, k)  partner == At("free", b, k)
           new == At("hand", lo, k + 1)
<1>1. /\ hand.at = "merge" /\ k \in Orders /\ k + 1 \in Orders /\ k < MaxOrder
      /\ hand.addr \in Bases /\ b \in free[k] /\ b \in Bases /\ lo \in Bases
      /\ free' = [free EXCEPT ![k] = free[k] \ {b}]
      /\ hand' = [at |-> "merge", addr |-> lo, order |-> k + 1, want |-> MinOrder]
      /\ order' = order
  <2>1. hand.at = "merge" /\ k \in Orders /\ hand.addr \in Bases /\ k < MaxOrder /\ b \in free[k]
    BY DEF Free_Merge, PartnerIsFree, BuddyTypeOK
  <2>2. k + 1 \in Orders /\ b \in Bases BY <2>1, Constants DEF BuddyTypeOK
  <2> QED BY <2>1, <2>2 DEF Free_Merge
<1> HIDE DEF b, lo
<1>2. BuddyTypeOK' BY <1>1, Constants DEF BuddyTypeOK
<1>3. HandInOrder' BY <1>1 DEF HandInOrder
<1>4. Sound(AllBlocks')
  <2>1. old \in AllBlocks /\ partner \in AllBlocks /\ new \in Marked
    BY <1>1 DEF AllBlocks, Marked, At
  <2>2. AllBlocks' \subseteq (AllBlocks \ {old, partner}) \cup {new}
    <3> SUFFICES ASSUME NEW x \in AllBlocks' PROVE x \in (AllBlocks \ {old, partner}) \cup {new}
      OBVIOUS
    <3>1. x \in Marked BY DEF AllBlocks, Marked, Bases, Orders, Pool
    <3>2. CASE x[1] = "free" BY <3>1, <3>2, <1>1 DEF AllBlocks, Marked, At, BuddyTypeOK
    <3>3. CASE x[1] = "live" BY <3>1, <3>3, <1>1 DEF AllBlocks, Marked, At
    <3>4. CASE x[1] = "hand" BY <3>1, <3>4, <1>1 DEF AllBlocks, Marked, At
    <3> QED BY <3>1, <3>2, <3>3, <3>4 DEF Marked
  <2>3. AllBlocks \in SUBSET Marked /\ AllBlocks' \in SUBSET Marked
    BY DEF AllBlocks, Marked, Bases, Orders, Pool
  <2>4. /\ old[3] = k /\ partner[3] = k /\ partner[2] = PartnerOf(old[2], k) /\ new[3] = k + 1
        /\ new[2] = IF partner[2] < old[2] THEN partner[2] ELSE old[2]
    BY DEF At, b, lo
  <2> HIDE DEF k, old, partner, new
  <2> QED BY <1>1, <2>1, <2>2, <2>3, <2>4, SoundMerge
<1> QED BY <1>2, <1>3, <1>4 DEF Sound, Disjoint, Pool

LEMMA PushInv == ASSUME BuddyInv, Free_Push PROVE BuddyInv'
<1> USE DEF BuddyInv
<1> DEFINE old == At("hand", hand.addr, hand.order)  new == At("free", hand.addr, hand.order)
<1>1. /\ hand.at = "merge" /\ hand.addr \in Bases /\ hand.order \in Orders
      /\ free' = [free EXCEPT ![hand.order] = free[hand.order] \cup {hand.addr}]
      /\ hand' = NoHand /\ order' = order
  BY DEF Free_Push, BuddyTypeOK
<1>2. BuddyTypeOK'
  <2>1. 0 \in Bases
    <3>1. (P[MinOrder] * 0) % P[MinOrder] = 0 BY Constants, MultipleMod
    <3> QED BY <3>1, Constants DEF Bases
  <2> QED BY <1>1, <2>1, Constants DEF BuddyTypeOK, NoHand
<1>3. HandInOrder' BY <1>1 DEF HandInOrder, NoHand
<1>4. Sound(AllBlocks')
  <2>1. old \in AllBlocks /\ new \in Marked BY <1>1 DEF AllBlocks, Marked, At
  <2>2. AllBlocks' \subseteq (AllBlocks \ {old}) \cup {new}
    BY <1>1 DEF AllBlocks, Marked, At, BuddyTypeOK, NoHand
  <2>3. AllBlocks \in SUBSET Marked /\ AllBlocks' \in SUBSET Marked
    BY DEF AllBlocks, Marked, Bases, Orders, Pool
  <2>4. new[2] = old[2] /\ new[3] = old[3] BY DEF At
  <2> QED BY <2>1, <2>2, <2>3, <2>4, SoundMoved
<1> QED BY <1>2, <1>3, <1>4 DEF Sound, Disjoint, Pool

LEMMA StutterInv == ASSUME BuddyInv, UNCHANGED buddyVars PROVE BuddyInv'
BY DEF buddyVars, BuddyInv, BuddyTypeOK, HandInOrder, Sound, Disjoint, Pool,
       AllBlocks, Marked, Bases, Orders

LEMMA NextInv == BuddyInv /\ [BuddyNext]_buddyVars => BuddyInv'
BY PopInv, SplitInv, ReturnInv, TakeInv, MergeInv, PushInv, StutterInv DEF BuddyNext

(* What the allocator's own steps keep, the loops of a call included: the   *)
(* inductive invariant from which the next three theorems follow.           *)
THEOREM InvIsInvariant == BuddySpec => []BuddyInv
BY InitInv, NextInv, PTL DEF BuddySpec

(* Every variable keeps its type: what is on a list starts on a multiple of *)
(* the smallest block and is inside the pool.                               *)
THEOREM BuddyTypeCorrect == BuddySpec => []BuddyTypeOK
<1>1. BuddyInv => BuddyTypeOK BY DEF BuddyInv
<1> QED BY <1>1, InvIsInvariant, PTL

(* No two blocks share a byte, whatever the client asks for and frees.      *)
THEOREM BlocksNeverOverlap == BuddySpec => []NoOverlap
<1>1. BuddyInv => NoOverlap BY DEF BuddyInv, Sound, NoOverlap
<1> QED BY <1>1, InvIsInvariant, PTL

(* Every block is aligned to its size and inside the pool, so that one MPU  *)
(* region covers exactly it.                                                *)
THEOREM BlocksAreAligned == BuddySpec => []Aligned
<1>1. BuddyInv => Aligned BY DEF BuddyInv, Sound, Aligned
<1> QED BY <1>1, InvIsInvariant, PTL

-----------------------------------------------------------------------------
(* The allocator implements its abstract specification. *)

LEMMA GrantStep == ASSUME BuddyInv, Alloc_Return PROVE B!Next
<1> DEFINE b == [at |-> hand.addr, size |-> P[hand.order]]  x == At("hand", hand.addr, hand.order)
<1>1. /\ hand.at = "split" /\ hand.addr \in Bases /\ hand.order \in Orders
      /\ order' = [order EXCEPT ![hand.addr] = hand.order]
      /\ order \in [Bases -> Orders \cup {0}]
  BY DEF Alloc_Return, BuddyInv, BuddyTypeOK
<1>2. x \in AllBlocks BY <1>1 DEF AllBlocks, Marked, At
<1>3. b.at % b.size = 0 BY <1>2 DEF BuddyInv, Sound, At
<1>4. \A a \in Bases : order[a] # 0 =>
        B!Apart(b, [at |-> a, size |-> P[order[a]]])
  <2> SUFFICES ASSUME NEW a \in Bases, order[a] # 0
               PROVE B!Apart(b, [at |-> a, size |-> P[order[a]]])
    OBVIOUS
  <2>1. At("live", a, order[a]) \in AllBlocks BY <1>1 DEF AllBlocks, Marked, At
  <2>2. Disjoint(x, At("live", a, order[a])) BY <1>2, <2>1 DEF BuddyInv, Sound, At
  <2> QED BY <2>2 DEF Disjoint, At, B!Apart
<1>5. order[hand.addr] = 0
  <2> SUFFICES ASSUME order[hand.addr] # 0 PROVE FALSE BY <1>1
  <2>1. order[hand.addr] \in Orders BY <1>1
  <2>2. hand.addr + P[hand.order] <= hand.addr \/ hand.addr + P[order[hand.addr]] <= hand.addr
    BY <1>1, <1>4 DEF B!Apart
  <2>3. hand.addr \in Nat /\ P[hand.order] \in Nat \ {0} /\ P[order[hand.addr]] \in Nat \ {0}
    BY <1>1, <2>1, Constants
  <2> QED BY <2>2, <2>3
<1>6. GrantedBy(order)' = GrantedBy(order) \cup {b}
  BY <1>1, <1>5, Constants DEF GrantedBy, Bases, Pool
<1>7. b \in B!Blocks BY <1>1 DEF B!Blocks
<1>8. \A c \in GrantedBy(order) : B!Apart(b, c) BY <1>4 DEF GrantedBy
<1>9. B!Grant(b) BY <1>3, <1>6, <1>8 DEF B!Grant
<1> QED BY <1>7, <1>9 DEF B!Next

LEMMA GiveBackStep == ASSUME BuddyInv, NEW p, Free_Take(p) PROVE B!Next
<1> DEFINE b == [at |-> p, size |-> P[order[p]]]
<1>1. /\ p \in Bases /\ order[p] # 0 /\ order \in [Bases -> Orders \cup {0}]
      /\ order' = [order EXCEPT ![p] = 0]
  BY DEF Free_Take, IsLive, BuddyInv, BuddyTypeOK
<1>2. b \in GrantedBy(order) /\ b \in B!Blocks BY <1>1 DEF GrantedBy, B!Blocks
<1>3. GrantedBy(order)' = GrantedBy(order) \ {b}
  BY <1>1, Constants DEF GrantedBy, Bases, Pool
<1>4. B!GiveBack(b) BY <1>2, <1>3 DEF B!GiveBack
<1> QED BY <1>2, <1>4 DEF B!Next

LEMMA StepRefines == BuddyInv /\ [BuddyNext]_buddyVars => [B!Next]_(GrantedBy(order))
<1> SUFFICES ASSUME BuddyInv, [BuddyNext]_buddyVars PROVE [B!Next]_(GrantedBy(order))
  OBVIOUS
<1>1. CASE order' = order BY <1>1 DEF GrantedBy, Bases, Pool
<1>2. CASE Alloc_Return BY <1>2, GrantStep
<1>3. ASSUME NEW p, Free_Take(p) PROVE B!Next BY <1>3, GiveBackStep
<1> QED BY <1>1, <1>2, <1>3 DEF BuddyNext, buddyVars, Alloc_Pop, Alloc_Split, Free_Merge, Free_Push

LEMMA InitRefines == BuddyInit => B!Init
BY DEF BuddyInit, FreshOrder, B!Init, GrantedBy

(* A client sees power-of-two blocks, aligned to their size and shared with *)
(* nobody until they are given back; the loops of a call are not seen.      *)
THEOREM BuddyImplementsAllocator == BuddySpec => B!Spec
BY InvIsInvariant, InitRefines, StepRefines, PTL DEF BuddySpec, B!Spec

-----------------------------------------------------------------------------
(* The smallest of a set of numbers, and what follows for multiples.        *)

Less == {ss \in Nat \X Nat : ss[1] < ss[2]}

LEMMA LessIsWellFounded == IsWellFoundedOn(Less, Nat)
BY NatLessThanWellFounded DEF OpToRel, Less

LEMMA Smallest ==
  ASSUME NEW T \in SUBSET Nat, T # {}
  PROVE  \E m \in T : \A n \in T : m <= n
<1>1. PICK m \in T : \A n \in T : ~ (<<n, m>> \in Less)
  BY LessIsWellFounded, WFMin
<1>2. \A n \in T : ~ (n < m) BY <1>1 DEF Less
<1> QED BY <1>2

\* The size of a block is a multiple of the size of every smaller one.
LEMMA SizesDivide ==
  ASSUME NEW j \in Orders, NEW k \in Orders, j <= k
  PROVE  P[k] % P[j] = 0
<1> DEFINE T == {i \in Orders : j <= i /\ P[i] % P[j] # 0}
<1> SUFFICES ASSUME T # {} PROVE FALSE OBVIOUS
<1>1. PICK m \in T : \A n \in T : m <= n
  <2>1. T \in SUBSET Nat BY Constants
  <2> HIDE DEF T
  <2> QED BY <2>1, Smallest
<1>2. m \in Nat /\ j \in Nat /\ P[j] \in Nat \ {0} /\ P[m] \in Nat \ {0} BY Constants
<1>3. m # j
  <2>1. (P[j] * 1) % P[j] = 0 BY <1>2, MultipleMod
  <2> QED BY <2>1, <1>2
<1> DEFINE i == m - 1
<1>4. i \in Orders /\ j <= i /\ i < MaxOrder /\ i + 1 = m
  BY <1>2, <1>3, OrdersAssumption DEF Orders
<1>5. P[i] % P[j] = 0
  <2>1. i \notin T BY <1>1, <1>2
  <2> QED BY <2>1, <1>4
<1>6. P[m] = P[i] + P[i] /\ P[i] \in Nat \ {0} BY <1>2, <1>4, Constants
<1>7. (P[i] + P[i]) % P[j] = 0 BY <1>2, <1>5, <1>6, SumOfMultiples
<1> QED BY <1>6, <1>7

LEMMA MultipleGap ==
  ASSUME NEW m \in Nat \ {0}, NEW a \in Int, NEW b \in Int, a % m = 0, b % m = 0, a < b
  PROVE  a + m <= b
<1>1. PICK q \in Int : a = m * q BY ModMultiple
<1>2. PICK r \in Int : b = m * r BY ModMultiple
<1>3. m * (r - q) > 0 BY <1>1, <1>2, Z3
<1>4. r - q >= 1 BY <1>3, Z3
<1>5. m * (r - q) >= m BY <1>4, Z3
<1> QED BY <1>1, <1>2, <1>5, Z3

LEMMA MultipleOfMultiple ==
  ASSUME NEW m \in Nat \ {0}, NEW n \in Nat \ {0}, n % m = 0, NEW a \in Int, a % n = 0
  PROVE  a % m = 0
<1>1. PICK q \in Int : n = m * q BY ModMultiple
<1>2. PICK r \in Int : a = n * r BY ModMultiple
<1>3. a = m * (q * r) /\ q * r \in Int BY <1>1, <1>2, Z3
<1>4. (m * (q * r)) % m = 0 BY <1>3, MultipleMod
<1> QED BY <1>3, <1>4

\* Two aligned blocks that share a byte: the larger holds the smaller.
LEMMA Nested ==
  ASSUME NEW j \in Orders, NEW k \in Orders, j <= k,
         NEW a \in Int, NEW b \in Int, a % P[k] = 0, b % P[j] = 0,
         b < a + P[k], a < b + P[j]
  PROVE  a <= b /\ b + P[j] <= a + P[k]
<1>1. P[j] \in Nat \ {0} /\ P[k] \in Nat \ {0} /\ P[k] % P[j] = 0 BY Constants, SizesDivide
<1>2. a % P[j] = 0 BY <1>1, MultipleOfMultiple
<1>3. (a + P[k]) % P[j] = 0 BY <1>1, <1>2, SumOfMultiples
<1>4. b + P[j] <= a + P[k]
  <2> DEFINE c == a + P[k]
  <2>1. c \in Int /\ c % P[j] = 0 /\ b < c BY <1>1, <1>3
  <2> HIDE DEF c
  <2>2. b + P[j] <= c BY <1>1, <2>1, MultipleGap
  <2> QED BY <2>2 DEF c
<1>5. P[j] % P[j] = 0
  <2>1. (P[j] * 1) % P[j] = 0 BY <1>1, MultipleMod
  <2> QED BY <2>1, <1>1
<1>6. (b + P[j]) % P[j] = 0 BY <1>1, <1>5, SumOfMultiples
<1>7. a + P[j] <= b + P[j]
  <2> DEFINE c == b + P[j]
  <2>1. c \in Int /\ c % P[j] = 0 /\ a < c BY <1>1, <1>6
  <2> HIDE DEF c
  <2>2. a + P[j] <= c BY <1>1, <1>2, <2>1, MultipleGap
  <2> QED BY <2>2 DEF c
<1> QED BY <1>1, <1>4, <1>7

-----------------------------------------------------------------------------
(* A block and its partner. *)

LEMMA PartnerIsOne ==
  ASSUME NEW k \in Orders, NEW a \in Int, a % P[k] = 0
  PROVE  LET b == PartnerOf(a, k)
         IN  /\ b \in Int /\ b % P[k] = 0
             /\ b = a + P[k] \/ a = b + P[k]
             /\ PartnerOf(b, k) = a
             /\ (IF b < a THEN b ELSE a) % (2 * P[k]) = 0
<1> DEFINE b == PartnerOf(a, k)  p == P[k]
<1>1. p \in Nat \ {0} /\ 2 * p \in Nat \ {0} BY Constants
<1>2. CASE a % (2 * p) = 0
  <2>1. b = a + p BY <1>2 DEF PartnerOf
  <2>2. b % p = 0 BY <1>1, <1>2, <2>1, HalfOfMultiple
  <2>3. b % (2 * p) # 0
    <3> SUFFICES ASSUME b % (2 * p) = 0 PROVE FALSE OBVIOUS
    <3>1. b \in Int /\ a < b BY <1>1, <2>1
    <3> HIDE DEF b, p
    <3>2. a + 2 * p <= b BY <1>1, <1>2, <3>1, MultipleGap
    <3> QED BY <1>1, <2>1, <3>2
  <2>4. PartnerOf(b, k) = b - p BY <2>3 DEF PartnerOf
  <2> QED BY <1>1, <1>2, <2>1, <2>2, <2>4
<1>3. CASE a % (2 * p) # 0
  <2>1. b = a - p BY <1>3 DEF PartnerOf
  <2>2. (a - p) % (2 * p) = 0 BY <1>1, <1>3, OddMultiple
  <2>3. b % (2 * p) = 0 BY <2>1, <2>2
  <2>4. PartnerOf(b, k) = b + p BY <2>3 DEF PartnerOf
  <2>5. b \in Int BY <1>1, <2>1
  <2>6. b % p = 0
    <3> HIDE DEF b, p
    <3> QED BY <1>1, <2>3, <2>5, HalfOfMultiple
  <2> QED BY <1>1, <2>1, <2>3, <2>4, <2>5, <2>6
<1> QED BY <1>2, <1>3

-----------------------------------------------------------------------------
(* No room is hidden: the blocks tile the pool and no two partners are both *)
(* free.                                                                    *)

Covers(x, a) == x[2] <= a /\ a < x[2] + P[x[3]]

Covered(S) == \A a \in 0 .. Pool - 1 : \E x \in S : Covers(x, a)

NoPartnersFree(f) ==
  \A k \in Orders : k < MaxOrder => \A a \in f[k] : PartnerOf(a, k) \notin f[k]

LEMMA MarkedBlock ==
  ASSUME NEW x \in Marked
  PROVE  x[2] \in Nat /\ x[2] \in Bases /\ x[3] \in Orders /\ P[x[3]] \in Nat \ {0} /\ x[3] \in Nat
BY Constants DEF Marked

LEMMA BlocksAreMarked == AllBlocks \in SUBSET Marked
BY DEF AllBlocks

\* An aligned range that only free blocks smaller than it meet has two
\* partners among them.
LEMMA FreeRangeMerges ==
  ASSUME NEW S \in SUBSET Marked, Sound(S), Covered(S),
         NEW k \in Orders, NEW a \in Bases, a % P[k] = 0,
         \A x \in S : x[2] < a + P[k] /\ a < x[2] + P[x[3]] => x[3] < k
  PROVE  \E x, y \in S : /\ x[3] = y[3] /\ x[3] < k /\ y[2] = PartnerOf(x[2], x[3])
                         /\ x[2] < a + P[k] /\ a < x[2] + P[x[3]]
                         /\ y[2] < a + P[k] /\ a < y[2] + P[y[3]]
<1> DEFINE In == {x \in S : x[2] < a + P[k] /\ a < x[2] + P[x[3]]}
<1>1. /\ a \in Nat /\ a < Pool /\ P[k] \in Nat \ {0} /\ k \in Nat
      /\ Pool \in Nat \ {0} /\ k <= MaxOrder /\ MaxOrder \in Orders
  BY Constants DEF Bases, Orders
<1>2. a + P[k] <= Pool
  <2>1. Pool % P[k] = 0 BY <1>1, SizesDivide DEF Pool
  <2> QED BY <1>1, <2>1, MultipleGap
<1>3. PICK x \in In : \A z \in In : x[3] <= z[3]
  <2> DEFINE T == {z[3] : z \in In}
  <2>1. T # {}
    <3>1. PICK z \in S : Covers(z, a) BY <1>1 DEF Covered
    <3>2. z[2] \in Nat /\ P[z[3]] \in Nat BY MarkedBlock
    <3>3. z \in In BY <1>1, <3>1, <3>2 DEF Covers
    <3> QED BY <3>3
  <2>2. T \in SUBSET Nat BY MarkedBlock
  <2> HIDE DEF T
  <2>3. PICK m \in T : \A n \in T : m <= n BY <2>1, <2>2, Smallest
  <2> QED BY <2>3 DEF T
<1> DEFINE j == x[3]  b == PartnerOf(x[2], j)  c == IF b < x[2] THEN b ELSE x[2]
<1>4. /\ x \in S /\ x[2] \in Nat /\ j \in Orders /\ j \in Nat /\ P[j] \in Nat \ {0}
      /\ x[2] < a + P[k] /\ a < x[2] + P[j] /\ j < k
  BY MarkedBlock
<1>5. x[2] % P[j] = 0 BY <1>4 DEF Sound
<1>6. /\ b \in Int /\ b % P[j] = 0
      /\ b = x[2] + P[j] \/ x[2] = b + P[j]
      /\ c % (2 * P[j]) = 0
  BY <1>4, <1>5, PartnerIsOne
<1> DEFINE n == j + 1
<1>7. n \in Orders /\ n <= k /\ P[n] = 2 * P[j] /\ j < MaxOrder
  BY <1>1, <1>4, Constants DEF Orders
<1>8. /\ c \in Int /\ c % P[n] = 0 /\ c <= x[2] /\ x[2] + P[j] <= c + P[n]
      /\ c <= b /\ b + P[j] <= c + P[n]
  BY <1>4, <1>6, <1>7
<1> HIDE DEF In, j, b, c, n
<1>9. a <= c /\ c + P[n] <= a + P[k]
  <2>1. c < a + P[k] /\ a < c + P[n] /\ a \in Int BY <1>1, <1>4, <1>7, <1>8, Constants
  <2> QED BY <1>1, <1>7, <1>8, <2>1, Nested
<1>10. b \in 0 .. Pool - 1 /\ a <= b /\ b + P[j] <= a + P[k]
  BY <1>1, <1>2, <1>4, <1>6, <1>7, <1>8, <1>9
<1>11. PICK y \in S : Covers(y, b) BY <1>10 DEF Covered
<1>12. /\ y[2] \in Nat /\ y[3] \in Orders /\ y[3] \in Nat /\ P[y[3]] \in Nat \ {0}
       /\ y[2] % P[y[3]] = 0 /\ y[2] <= b /\ b < y[2] + P[y[3]]
  <2>1. y \in Marked /\ y[2] <= b /\ b < y[2] + P[y[3]] BY <1>11 DEF Covers
  <2>2. y[2] % P[y[3]] = 0 BY DEF Sound
  <2> QED BY <2>1, <2>2, MarkedBlock
<1>13. y \in In
  <2>1. b \in Int /\ a <= b /\ b < a + P[k] BY <1>1, <1>4, <1>6, <1>10
  <2>2. y[2] < a + P[k] /\ a < y[2] + P[y[3]] BY <1>1, <1>12, <2>1
  <2> QED BY <2>2 DEF In
<1>14. j <= y[3] BY <1>3, <1>13 DEF j
<1>15. y[3] = j
  <2> SUFFICES ASSUME y[3] # j PROVE FALSE OBVIOUS
  <2>1. n <= y[3] BY <1>4, <1>12, <1>14 DEF n
  <2>2. y[2] <= c /\ c + P[n] <= y[2] + P[y[3]]
    <3>1. c < y[2] + P[y[3]] /\ y[2] < c + P[n] BY <1>4, <1>6, <1>8, <1>12, <1>7, Constants
    <3>2. y[2] \in Int BY <1>12
    <3> QED BY <1>7, <1>8, <1>12, <2>1, <3>1, <3>2, Nested
  <2>3. x # y BY <2>1, <1>4 DEF n, j
  <2>4. x[2] + P[j] <= y[2] \/ y[2] + P[y[3]] <= x[2] BY <2>3, <1>4 DEF Sound, Disjoint, j
  <2> QED BY <1>4, <1>8, <1>12, <2>2, <2>4, <1>7
<1>16. y[2] = b
  <2> SUFFICES ASSUME y[2] < b PROVE FALSE BY <1>12, <1>6
  <2>1. y[2] \in Int /\ y[2] % P[j] = 0 /\ y[2] < b BY <1>12, <1>15
  <2>2. y[2] + P[j] <= b BY <1>4, <1>6, <2>1, MultipleGap
  <2> QED BY <1>4, <1>6, <1>12, <1>15, <2>2
<1>17. x \in In /\ x[3] = j BY DEF j
<1> QED BY <1>4, <1>13, <1>15, <1>16, <1>17 DEF In, b

LEMMA RoomIsSeen ==
  ASSUME BuddyInv, Covered(AllBlocks), NoPartnersFree(free)
  PROVE  NoHiddenRoom
<1> SUFFICES ASSUME hand.at = "none", NEW k \in Orders, \A j \in k .. MaxOrder : free[j] = {},
                    NEW a \in Bases, a % P[k] = 0,
                    ~ \E b \in Bases : order[b] # 0 /\ b < a + P[k] /\ a < b + P[order[b]]
             PROVE  FALSE
  BY DEF NoHiddenRoom
<1>1. ASSUME NEW x \in AllBlocks, x[2] < a + P[k] /\ a < x[2] + P[x[3]]
      PROVE  x[1] = "free" /\ x[2] \in free[x[3]] /\ x[3] < k
  <2>1. x \in Marked /\ x[2] \in Bases /\ x[3] \in Orders /\ x[3] \in Nat BY MarkedBlock DEF AllBlocks
  <2>2. ~ (x[1] = "live" /\ order[x[2]] = x[3])
    <3> SUFFICES ASSUME order[x[2]] = x[3] PROVE FALSE OBVIOUS
    <3>1. order[x[2]] # 0 BY <2>1, Constants
    <3> QED BY <1>1, <2>1, <3>1
  <2>3. x[1] = "free" /\ x[2] \in free[x[3]] BY <2>2 DEF AllBlocks
  <2>4. x[3] \notin k .. MaxOrder BY <2>3
  <2> QED BY <2>1, <2>3, <2>4, Constants DEF Orders
<1>2. AllBlocks \in SUBSET Marked /\ Sound(AllBlocks) BY BlocksAreMarked DEF BuddyInv
<1>3. PICK x \in AllBlocks, y \in AllBlocks :
        /\ x[3] = y[3] /\ x[3] < k /\ y[2] = PartnerOf(x[2], x[3])
        /\ x[2] < a + P[k] /\ a < x[2] + P[x[3]]
        /\ y[2] < a + P[k] /\ a < y[2] + P[y[3]]
  BY <1>1, <1>2, FreeRangeMerges
<1>4. x[2] \in free[x[3]] /\ PartnerOf(x[2], x[3]) \in free[x[3]] BY <1>1, <1>3
<1>5. x[3] \in Orders /\ x[3] < MaxOrder
  BY <1>2, <1>3, MarkedBlock, Constants DEF Orders
<1> QED BY <1>4, <1>5 DEF NoPartnersFree

RoomInv == Covered(AllBlocks) /\ NoPartnersFree(free)

LEMMA CoveredStays ==
  ASSUME NEW S, NEW T, Covered(S),
         \A x \in S, a \in Nat : Covers(x, a) => \E y \in T : Covers(y, a)
  PROVE  Covered(T)
<1>1. 0 .. Pool - 1 \subseteq Nat BY Constants
<1> QED BY <1>1 DEF Covered

\* A block goes on a list that does not hold its partner.
LEMMA PartnersStayApart ==
  ASSUME NEW f \in [Orders -> SUBSET Bases], NEW g, NEW k \in Orders, NEW n \in Bases,
         NoPartnersFree(f), g = [f EXCEPT ![k] = f[k] \cup {n}],
         n % P[k] = 0, \A a \in f[k] : a % P[k] = 0,
         k < MaxOrder => PartnerOf(n, k) \notin f[k]
  PROVE  NoPartnersFree(g)
<1> SUFFICES ASSUME NEW i \in Orders, i < MaxOrder, NEW a \in g[i], PartnerOf(a, i) \in g[i]
             PROVE  FALSE
  BY DEF NoPartnersFree
<1>1. i = k BY DEF NoPartnersFree
<1>2. P[k] \in Nat \ {0} /\ n \in Int BY Constants
<1>3. a \in Int /\ a % P[k] = 0 BY <1>1, <1>2, Constants
<1>4. /\ PartnerOf(a, k) # a
      /\ PartnerOf(PartnerOf(a, k), k) = a
  BY <1>2, <1>3, PartnerIsOne
<1>5. CASE a = n BY <1>1, <1>4, <1>5
<1>6. CASE a \in f[k]
  <2>1. PartnerOf(a, k) \in f[k] \cup {n} BY <1>1
  <2>2. PartnerOf(a, k) \notin f[k] BY <1>1, <1>6 DEF NoPartnersFree
  <2> QED BY <1>1, <1>4, <1>6, <2>1, <2>2
<1> QED BY <1>1, <1>5, <1>6

LEMMA FreeIsAligned ==
  ASSUME BuddyInv, NEW k \in Orders
  PROVE  \A a \in free[k] : a % P[k] = 0
<1> SUFFICES ASSUME NEW a \in free[k] PROVE a % P[k] = 0 OBVIOUS
<1>1. a \in Bases BY DEF BuddyInv, BuddyTypeOK
<1>2. At("free", a, k) \in AllBlocks BY <1>1 DEF AllBlocks, Marked, At
<1> QED BY <1>2 DEF BuddyInv, Sound, At

\* The block in hand is on no list and in no entry of the table.
LEMMA HandIsApart ==
  ASSUME BuddyInv, hand.at # "none"
  PROVE  /\ order[hand.addr] = 0
         /\ \A k \in Orders : hand.addr \notin free[k]
         /\ hand.addr % P[hand.order] = 0
         /\ \A a \in Bases : order[a] # 0 =>
              hand.addr + P[hand.order] <= a \/ a + P[order[a]] <= hand.addr
<1> DEFINE x == At("hand", hand.addr, hand.order)
<1>1. /\ hand.addr \in Bases /\ hand.order \in Orders /\ order \in [Bases -> Orders \cup {0}]
      /\ hand.addr \in Nat /\ P[hand.order] \in Nat \ {0} /\ \A k \in Orders : P[k] \in Nat \ {0}
  BY Constants DEF BuddyInv, BuddyTypeOK
<1>2. x \in AllBlocks BY <1>1 DEF AllBlocks, Marked, At
<1>3. ASSUME NEW a \in Bases, order[a] # 0
      PROVE  hand.addr + P[hand.order] <= a \/ a + P[order[a]] <= hand.addr
  <2>1. At("live", a, order[a]) \in AllBlocks BY <1>1, <1>3 DEF AllBlocks, Marked, At
  <2>2. Disjoint(x, At("live", a, order[a])) BY <1>2, <2>1 DEF BuddyInv, Sound, At
  <2> QED BY <2>2 DEF Disjoint, At
<1>4. order[hand.addr] = 0
  <2> SUFFICES ASSUME order[hand.addr] # 0 PROVE FALSE OBVIOUS
  <2>1. order[hand.addr] \in Orders BY <1>1
  <2> QED BY <1>1, <1>3, <2>1
<1>5. ASSUME NEW k \in Orders, hand.addr \in free[k] PROVE FALSE
  <2>1. At("free", hand.addr, k) \in AllBlocks BY <1>1, <1>5 DEF AllBlocks, Marked, At
  <2>2. Disjoint(x, At("free", hand.addr, k)) BY <1>2, <2>1 DEF BuddyInv, Sound, At
  <2> QED BY <1>1, <2>2 DEF Disjoint, At
<1>6. hand.addr % P[hand.order] = 0 BY <1>2 DEF BuddyInv, Sound, At
<1> QED BY <1>3, <1>4, <1>5, <1>6

LEMMA InitRoom == BuddyInit => RoomInv
<1> SUFFICES ASSUME BuddyInit PROVE RoomInv OBVIOUS
<1>1. 0 \in Bases
  <2>1. (P[MinOrder] * 0) % P[MinOrder] = 0 BY Constants, MultipleMod
  <2> QED BY <2>1, Constants DEF Bases
<1>2. At("free", 0, MaxOrder) \in AllBlocks
  BY <1>1, Constants DEF BuddyInit, FreshFree, AllBlocks, Marked, At
<1>3. \A a \in 0 .. Pool - 1 : Covers(At("free", 0, MaxOrder), a)
  BY Constants DEF Covers, At, Pool
<1>4. Covered(AllBlocks) BY <1>2, <1>3 DEF Covered
<1>5. NoPartnersFree(free) BY Constants DEF BuddyInit, FreshFree, NoPartnersFree, Orders
<1> QED BY <1>4, <1>5 DEF RoomInv

LEMMA PopRoom == ASSUME BuddyInv, RoomInv, NEW n, Alloc_Pop(n) PROVE RoomInv'
<1>1. PICK want \in Orders, have \in Orders, a \in Bases :
        /\ hand.at = "none" /\ a \in free[have]
        /\ free' = [free EXCEPT ![have] = free[have] \ {a}]
        /\ hand' = [at |-> "split", addr |-> a, order |-> have, want |-> want]
        /\ order' = order
  BY DEF Alloc_Pop, BuddyInv, BuddyTypeOK
<1> DEFINE old == At("free", a, have)  new == At("hand", a, have)
<1>2. new \in AllBlocks' BY <1>1 DEF AllBlocks, Marked, At, Bases, Orders, Pool
<1>3. AllBlocks \ {old} \subseteq AllBlocks'
  BY <1>1 DEF AllBlocks, Marked, At, BuddyInv, BuddyTypeOK, Bases, Orders, Pool
<1>4. \A x \in AllBlocks, c \in Nat : Covers(x, c) => \E y \in AllBlocks' : Covers(y, c)
  BY <1>2, <1>3 DEF Covers, At
<1>5. Covered(AllBlocks') BY <1>4, CoveredStays DEF RoomInv
<1>6. NoPartnersFree(free') BY <1>1 DEF RoomInv, NoPartnersFree, BuddyInv, BuddyTypeOK
<1> QED BY <1>5, <1>6 DEF RoomInv, Covered, NoPartnersFree, Covers, Pool, PartnerOf, Orders

LEMMA SplitRoom == ASSUME BuddyInv, RoomInv, Alloc_Split PROVE RoomInv'
<1> DEFINE k == hand.order - 1  up == hand.addr + P[k]
           old == At("hand", hand.addr, hand.order)
           lower == At("hand", hand.addr, k)  upper == At("free", up, k)
<1>1. /\ hand.at = "split"
      /\ free' = [free EXCEPT ![k] = free[k] \cup {up}]
      /\ hand' = [at |-> "split", addr |-> hand.addr, order |-> k, want |-> hand.want]
      /\ order' = order
  BY DEF Alloc_Split
<1>2. /\ k \in Orders /\ k < MaxOrder /\ hand.order = k + 1 /\ hand.order \in Orders
      /\ hand.addr \in Bases /\ hand.addr \in Nat /\ up \in Nat /\ free \in [Orders -> SUBSET Bases]
  <2>1. hand.want \in Orders /\ hand.order \in Orders /\ hand.order > hand.want
        /\ hand.addr \in Bases /\ free \in [Orders -> SUBSET Bases]
    BY DEF Alloc_Split, BuddyInv, BuddyTypeOK
  <2>2. hand.want \in Nat /\ hand.order \in Nat BY <2>1, Constants
  <2>3. k \in Orders /\ k < MaxOrder /\ hand.order = k + 1
    <3>1. MinOrder \in Nat /\ MaxOrder \in Nat BY OrdersAssumption
    <3>2. MinOrder <= hand.want /\ hand.order <= MaxOrder BY <2>1, <3>1 DEF Orders
    <3>3. k \in Nat /\ k >= MinOrder /\ k < MaxOrder /\ hand.order = k + 1 BY <2>1, <2>2, <3>1, <3>2
    <3> QED BY <3>1, <3>3 DEF Orders
  <2>4. P[k] \in Nat /\ hand.addr \in Nat BY <2>1, <2>3, Constants
  <2> QED BY <2>1, <2>3, <2>4
<1>3. P[k] \in Nat \ {0} /\ P[hand.order] = 2 * P[k] BY <1>2, Constants
<1>4. up \in Bases
  <2>1. up \in free'[k] BY <1>1, <1>2
  <2>2. BuddyTypeOK' BY SplitInv DEF BuddyInv
  <2> QED BY <1>2, <2>1, <2>2 DEF BuddyTypeOK, Orders, Bases, Pool
<1>5. lower \in AllBlocks' /\ upper \in AllBlocks'
  BY <1>1, <1>2, <1>4 DEF AllBlocks, Marked, At, Bases, Orders, Pool
<1>6. AllBlocks \ {old} \subseteq AllBlocks'
  <2> SUFFICES ASSUME NEW x \in AllBlocks \ {old} PROVE x \in AllBlocks' OBVIOUS
  <2>1. x \in Marked BY DEF AllBlocks
  <2>2. ~ (x[1] = "hand" /\ x[2] = hand.addr /\ x[3] = hand.order) BY <2>1 DEF At, Marked
  <2>3. x[1] = "free" /\ x[2] \in free[x[3]] => x[2] \in free'[x[3]] BY <1>1, <1>2, <2>1 DEF Marked
  <2> QED BY <1>1, <2>1, <2>2, <2>3 DEF AllBlocks, Marked, Bases, Orders, Pool
<1>7. \A x \in AllBlocks, c \in Nat : Covers(x, c) => \E y \in AllBlocks' : Covers(y, c)
  <2> SUFFICES ASSUME NEW x \in AllBlocks, NEW c \in Nat, Covers(x, c)
               PROVE \E y \in AllBlocks' : Covers(y, c)
    OBVIOUS
  <2>1. CASE x # old BY <2>1, <1>6
  <2>2. CASE x = old
    <3>1. hand.addr <= c /\ c < hand.addr + P[hand.order] BY <2>2 DEF Covers, At
    <3>2. Covers(lower, c) \/ Covers(upper, c) BY <3>1, <1>2, <1>3 DEF Covers, At
    <3> HIDE DEF lower, upper
    <3> QED BY <3>2, <1>5
  <2> QED BY <2>1, <2>2
<1>8. Covered(AllBlocks') BY <1>7, CoveredStays DEF RoomInv
<1>9. NoPartnersFree(free')
  <2>1. hand.addr % P[hand.order] = 0 /\ hand.addr % (2 * P[k]) = 0 BY <1>1, <1>3, HandIsApart
  <2>2. hand.addr % P[k] = 0 /\ up % P[k] = 0
    <3>1. P[hand.order] \in Nat \ {0} BY <1>2, Constants
    <3>2. P[k] \in Nat \ {0} /\ P[hand.order] = 2 * P[k] /\ hand.addr \in Int
      <4>1. k \in Orders /\ k < MaxOrder /\ hand.order = k + 1 /\ hand.addr \in Nat
        BY <1>2
      <4> HIDE DEF k
      <4>2. P[k] \in Nat \ {0} /\ P[k + 1] = 2 * P[k] BY <4>1, Constants
      <4> QED BY <4>1, <4>2
    <3>3. hand.addr % P[k] = 0 /\ (hand.addr + P[k]) % P[k] = 0
      BY <2>1, <3>1, <3>2, HalfOfMultiple
    <3> QED BY <3>3
  <2>3. PartnerOf(hand.addr, k) = up BY <2>1 DEF PartnerOf
  <2>4. PartnerOf(up, k) = hand.addr BY <1>2, <2>2, <2>3, PartnerIsOne
  <2>5. hand.addr \notin free[k] BY <1>1, <1>2, HandIsApart
  <2>6. \A a \in free[k] : a % P[k] = 0 BY <1>2, FreeIsAligned
  <2> HIDE DEF k, up
  <2> QED BY <1>1, <1>2, <1>4, <2>2, <2>4, <2>5, <2>6, PartnersStayApart DEF RoomInv
<1> QED BY <1>8, <1>9 DEF RoomInv, Covered, NoPartnersFree, Covers, Pool, PartnerOf, Orders

LEMMA ReturnRoom == ASSUME BuddyInv, RoomInv, Alloc_Return PROVE RoomInv'
<1> DEFINE old == At("hand", hand.addr, hand.order)  new == At("live", hand.addr, hand.order)
<1>1. /\ hand.at = "split" /\ hand.addr \in Bases /\ hand.order \in Orders
      /\ order' = [order EXCEPT ![hand.addr] = hand.order]
      /\ hand' = NoHand /\ free' = free /\ order \in [Bases -> Orders \cup {0}]
  BY DEF Alloc_Return, BuddyInv, BuddyTypeOK
<1>2. new \in AllBlocks' BY <1>1 DEF AllBlocks, Marked, At, Bases, Orders, Pool
<1>3. order[hand.addr] = 0 BY <1>1, HandIsApart
<1>4. AllBlocks \ {old} \subseteq AllBlocks'
  <2> SUFFICES ASSUME NEW x \in AllBlocks \ {old} PROVE x \in AllBlocks' OBVIOUS
  <2>1. x \in Marked BY DEF AllBlocks
  <2>2. ~ (x[1] = "hand" /\ x[2] = hand.addr /\ x[3] = hand.order) BY <2>1 DEF At, Marked
  <2>3. x[1] = "live" /\ order[x[2]] = x[3] => order'[x[2]] = x[3]
    BY <1>1, <1>3, <2>1, Constants DEF Marked
  <2> QED BY <1>1, <2>1, <2>2, <2>3 DEF AllBlocks, Marked, Bases, Orders, Pool
<1>5. \A x \in AllBlocks, c \in Nat : Covers(x, c) => \E y \in AllBlocks' : Covers(y, c)
  BY <1>2, <1>4 DEF Covers, At
<1>6. Covered(AllBlocks') BY <1>5, CoveredStays DEF RoomInv
<1> QED BY <1>1, <1>6 DEF RoomInv, Covered, NoPartnersFree, Covers, Pool, PartnerOf, Orders

LEMMA TakeRoom == ASSUME BuddyInv, RoomInv, NEW p, Free_Take(p) PROVE RoomInv'
<1> DEFINE old == At("live", p, order[p])  new == At("hand", p, order[p])
<1>1. /\ hand.at = "none" /\ p \in Bases /\ order[p] \in Orders
      /\ order' = [order EXCEPT ![p] = 0] /\ free' = free /\ order \in [Bases -> Orders \cup {0}]
      /\ hand' = [at |-> "merge", addr |-> p, order |-> order[p], want |-> MinOrder]
  BY DEF Free_Take, IsLive, BuddyInv, BuddyTypeOK
<1>2. new \in AllBlocks' BY <1>1 DEF AllBlocks, Marked, At, Bases, Orders, Pool
<1>3. AllBlocks \ {old} \subseteq AllBlocks'
  <2> SUFFICES ASSUME NEW x \in AllBlocks \ {old} PROVE x \in AllBlocks' OBVIOUS
  <2>1. x \in Marked BY DEF AllBlocks
  <2>2. ~ (x[1] = "live" /\ x[2] = p /\ x[3] = order[p]) BY <2>1 DEF At, Marked
  <2>3. x[1] = "live" /\ order[x[2]] = x[3] => order'[x[2]] = x[3] BY <1>1, <2>1, <2>2 DEF Marked
  <2> QED BY <1>1, <2>1, <2>3 DEF AllBlocks, Marked, Bases, Orders, Pool
<1>4. \A x \in AllBlocks, c \in Nat : Covers(x, c) => \E y \in AllBlocks' : Covers(y, c)
  BY <1>2, <1>3 DEF Covers, At
<1>5. Covered(AllBlocks') BY <1>4, CoveredStays DEF RoomInv
<1> QED BY <1>1, <1>5 DEF RoomInv, Covered, NoPartnersFree, Covers, Pool, PartnerOf, Orders

LEMMA MergeRoom == ASSUME BuddyInv, RoomInv, Free_Merge PROVE RoomInv'
<1> DEFINE k == hand.order  b == PartnerOf(hand.addr, k)
           lo == IF b < hand.addr THEN b ELSE hand.addr
           old == At("hand", hand.addr, k)  partner == At("free", b, k)
           new == At("hand", lo, k + 1)
<1>1. /\ hand.at = "merge" /\ k \in Orders /\ k < MaxOrder
      /\ hand.addr \in Bases /\ b \in free[k] /\ free \in [Orders -> SUBSET Bases]
      /\ free' = [free EXCEPT ![k] = free[k] \ {b}]
      /\ hand' = [at |-> "merge", addr |-> lo, order |-> k + 1, want |-> MinOrder]
      /\ order' = order
  BY DEF Free_Merge, PartnerIsFree, BuddyInv, BuddyTypeOK
<1>2. /\ k + 1 \in Orders /\ b \in Bases /\ lo \in Bases /\ hand.addr \in Nat /\ b \in Nat
      /\ P[k] \in Nat \ {0} /\ P[k + 1] = 2 * P[k]
  BY <1>1, Constants
<1>3. b = hand.addr + P[k] \/ hand.addr = b + P[k]
  BY <1>1, <1>2, HandIsApart, PartnerIsOne
<1> HIDE DEF b, k, lo
<1>4. new \in AllBlocks' BY <1>1, <1>2 DEF AllBlocks, Marked, At, Bases, Orders, Pool
<1>5. AllBlocks \ {old, partner} \subseteq AllBlocks'
  <2> SUFFICES ASSUME NEW x \in AllBlocks \ {old, partner} PROVE x \in AllBlocks' OBVIOUS
  <2>1. x \in Marked BY DEF AllBlocks
  <2>2. ~ (x[1] = "hand" /\ x[2] = hand.addr /\ x[3] = hand.order) BY <2>1 DEF At, Marked, k
  <2>3. x[1] = "free" /\ x[2] \in free[x[3]] => x[2] \in free'[x[3]]
    BY <1>1, <2>1 DEF At, Marked
  <2> QED BY <1>1, <2>1, <2>2, <2>3 DEF AllBlocks, Marked, Bases, Orders, Pool
<1>6. \A x \in AllBlocks, c \in Nat : Covers(x, c) => \E y \in AllBlocks' : Covers(y, c)
  <2> SUFFICES ASSUME NEW x \in AllBlocks, NEW c \in Nat, Covers(x, c)
               PROVE \E y \in AllBlocks' : Covers(y, c)
    OBVIOUS
  <2>1. CASE x \notin {old, partner} BY <2>1, <1>5
  <2>2. CASE x \in {old, partner}
    <3>1. \/ hand.addr <= c /\ c < hand.addr + P[k]
          \/ b <= c /\ c < b + P[k]
      BY <2>2 DEF Covers, At
    <3>2. Covers(new, c) BY <3>1, <1>2, <1>3 DEF Covers, At, lo
    <3> HIDE DEF new
    <3> QED BY <3>2, <1>4
  <2> QED BY <2>1, <2>2
<1>7. Covered(AllBlocks') BY <1>6, CoveredStays DEF RoomInv
<1>8. NoPartnersFree(free') BY <1>1 DEF RoomInv, NoPartnersFree
<1> QED BY <1>7, <1>8 DEF RoomInv, Covered, NoPartnersFree, Covers, Pool, PartnerOf, Orders

LEMMA PushRoom == ASSUME BuddyInv, RoomInv, Free_Push PROVE RoomInv'
<1> DEFINE old == At("hand", hand.addr, hand.order)  new == At("free", hand.addr, hand.order)
<1>1. /\ hand.at = "merge" /\ hand.addr \in Bases /\ hand.order \in Orders
      /\ free' = [free EXCEPT ![hand.order] = free[hand.order] \cup {hand.addr}]
      /\ hand' = NoHand /\ order' = order /\ free \in [Orders -> SUBSET Bases]
      /\ hand.order < MaxOrder => PartnerOf(hand.addr, hand.order) \notin free[hand.order]
  BY DEF Free_Push, PartnerIsFree, BuddyInv, BuddyTypeOK
<1>2. new \in AllBlocks' BY <1>1 DEF AllBlocks, Marked, At, Bases, Orders, Pool
<1>3. AllBlocks \ {old} \subseteq AllBlocks'
  <2> SUFFICES ASSUME NEW x \in AllBlocks \ {old} PROVE x \in AllBlocks' OBVIOUS
  <2>1. x \in Marked BY DEF AllBlocks
  <2>2. ~ (x[1] = "hand" /\ x[2] = hand.addr /\ x[3] = hand.order) BY <2>1 DEF At, Marked
  <2>3. x[1] = "free" /\ x[2] \in free[x[3]] => x[2] \in free'[x[3]] BY <1>1, <2>1 DEF Marked
  <2> QED BY <1>1, <2>1, <2>2, <2>3 DEF AllBlocks, Marked, Bases, Orders, Pool
<1>4. \A x \in AllBlocks, c \in Nat : Covers(x, c) => \E y \in AllBlocks' : Covers(y, c)
  BY <1>2, <1>3 DEF Covers, At
<1>5. Covered(AllBlocks') BY <1>4, CoveredStays DEF RoomInv
<1>6. NoPartnersFree(free')
  <2>1. hand.addr % P[hand.order] = 0 BY <1>1, HandIsApart
  <2>2. \A a \in free[hand.order] : a % P[hand.order] = 0 BY <1>1, FreeIsAligned
  <2> QED BY <1>1, <2>1, <2>2, PartnersStayApart DEF RoomInv
<1> QED BY <1>5, <1>6 DEF RoomInv, Covered, NoPartnersFree, Covers, Pool, PartnerOf, Orders

LEMMA StutterRoom == ASSUME RoomInv, UNCHANGED buddyVars PROVE RoomInv'
BY DEF RoomInv, buddyVars, Covered, Covers, NoPartnersFree, PartnerOf, AllBlocks, Marked,
       Bases, Orders, Pool

LEMMA NextRoom == BuddyInv /\ RoomInv /\ [BuddyNext]_buddyVars => RoomInv'
BY PopRoom, SplitRoom, ReturnRoom, TakeRoom, MergeRoom, PushRoom, StutterRoom DEF BuddyNext

(* A request is refused for lack of room and never for rubble: when no list *)
(* from order k up has a block, every aligned range of that size meets a    *)
(* block that is handed out, whatever was allocated and freed before.       *)
THEOREM NoRoomIsEverHidden == BuddySpec => []NoHiddenRoom
<1>1. BuddyInv /\ RoomInv => NoHiddenRoom BY RoomIsSeen DEF RoomInv
<1>2. BuddyInit => RoomInv BY InitRoom
<1> QED BY <1>1, <1>2, NextRoom, InvIsInvariant, PTL DEF BuddySpec

-----------------------------------------------------------------------------
(* The arena: who owns which live block, whatever the job under way.        *)

Calls == [op : {"alloc", "free", "stray"}, arg : Int]

\* The table of the modules' blocks: put away while the self-test runs.
Table == IF caller.job = "test" THEN saved.order ELSE order

\* The slots that own what they hold: one that is being released does not.
Owners == IF caller.job = "release" THEN Slots \ {caller.slot} ELSE Slots

\* The positions of got that the job owns: acquired, or not yet given back.
Owns ==
  IF caller.job = "acquire" THEN 1 .. Len(caller.got)
  ELSE IF caller.job \in {"undo", "release"}
  THEN {i \in 1 .. 3 : i > 3 - Len(caller.plan) + (IF hand.at = "merge" THEN 1 ELSE 0)}
  ELSE {}

Acquiring ==
  /\ caller.slot \in Slots
  /\ held[caller.slot] = Nothing
  /\ caller.plan \in Seq(Calls)
  /\ caller.got \in Seq(Bases \cup {Null})
  /\ Len(caller.plan) + Len(caller.got) = 3
  /\ \A i \in 1 .. Len(caller.plan) : caller.plan[i].op = "alloc"
  /\ hand.at = "split" => Len(caller.plan) > 0

Freeing ==
  /\ caller.slot \in Slots
  /\ caller.plan \in Seq(Calls)
  /\ caller.got \in [1 .. 3 -> Bases \cup {Null}]
  /\ Len(caller.plan) <= 3
  /\ \A i \in 1 .. Len(caller.plan) : caller.plan[i] = Call("free", i + 3 - Len(caller.plan))
  /\ hand.at = "merge" => Len(caller.plan) > 0

JobShape ==
  /\ held \in [Slots -> {Nothing} \cup [1 .. 3 -> Bases]]
  /\ caller = [job |-> caller.job, slot |-> caller.slot, shape |-> caller.shape,
               plan |-> caller.plan, got |-> caller.got]
  /\ caller.job \in {"idle", "acquire", "undo", "release", "test", "corrupt"}
  /\ caller.job \in {"idle", "corrupt"} => caller.plan = <<>> /\ hand.at = "none"
  /\ caller.job = "acquire" => Acquiring
  /\ caller.job \in {"undo", "release"} => Freeing
  /\ caller.job = "release" => held[caller.slot] = caller.got /\ caller.got \in [1 .. 3 -> Bases]
  /\ hand.at = "split" => caller.job \in {"acquire", "test"}
  /\ hand.at = "merge" => caller.job \in {"undo", "release", "test"}
  /\ hand.at = "none" => hand = NoHand

OwnedIsLive ==
  /\ \A s \in Owners : held[s] # Nothing => \A i \in 1 .. 3 : Table[held[s][i]] # 0
  /\ \A i \in Owns : caller.got[i] # Null => Table[caller.got[i]] # 0

LiveIsOwned ==
  \A a \in Bases : Table[a] # 0 =>
    \/ \E s \in Owners : held[s] # Nothing /\ \E i \in 1 .. 3 : held[s][i] = a
    \/ \E i \in Owns : caller.got[i] = a

OwnedOnce ==
  /\ \A s, t \in Owners : held[s] # Nothing /\ held[t] # Nothing =>
       \A i, j \in 1 .. 3 : held[s][i] = held[t][j] => s = t /\ i = j
  /\ \A i, j \in Owns : caller.got[i] # Null /\ caller.got[i] = caller.got[j] => i = j
  /\ \A s \in Owners : held[s] # Nothing =>
       \A i \in 1 .. 3, j \in Owns : held[s][i] # caller.got[j]

OwnersAgree == OwnedIsLive /\ LiveIsOwned /\ OwnedOnce

\* The blocks of a pool in which no call is under way.
BlocksIn(f, o) ==
  {x \in Marked : \/ x[1] = "free" /\ x[2] \in f[x[3]]
                  \/ x[1] = "live" /\ o[x[2]] = x[3]}

Kept(f, o) ==
  /\ f \in [Orders -> SUBSET Bases]
  /\ o \in [Bases -> Orders \cup {0}]
  /\ Sound(BlocksIn(f, o))
  /\ Covered(BlocksIn(f, o))
  /\ NoPartnersFree(f)

SavedIsKept == caller.job = "test" => Kept(saved.free, saved.order)

QuietUnlessTested ==
  /\ caller.job \notin {"test", "corrupt"} => disturbed = {}
  /\ caller.job = "test" /\ saved.free = FreshFree => disturbed = {}

ArenaInv == BuddyInv /\ RoomInv /\ JobShape /\ OwnersAgree /\ SavedIsKept /\ QuietUnlessTested

LEMMA NullIsNoBase == Null \notin Bases
BY Constants DEF Null

LEMMA ZeroIsABase == 0 \in Bases
<1>1. (P[MinOrder] * 0) % P[MinOrder] = 0 BY Constants, MultipleMod
<1> QED BY <1>1, Constants DEF Bases

LEMMA BlocksAtRest == hand.at = "none" => AllBlocks = BlocksIn(free, order)
BY DEF AllBlocks, BlocksIn

LEMMA AtRestIsKept ==
  BuddyInv /\ RoomInv /\ hand.at = "none" => Kept(free, order)
BY BlocksAtRest DEF BuddyInv, RoomInv, BuddyTypeOK, Kept

LEMMA KeptIsSound == hand = NoHand /\ Kept(free, order) => BuddyInv /\ RoomInv
<1> SUFFICES ASSUME hand = NoHand, Kept(free, order) PROVE BuddyInv /\ RoomInv OBVIOUS
<1>1. AllBlocks = BlocksIn(free, order) BY BlocksAtRest DEF NoHand
<1>2. BuddyTypeOK BY ZeroIsABase, Constants DEF Kept, BuddyTypeOK, NoHand
<1>3. HandInOrder BY DEF HandInOrder, NoHand
<1> QED BY <1>1, <1>2, <1>3 DEF Kept, BuddyInv, RoomInv

\* A pool with everything on the largest list has handed nothing out.
LEMMA FreshMeansNothingLive ==
  ASSUME NEW f, NEW o, Kept(f, o), f = FreshFree
  PROVE  \A a \in Bases : o[a] = 0
<1> SUFFICES ASSUME NEW a \in Bases, o[a] # 0 PROVE FALSE OBVIOUS
<1>1. o[a] \in Orders BY DEF Kept
<1> DEFINE x == At("live", a, o[a])  y == At("free", 0, MaxOrder)
<1>2. x \in BlocksIn(f, o) BY <1>1 DEF BlocksIn, Marked, At
<1>3. y \in BlocksIn(f, o) BY ZeroIsABase, Constants DEF BlocksIn, Marked, At, FreshFree
<1>4. Disjoint(x, y)
  <2>1. x # y BY DEF At
  <2> HIDE DEF x, y
  <2> QED BY <1>2, <1>3, <2>1 DEF Kept, Sound
<1>5. a + P[o[a]] <= 0 \/ 0 + P[MaxOrder] <= a BY <1>4 DEF Disjoint, At
<1>6. /\ a \in Nat /\ a < P[MaxOrder]
      /\ P[o[a]] \in Nat \ {0} /\ P[MaxOrder] \in Nat
  <2>1. a \in 0 .. P[MaxOrder] - 1 BY DEF Bases, Pool
  <2>2. P[o[a]] \in Nat \ {0} /\ P[MaxOrder] \in Nat \ {0} BY <1>1, Constants
  <2> QED BY <2>1, <2>2
<1> QED BY <1>5, <1>6

LEMMA ArenaInit_Inv == ArenaInit => ArenaInv
<1> SUFFICES ASSUME ArenaInit PROVE ArenaInv OBVIOUS
<1>1. BuddyInv /\ RoomInv BY InitInv, InitRoom DEF ArenaInit
<1>2. JobShape BY DEF ArenaInit, BuddyInit, JobShape, Idle, Nothing, NoHand
<1>3. OwnersAgree
  BY DEF ArenaInit, BuddyInit, OwnersAgree, OwnedIsLive, LiveIsOwned, OwnedOnce, Owners, Owns,
         Table, Idle, FreshOrder
<1>4. SavedIsKept /\ QuietUnlessTested BY DEF ArenaInit, Idle, SavedIsKept, QuietUnlessTested
<1> QED BY <1>1, <1>2, <1>3, <1>4 DEF ArenaInv

-----------------------------------------------------------------------------
(* The callers' part of the state, one action after the other. *)

LEMMA TailOf ==
  ASSUME NEW S, NEW q \in Seq(S), Len(q) > 0
  PROVE  /\ Tail(q) \in Seq(S) /\ Len(Tail(q)) = Len(q) - 1
         /\ \A i \in 1 .. Len(Tail(q)) : i + 1 \in 1 .. Len(q) /\ Tail(q)[i] = q[i + 1]
         /\ q[1] = Head(q) /\ q # <<>> /\ Len(q) \in Nat
BY HeadTailProperties

LEMMA AppendOf ==
  ASSUME NEW S, NEW q \in Seq(S), NEW e \in S
  PROVE  /\ Append(q, e) \in Seq(S) /\ Len(Append(q, e)) = Len(q) + 1 /\ Len(q) \in Nat
         /\ \A i \in 1 .. Len(q) : Append(q, e)[i] = q[i]
         /\ Append(q, e)[Len(q) + 1] = e
BY AppendProperties

LEMMA SavedStays ==
  ASSUME SavedIsKept, saved' = saved, caller'.job = "test" => caller.job = "test"
  PROVE  SavedIsKept'
BY DEF SavedIsKept, Kept, Sound, Covered, Covers, Disjoint, NoPartnersFree, PartnerOf, BlocksIn,
       Marked, Bases, Orders, Pool

-----------------------------------------------------------------------------
(* The shape of a job. *)

LEMMA Record ==
  ASSUME JobShape
  PROVE  /\ \A p : Returns(p) => caller' = [job |-> caller.job, slot |-> caller.slot,
                     shape |-> caller.shape, plan |-> Tail(caller.plan), got |-> Append(caller.got, p)]
         /\ ReturnsVoid => caller' = [job |-> caller.job, slot |-> caller.slot,
                     shape |-> caller.shape, plan |-> Tail(caller.plan), got |-> caller.got]
<1> PICK j, s, sh, p, g : caller = [job |-> j, slot |-> s, shape |-> sh, plan |-> p, got |-> g]
  BY DEF JobShape
<1> QED BY DEF Returns, ReturnsVoid

LEMMA AcquireBeginsShape ==
  ASSUME JobShape, NEW s \in Slots, NEW sh \in Shapes, Acquire_Begins(s, sh)
  PROVE  JobShape'
<1>1. /\ caller.job = "idle" /\ held[s] = Nothing
      /\ caller' = [job |-> "acquire", slot |-> s, shape |-> sh, got |-> <<>>,
                    plan |-> <<Call("alloc", sh.text), Call("alloc", sh.data),
                               Call("alloc", HeapStack)>>]
      /\ hand' = hand /\ held' = held
  BY DEF Acquire_Begins, buddyVars
<1>2. hand.at = "none" BY <1>1 DEF JobShape
<1> DEFINE c1 == Call("alloc", sh.text)  c2 == Call("alloc", sh.data)
           c3 == Call("alloc", HeapStack)
<1>3. c1 \in Calls /\ c2 \in Calls /\ c3 \in Calls
      /\ c1.op = "alloc" /\ c2.op = "alloc" /\ c3.op = "alloc"
  BY ArenaAssumption, Constants DEF Call, Calls
<1> HIDE DEF c1, c2, c3
<1>4. <<c1, c2, c3>> \in Seq(Calls) /\ Len(<<c1, c2, c3>>) = 3
      /\ \A i \in 1 .. 3 : <<c1, c2, c3>>[i].op = "alloc"
  BY <1>3
<1>5. caller'.plan = <<c1, c2, c3>> /\ caller'.got = <<>> BY <1>1 DEF c1, c2, c3
<1>6. <<>> \in Seq(Bases' \cup {Null}) /\ Len(<<>>) = 0 OBVIOUS
<1>7. Acquiring' BY <1>1, <1>2, <1>4, <1>5, <1>6 DEF Acquiring
<1> QED BY <1>1, <1>2, <1>7 DEF JobShape

LEMMA ReleaseBeginsShape ==
  ASSUME JobShape, NEW s \in Slots, Release_Begins(s)
  PROVE  JobShape'
<1>1. /\ caller.job = "idle" /\ held[s] # Nothing
      /\ caller' = [job |-> "release", slot |-> s, shape |-> [text |-> 0, data |-> 0],
                    plan |-> FreeAll, got |-> held[s]]
      /\ hand' = hand /\ held' = held
  BY DEF Release_Begins, buddyVars, Idle
<1>2. hand.at = "none" /\ held[s] \in [1 .. 3 -> Bases] BY <1>1 DEF JobShape
<1> DEFINE c1 == Call("free", 1)  c2 == Call("free", 2)  c3 == Call("free", 3)
<1>3. c1 \in Calls /\ c2 \in Calls /\ c3 \in Calls BY DEF Call, Calls
<1>4. /\ FreeAll \in Seq(Calls) /\ Len(FreeAll) = 3
      /\ \A i \in 1 .. 3 : FreeAll[i] = Call("free", i)
  BY <1>3 DEF FreeAll
<1>5. Freeing'
  <2>1. \A i \in 1 .. 3 : i + 3 - 3 = i OBVIOUS
  <2>2. Bases' = Bases BY DEF Bases, Pool
  <2>3. held[s] \in [1 .. 3 -> Bases \cup {Null}] BY <1>2
  <2>4. /\ caller'.slot = s /\ caller'.plan = FreeAll /\ caller'.got = held[s]
        /\ hand'.at # "merge"
    BY <1>1, <1>2
  <2>5. \A i \in 1 .. Len(FreeAll) : FreeAll[i] = Call("free", i + 3 - Len(FreeAll)) BY <1>4, <2>1
  <2>6. Len(FreeAll) <= 3 BY <1>4
  <2>7. caller'.got \in [1 .. 3 -> Bases' \cup {Null}] BY <2>2, <2>3, <2>4
  <2>8. caller'.plan \in Seq(Calls) /\ Len(caller'.plan) <= 3 BY <1>4, <2>4, <2>6
  <2>9. \A i \in 1 .. Len(caller'.plan) : caller'.plan[i] = Call("free", i + 3 - Len(caller'.plan))
    BY <2>4, <2>5
  <2> QED BY <2>4, <2>7, <2>8, <2>9 DEF Freeing
<1> QED BY <1>1, <1>2, <1>5 DEF JobShape, Bases, Pool

LEMMA TestBeginsShape ==
  ASSUME JobShape, Test_Begins
  PROVE  JobShape'
<1>1. /\ caller.job = "idle" /\ hand' = hand /\ held' = held
      /\ caller' = [job |-> "test", slot |-> NoSlot, shape |-> [text |-> 0, data |-> 0],
                    plan |-> Script, got |-> <<>>]
  BY DEF Test_Begins, Idle
<1>2. hand.at = "none" BY <1>1 DEF JobShape
<1> QED BY <1>1, <1>2 DEF JobShape, Bases, Pool

\* Which jobs make which calls.
LEMMA WhoCalls ==
  ASSUME JobShape
  PROVE  /\ Next_Is("alloc") => caller.job \in {"acquire", "test"}
         /\ Next_Is("free") \/ Next_Is("stray") => caller.job \in {"undo", "release", "test"}
         /\ caller.job \in {"undo", "release"} => ~ Next_Is("stray")
<1>1. caller.job \in {"idle", "corrupt"} => caller.plan = <<>> BY DEF JobShape
<1>2. ASSUME caller.job = "acquire", caller.plan # <<>>
      PROVE  Head(caller.plan).op = "alloc"
  <2>1. caller.plan \in Seq(Calls) /\ \A i \in 1 .. Len(caller.plan) : caller.plan[i].op = "alloc"
    BY <1>2 DEF JobShape, Acquiring
  <2>2. Len(caller.plan) \in Nat \ {0} /\ caller.plan[1] = Head(caller.plan)
    BY <2>1, <1>2, EmptySeq, TailOf
  <2> QED BY <2>1, <2>2
<1>3. ASSUME caller.job \in {"undo", "release"}, caller.plan # <<>>
      PROVE  Head(caller.plan).op = "free"
  <2>1. caller.plan \in Seq(Calls)
        /\ \A i \in 1 .. Len(caller.plan) : caller.plan[i] = Call("free", i + 3 - Len(caller.plan))
    BY <1>3 DEF JobShape, Freeing
  <2>2. Len(caller.plan) \in Nat \ {0} /\ caller.plan[1] = Head(caller.plan)
    BY <2>1, <1>3, EmptySeq, TailOf
  <2> DEFINE n == Len(caller.plan)
  <2>3. 1 \in 1 .. n BY <2>2
  <2>4. caller.plan[1] = Call("free", 1 + 3 - n) BY <2>1, <2>3
  <2> QED BY <2>2, <2>4 DEF Call
<1>4. caller.job \in {"idle", "acquire", "undo", "release", "test", "corrupt"} BY DEF JobShape
<1> QED BY <1>1, <1>2, <1>3, <1>4 DEF Next_Is

\* The call of an acquisition returns p.
LEMMA ReturnsKeepsAcquiring ==
  ASSUME JobShape, caller.job = "acquire", Len(caller.plan) > 0, NEW p \in Bases \cup {Null},
         Returns(p), hand' = NoHand, held' = held
  PROVE  JobShape'
<1> DEFINE rest == Tail(caller.plan)  more == Append(caller.got, p)
<1>1. caller' = [job |-> caller.job, slot |-> caller.slot, shape |-> caller.shape,
                 plan |-> rest, got |-> more]
  BY Record
<1>2. Acquiring BY DEF JobShape
<1>3. /\ rest \in Seq(Calls) /\ Len(rest) = Len(caller.plan) - 1 /\ Len(caller.plan) \in Nat
      /\ \A i \in 1 .. Len(rest) : i + 1 \in 1 .. Len(caller.plan) /\ rest[i] = caller.plan[i + 1]
  BY <1>2, TailOf DEF Acquiring
<1>4. /\ more \in Seq(Bases \cup {Null})
      /\ Len(more) = Len(caller.got) + 1 /\ Len(caller.got) \in Nat
  BY <1>2, AppendOf DEF Acquiring
<1> HIDE DEF rest, more
<1>5. Acquiring'
  <2>0. Len(caller.plan) + Len(caller.got) = 3 BY <1>2 DEF Acquiring
  <2>1. Len(rest) + Len(more) = 3
    <3>1. PICK n \in Nat, m \in Nat : n = Len(caller.plan) /\ m = Len(caller.got) BY <1>3, <1>4
    <3>2. n + m = 3 BY <2>0, <3>1
    <3>3. Len(rest) = n - 1 BY <1>3, <3>1
    <3>4. Len(more) = m + 1 BY <1>4, <3>1
    <3> QED BY <3>2, <3>3, <3>4
  <2>2. Bases' = Bases BY DEF Bases, Pool
  <2>3. hand'.at # "split" BY DEF NoHand
  <2>4. \A i \in 1 .. Len(rest) : rest[i].op = "alloc" BY <1>2, <1>3 DEF Acquiring
  <2> QED BY <1>1, <1>2, <1>3, <1>4, <2>1, <2>2, <2>3, <2>4 DEF Acquiring
<1> QED BY <1>1, <1>5 DEF JobShape, NoHand, Bases, Pool

LEMMA ReturnsKeepsFreeing ==
  ASSUME JobShape, caller.job \in {"undo", "release"}, Len(caller.plan) > 0,
         ReturnsVoid, hand' = NoHand, held' = held
  PROVE  JobShape'
<1> DEFINE rest == Tail(caller.plan)
<1>1. caller' = [job |-> caller.job, slot |-> caller.slot, shape |-> caller.shape,
                 plan |-> rest, got |-> caller.got]
  BY Record
<1>2. Freeing BY DEF JobShape
<1>3. /\ rest \in Seq(Calls) /\ Len(rest) = Len(caller.plan) - 1 /\ Len(caller.plan) \in Nat
      /\ \A i \in 1 .. Len(rest) : i + 1 \in 1 .. Len(caller.plan) /\ rest[i] = caller.plan[i + 1]
  BY <1>2, TailOf DEF Freeing
<1> HIDE DEF rest
<1>4. \A i \in 1 .. Len(rest) : rest[i] = Call("free", i + 3 - Len(rest))
  <2> SUFFICES ASSUME NEW i \in 1 .. Len(rest) PROVE rest[i] = Call("free", i + 3 - Len(rest))
    OBVIOUS
  <2>1. rest[i] = Call("free", (i + 1) + 3 - Len(caller.plan)) BY <1>2, <1>3 DEF Freeing
  <2>2. (i + 1) + 3 - Len(caller.plan) = i + 3 - Len(rest) BY <1>3
  <2> QED BY <2>1, <2>2
<1>5. Freeing'
  <2>1. Len(rest) <= 3 BY <1>2, <1>3 DEF Freeing
  <2>2. Bases' = Bases BY DEF Bases, Pool
  <2>3. hand'.at # "merge" BY DEF NoHand
  <2> QED BY <1>1, <1>2, <1>3, <1>4, <2>1, <2>2, <2>3 DEF Freeing
<1> QED BY <1>1, <1>5 DEF JobShape, NoHand, Bases, Pool

\* A call of the self-test.
LEMMA TestKeepsShape ==
  ASSUME JobShape, caller.job = "test", caller'.job = "test", held' = held,
         caller' = caller \/ ReturnsVoid \/ \E p : Returns(p),
         hand'.at = "none" => hand' = NoHand
  PROVE  JobShape'
<1>1. caller' = [job |-> caller'.job, slot |-> caller'.slot, shape |-> caller'.shape,
                 plan |-> caller'.plan, got |-> caller'.got]
  BY Record DEF JobShape
<1> QED BY <1>1 DEF JobShape, Bases, Pool

LEMMA HandMovesShape ==
  ASSUME JobShape, caller' = caller, held' = held,
         \/ hand'.at = "split" /\ caller.job \in {"acquire", "test"}
         \/ hand'.at = "merge" /\ caller.job \in {"undo", "release", "test"},
         caller.job # "test" => Len(caller.plan) > 0
  PROVE  JobShape'
<1>1. caller.job = "acquire" => Acquiring' BY DEF JobShape, Acquiring, Bases, Pool
<1>2. caller.job \in {"undo", "release"} => Freeing' BY DEF JobShape, Freeing, Bases, Pool
<1> QED BY <1>1, <1>2 DEF JobShape, Bases, Pool

LEMMA NoSplitWithoutACall ==
  ASSUME BuddyInv, JobShape, caller.job # "test", hand.at # "none" \/ \E op : Next_Is(op)
  PROVE  Len(caller.plan) > 0
<1>1. CASE \E op : Next_Is(op)
  <2>1. caller.plan # <<>> BY <1>1 DEF Next_Is
  <2>2. caller.plan \in Seq(Calls) BY <2>1 DEF JobShape, Acquiring, Freeing
  <2>3. Len(caller.plan) \in Nat \ {0} BY <2>1, <2>2, EmptySeq
  <2> QED BY <2>3
<1>2. CASE hand.at # "none"
  <2>1. hand.at \in {"split", "merge"} BY <1>2 DEF BuddyInv, BuddyTypeOK
  <2> QED BY <2>1 DEF JobShape, Acquiring, Freeing
<1> QED BY <1>1, <1>2

LEMMA AcquireEndsShape == ASSUME JobShape, Acquire_Ends PROVE JobShape'
<1>1. /\ caller.job = "acquire" /\ caller.plan = <<>> /\ hand.at = "none" /\ hand' = hand
      /\ Acquiring
  BY DEF Acquire_Ends, Finished, buddyVars, JobShape
<1>2. caller.got \in [1 .. 3 -> Bases \cup {Null}]
  <2>1. Len(caller.plan) = 0 BY <1>1
  <2>2. caller.got \in Seq(Bases \cup {Null}) /\ Len(caller.plan) + Len(caller.got) = 3
    BY <1>1 DEF Acquiring
  <2>3. Len(caller.got) \in Nat BY <2>2, LenProperties
  <2>4. Len(caller.got) = 3 BY <2>1, <2>2, <2>3
  <2> QED BY <2>2, <2>4, LenProperties
<1>3. Bases' = Bases BY DEF Bases, Pool
<1>4. CASE \E i \in 1 .. 3 : caller.got[i] = Null
  <2>1. /\ held' = held
        /\ caller' = [job |-> "undo", slot |-> caller.slot, shape |-> caller.shape,
                      plan |-> FreeAll, got |-> caller.got]
    <3>1. PICK j, s, sh, p, g : caller = [job |-> j, slot |-> s, shape |-> sh, plan |-> p, got |-> g]
      BY DEF JobShape
    <3>2. held' = held /\ caller' = [caller EXCEPT !.job = "undo", !.plan = FreeAll]
      BY <1>4 DEF Acquire_Ends
    <3> QED BY <3>1, <3>2
  <2>2. /\ Call("free", 1) \in Calls /\ Call("free", 2) \in Calls /\ Call("free", 3) \in Calls
    BY DEF Call, Calls
  <2>3. /\ FreeAll \in Seq(Calls) /\ Len(FreeAll) = 3
        /\ \A i \in 1 .. 3 : FreeAll[i] = Call("free", i)
    BY <2>2 DEF FreeAll
  <2>4. \A i \in 1 .. 3 : i + 3 - 3 = i OBVIOUS
  <2>5. \A i \in 1 .. Len(FreeAll) : FreeAll[i] = Call("free", i + 3 - Len(FreeAll))
    BY <2>3, <2>4
  <2>6. caller'.plan = FreeAll /\ caller'.got = caller.got /\ caller'.slot = caller.slot BY <2>1
  <2>7. caller.slot \in Slots BY <1>1 DEF Acquiring
  <2>8. \A i \in 1 .. Len(caller'.plan) : caller'.plan[i] = Call("free", i + 3 - Len(caller'.plan))
    BY <2>5, <2>6
  <2>9. /\ caller'.plan \in Seq(Calls) /\ Len(caller'.plan) <= 3
        /\ hand'.at # "merge"
    <3>1. hand'.at # "merge" BY <1>1
    <3>2. FreeAll \in Seq(Calls) /\ Len(FreeAll) <= 3 BY <2>3
    <3> QED BY <3>1, <3>2, <2>6
  <2>10. Freeing' BY <1>2, <1>3, <2>6, <2>7, <2>8, <2>9 DEF Freeing
  <2> QED BY <1>1, <2>1, <2>10 DEF JobShape, Bases, Pool
<1>5. CASE ~ \E i \in 1 .. 3 : caller.got[i] = Null
  <2>1. held' = [held EXCEPT ![caller.slot] = caller.got] /\ caller' = Idle
    BY <1>5 DEF Acquire_Ends
  <2>2. caller.got \in [1 .. 3 -> Bases] BY <1>2, <1>5
  <2> QED BY <1>1, <1>3, <2>1, <2>2 DEF JobShape, Idle
<1> QED BY <1>4, <1>5

LEMMA OtherEndsShape ==
  ASSUME JobShape, Undo_Ends \/ Release_Ends \/ Test_Ends PROVE JobShape'
<1>1. hand.at = "none" /\ hand' = hand
  BY DEF Undo_Ends, Release_Ends, Test_Ends, Finished, buddyVars
<1>2. caller' = Idle \/ caller' = [Idle EXCEPT !.job = "corrupt"]
  BY DEF Undo_Ends, Release_Ends, Test_Ends
<1>3. held' \in [Slots -> {Nothing} \cup [1 .. 3 -> Bases]]
  BY DEF JobShape, Undo_Ends, Release_Ends, Test_Ends
<1> QED BY <1>1, <1>2, <1>3 DEF JobShape, Idle, Bases, Pool

-----------------------------------------------------------------------------
(* The owners. *)

LEMMA OwnersTyped ==
  ASSUME JobShape
  PROVE  /\ Owners \subseteq Slots
         /\ \A s \in Slots : held[s] # Nothing => \A i \in 1 .. 3 : held[s][i] \in Bases
         /\ Owns \subseteq 1 .. 3
         /\ \A i \in Owns : caller.got[i] \in Bases \cup {Null}
<1>1. Owners \subseteq Slots BY DEF Owners
<1>2. \A s \in Slots : held[s] # Nothing => \A i \in 1 .. 3 : held[s][i] \in Bases BY DEF JobShape
<1>3. CASE caller.job = "acquire"
  <2>1. /\ caller.got \in Seq(Bases \cup {Null}) /\ caller.plan \in Seq(Calls)
        /\ Len(caller.plan) + Len(caller.got) = 3
    BY <1>3 DEF JobShape, Acquiring
  <2>2. PICK n \in Nat, m \in Nat : n = Len(caller.plan) /\ m = Len(caller.got)
    BY <2>1, LenProperties
  <2>3. n + m = 3 BY <2>1, <2>2
  <2>4. Owns = 1 .. m
    <3>1. Owns = 1 .. Len(caller.got) BY <1>3 DEF Owns
    <3> QED BY <2>2, <3>1
  <2>5. \A i \in 1 .. m : caller.got[i] \in Bases \cup {Null} BY <2>1, <2>2, ElementOfSeq
  <2> QED BY <1>1, <1>2, <2>3, <2>4, <2>5
<1>4. CASE caller.job \in {"undo", "release"}
  <2>1. caller.got \in [1 .. 3 -> Bases \cup {Null}] BY <1>4 DEF JobShape, Freeing
  <2>2. Owns \subseteq 1 .. 3 BY <1>4 DEF Owns
  <2> QED BY <1>1, <1>2, <2>1, <2>2
<1>5. CASE caller.job \notin {"acquire", "undo", "release"}
  <2>1. Owns = {} BY <1>5 DEF Owns
  <2> QED BY <1>1, <1>2, <2>1
<1> QED BY <1>3, <1>4, <1>5

LEMMA OwnersStay ==
  ASSUME OwnersAgree, Owners' = Owners, Owns' = Owns, held' = held, Table' = Table,
         \A i \in Owns : caller'.got[i] = caller.got[i]
  PROVE  OwnersAgree'
BY DEF OwnersAgree, OwnedIsLive, LiveIsOwned, OwnedOnce, Bases, Pool

\* The job is given the block at a, which nobody had.
LEMMA OwnersGain ==
  ASSUME JobShape, OwnersAgree, NEW i \in 1 .. 3, NEW a \in Bases, Table[a] = 0,
         i \notin Owns, Owns' = Owns \cup {i}, Owners' = Owners, held' = held,
         Table'[a] # 0, \A b \in Bases \ {a} : Table'[b] = Table[b],
         caller'.got[i] = a, \A j \in Owns : caller'.got[j] = caller.got[j]
  PROVE  OwnersAgree'
<1>1. a # Null BY NullIsNoBase
<1>2. \A s \in Owners : held[s] # Nothing => \A j \in 1 .. 3 : held[s][j] \in Bases /\ held[s][j] # a
  BY OwnersTyped DEF OwnersAgree, OwnedIsLive
<1>3. \A j \in Owns : caller.got[j] # a /\ caller.got[j] \in Bases \cup {Null}
  BY <1>1, OwnersTyped DEF OwnersAgree, OwnedIsLive
<1>4. OwnedIsLive' BY <1>2, <1>3 DEF OwnersAgree, OwnedIsLive
<1>5. LiveIsOwned'
  <2> SUFFICES ASSUME NEW b \in Bases, Table'[b] # 0
               PROVE  \/ \E s \in Owners : held[s] # Nothing /\ \E j \in 1 .. 3 : held[s][j] = b
                      \/ \E j \in Owns' : caller'.got[j] = b
    BY DEF LiveIsOwned, Bases, Pool
  <2>1. CASE b = a BY <2>1
  <2>2. CASE b # a BY <2>2 DEF OwnersAgree, LiveIsOwned
  <2> QED BY <2>1, <2>2
<1>6. OwnedOnce' BY <1>2, <1>3 DEF OwnersAgree, OwnedOnce
<1> QED BY <1>4, <1>5, <1>6 DEF OwnersAgree

\* The job gives the block at position i back, or there was none there.
LEMMA OwnersLose ==
  ASSUME JobShape, OwnersAgree, NEW i \in Owns,
         Owns' = Owns \ {i}, Owners' = Owners, held' = held, caller'.got = caller.got,
         \A b \in Bases : Table'[b] = IF b = caller.got[i] THEN 0 ELSE Table[b]
  PROVE  OwnersAgree'
<1>1. \A s \in Owners : held[s] # Nothing =>
        \A j \in 1 .. 3 : held[s][j] \in Bases /\ held[s][j] # caller.got[i]
  BY OwnersTyped DEF OwnersAgree, OwnedOnce
<1>2. \A j \in Owns \ {i} : /\ caller.got[j] \in Bases \cup {Null}
                            /\ caller.got[j] # Null => caller.got[j] # caller.got[i]
  BY OwnersTyped DEF OwnersAgree, OwnedOnce
<1>3. OwnedIsLive'
  BY <1>1, <1>2 DEF OwnersAgree, OwnedIsLive
<1>4. LiveIsOwned'
  <2> SUFFICES ASSUME NEW b \in Bases, Table'[b] # 0
               PROVE  \/ \E s \in Owners : held[s] # Nothing /\ \E j \in 1 .. 3 : held[s][j] = b
                      \/ \E j \in Owns' : caller.got[j] = b
    BY DEF LiveIsOwned, Bases, Pool
  <2>1. b # caller.got[i] /\ Table[b] # 0 OBVIOUS
  <2> QED BY <2>1 DEF OwnersAgree, LiveIsOwned
<1>5. OwnedOnce' BY DEF OwnersAgree, OwnedOnce
<1> QED BY <1>3, <1>4, <1>5 DEF OwnersAgree

\* A request that is refused gives the job nothing.
LEMMA OwnersGainNothing ==
  ASSUME JobShape, OwnersAgree, NEW i \in 1 .. 3,
         Owns' = Owns \cup {i}, Owners' = Owners, held' = held, Table' = Table,
         caller'.got[i] = Null, \A j \in Owns : caller'.got[j] = caller.got[j], i \notin Owns
  PROVE  OwnersAgree'
<1>1. \A s \in Owners : held[s] # Nothing => \A j \in 1 .. 3 : held[s][j] # Null
  BY OwnersTyped, NullIsNoBase
<1>2. OwnedIsLive' BY DEF OwnersAgree, OwnedIsLive
<1>3. LiveIsOwned' BY DEF OwnersAgree, LiveIsOwned, Bases, Pool
<1>4. OwnedOnce' BY <1>1 DEF OwnersAgree, OwnedOnce
<1> QED BY <1>2, <1>3, <1>4 DEF OwnersAgree

LEMMA ReturnsOwns ==
  ASSUME JobShape, caller.job = "acquire", Len(caller.plan) > 0, NEW p \in Bases \cup {Null},
         Returns(p)
  PROVE  /\ Owners' = Owners
         /\ \E i \in 1 .. 3 : /\ i \notin Owns /\ Owns' = Owns \cup {i}
                              /\ caller'.got[i] = p
                              /\ \A j \in Owns : caller'.got[j] = caller.got[j]
<1> DEFINE more == Append(caller.got, p)
<1>1. caller'.job = "acquire" /\ caller'.got = more BY Record
<1>2. Acquiring BY DEF JobShape
<1>3. PICK n \in Nat, m \in Nat : n = Len(caller.plan) /\ m = Len(caller.got)
  BY <1>2, LenProperties DEF Acquiring
<1>4. n + m = 3 /\ n > 0 BY <1>2, <1>3 DEF Acquiring
<1>5. /\ Len(more) = m + 1 /\ more[m + 1] = p
      /\ \A i \in 1 .. m : more[i] = caller.got[i]
  BY <1>2, <1>3, AppendOf DEF Acquiring
<1> HIDE DEF more
<1>6. Owns = 1 .. m
  <2>1. Owns = 1 .. Len(caller.got) BY DEF Owns
  <2> QED BY <1>3, <2>1
<1>7. Owns' = 1 .. m + 1
  <2>1. Owns' = 1 .. Len(caller'.got) BY <1>1 DEF Owns
  <2> QED BY <1>1, <1>5, <2>1
<1>8. Owners' = Owners BY <1>1 DEF Owners
<1>9. m + 1 \in 1 .. 3 /\ m + 1 \notin 1 .. m /\ 1 .. m + 1 = 1 .. m \cup {m + 1} BY <1>4
<1> QED BY <1>1, <1>5, <1>6, <1>7, <1>8, <1>9

LEMMA FreesOwns ==
  ASSUME JobShape, caller.job \in {"undo", "release"}, Next_Is("free")
  PROVE  /\ Arg \in Owns
         /\ caller' = caller /\ hand'.at = "merge" => Owns' = Owns \ {Arg}
         /\ ReturnsVoid /\ hand'.at = "none" => Owns' = Owns \ {Arg}
<1>1. Freeing /\ hand.at = "none" /\ caller.plan # <<>> BY DEF JobShape, Next_Is
<1>2. PICK n \in Nat \ {0} : n = Len(caller.plan) BY <1>1, EmptySeq DEF Freeing
<1>3. n <= 3 BY <1>1, <1>2 DEF Freeing
<1>4. Head(caller.plan) = Call("free", 1 + 3 - n)
  <2>1. 1 \in 1 .. n BY <1>2
  <2>2. caller.plan[1] = Call("free", 1 + 3 - n) BY <1>1, <1>2, <2>1 DEF Freeing
  <2> QED BY <1>1, <1>2, <2>2, TailOf DEF Freeing
<1>5. Arg = 4 - n BY <1>2, <1>4 DEF Arg, Call
<1>6. Owns = {i \in 1 .. 3 : i > 3 - n} BY <1>1, <1>2 DEF Owns
<1>7. Arg \in Owns BY <1>2, <1>3, <1>5, <1>6
<1>8. ASSUME caller' = caller, hand'.at = "merge" PROVE Owns' = Owns \ {Arg}
  <2>1. Owns' = {i \in 1 .. 3 : i > 3 - n + 1} BY <1>2, <1>8 DEF Owns
  <2> QED BY <1>2, <1>3, <1>5, <1>6, <2>1
<1>9. ASSUME ReturnsVoid, hand'.at = "none" PROVE Owns' = Owns \ {Arg}
  <2> DEFINE rest == Tail(caller.plan)
  <2>1. caller'.job = caller.job /\ caller'.plan = rest BY <1>9, Record
  <2>2. Len(rest) = n - 1 BY <1>1, <1>2, TailOf DEF Freeing
  <2> HIDE DEF rest
  <2>3. Owns' = {i \in 1 .. 3 : i > 3 - Len(rest) + 0} BY <1>9, <2>1 DEF Owns
  <2>4. Owns' = {i \in 1 .. 3 : i > 3 - (n - 1)} BY <2>2, <2>3, <1>2
  <2> QED BY <1>2, <1>3, <1>5, <1>6, <2>4
<1> QED BY <1>7, <1>8, <1>9

LEMMA PushKeepsOwns ==
  ASSUME JobShape, caller.job \in {"undo", "release"}, hand.at = "merge", ReturnsVoid,
         hand' = NoHand
  PROVE  Owns' = Owns /\ Owners' = Owners /\ caller'.got = caller.got /\ caller'.job = caller.job
<1>1. Freeing /\ Len(caller.plan) > 0 BY DEF JobShape, Freeing
<1> DEFINE rest == Tail(caller.plan)
<1>2. /\ caller'.job = caller.job /\ caller'.plan = rest /\ caller'.got = caller.got
      /\ caller'.slot = caller.slot
  BY Record
<1>3. PICK n \in Nat : n = Len(caller.plan) BY <1>1, LenProperties DEF Freeing
<1>4. Len(rest) = n - 1 BY <1>1, <1>3, TailOf DEF Freeing
<1> HIDE DEF rest
<1>5. Owns = {i \in 1 .. 3 : i > 3 - n + 1} BY <1>3 DEF Owns
<1>6. Owns' = {i \in 1 .. 3 : i > 3 - Len(rest) + 0} BY <1>2 DEF Owns, NoHand
<1>7. Owns' = {i \in 1 .. 3 : i > 3 - (n - 1) + 0} BY <1>4, <1>6
<1>8. \A i \in 1 .. 3 : i > 3 - (n - 1) + 0 <=> i > 3 - n + 1 BY <1>3
<1> QED BY <1>2, <1>5, <1>7, <1>8 DEF Owners

-----------------------------------------------------------------------------
(* Whose memory a push writes to. *)

LEMMA HoldersOf ==
  ASSUME JobShape, OwnersAgree, NEW a, NEW s \in Holders(a)
  PROVE  /\ s \in Owners /\ s \in Slots /\ held[s] # Nothing
         /\ \E i \in 1 .. 3 : /\ held[s][i] \in Bases /\ Table[held[s][i]] # 0
                              /\ held[s][i] <= a /\ a < held[s][i] + P[Table[held[s][i]]]
<1>1. s \in Owners /\ s \in Slots BY DEF Holders, Owners
<1>2. PICK b \in BlocksOf(s) : b.at <= a /\ a < b.at + b.size BY DEF Holders
<1>3. held[s] # Nothing BY <1>2 DEF BlocksOf
<1>4. PICK i \in 1 .. 3 : b = [at |-> held[s][i], size |-> P[Table[held[s][i]]]]
  BY <1>2, <1>3 DEF BlocksOf, Table
<1>5. held[s][i] \in Bases BY <1>1, <1>3, OwnersTyped
<1>6. Table[held[s][i]] # 0 BY <1>1, <1>3 DEF OwnersAgree, OwnedIsLive
<1> QED BY <1>1, <1>2, <1>3, <1>4, <1>5, <1>6

LEMMA NobodyHoldsTheHand ==
  ASSUME BuddyInv, JobShape, OwnersAgree, caller.job # "test", hand.at # "none",
         NEW a \in Nat, hand.addr <= a, a < hand.addr + P[hand.order]
  PROVE  Holders(a) = {}
<1> SUFFICES ASSUME NEW s \in Holders(a) PROVE FALSE OBVIOUS
<1>1. PICK i \in 1 .. 3 : /\ held[s][i] \in Bases /\ order[held[s][i]] # 0
                          /\ held[s][i] <= a /\ a < held[s][i] + P[order[held[s][i]]]
  BY HoldersOf DEF Table
<1>2. \/ hand.addr + P[hand.order] <= held[s][i]
      \/ held[s][i] + P[order[held[s][i]]] <= hand.addr
  BY <1>1, HandIsApart
<1>3. /\ hand.addr \in Nat /\ P[hand.order] \in Nat /\ held[s][i] \in Nat
      /\ P[order[held[s][i]]] \in Nat
  BY <1>1, Constants DEF BuddyInv, BuddyTypeOK
<1> QED BY <1>1, <1>2, <1>3

LEMMA NobodyHoldsAnything ==
  ASSUME JobShape, OwnersAgree, \A b \in Bases : Table[b] = 0, NEW a
  PROVE  Holders(a) = {}
BY HoldersOf

LEMMA QuietStays ==
  ASSUME QuietUnlessTested, disturbed' = disturbed, saved' = saved,
         caller'.job = caller.job \/ {caller.job, caller'.job} \cap {"test", "corrupt"} = {}
  PROVE  QuietUnlessTested'
BY DEF QuietUnlessTested, FreshFree, Orders

\* A push during a job of the arena's own callers disturbs nobody.
LEMMA QuietPush ==
  ASSUME ArenaInv, hand.at # "none", NEW a \in Nat,
         hand.addr <= a, a < hand.addr + P[hand.order], Pushes(a), saved' = saved,
         caller'.job = caller.job
  PROVE  QuietUnlessTested'
<1>1. ASSUME caller.job \notin {"test", "corrupt"} PROVE disturbed' = {}
  <2>1. Holders(a) = {} BY <1>1, NobodyHoldsTheHand DEF ArenaInv
  <2> QED BY <1>1, <2>1 DEF ArenaInv, QuietUnlessTested, Pushes
<1>2. ASSUME caller.job = "test", saved.free = FreshFree PROVE disturbed' = {}
  <2>1. \A b \in Bases : Table[b] = 0
    BY <1>2, FreshMeansNothingLive DEF ArenaInv, SavedIsKept, Table
  <2>2. Holders(a) = {} BY <2>1, NobodyHoldsAnything DEF ArenaInv
  <2> QED BY <1>2, <2>2 DEF ArenaInv, QuietUnlessTested, Pushes
<1>3. FreshFree' = FreshFree BY DEF FreshFree, Orders
<1> QED BY <1>1, <1>2, <1>3 DEF QuietUnlessTested

-----------------------------------------------------------------------------
(* Each action keeps the invariant. *)

LEMMA BuddyStays ==
  ASSUME BuddyInv, RoomInv, UNCHANGED buddyVars
  PROVE  BuddyInv' /\ RoomInv'
BY StutterInv, StutterRoom

LEMMA AcquireBeginsInv ==
  ASSUME ArenaInv, NEW s \in Slots, NEW sh \in Shapes, Acquire_Begins(s, sh) PROVE ArenaInv'
<1> USE DEF ArenaInv
<1>1. /\ caller.job = "idle" /\ caller'.job = "acquire" /\ caller'.got = <<>>
      /\ UNCHANGED <<free, order, hand, held, saved, disturbed>>
  BY DEF Acquire_Begins, buddyVars
<1>2. BuddyInv' /\ RoomInv' BY <1>1, BuddyStays DEF buddyVars
<1>3. JobShape' BY AcquireBeginsShape
<1>4. OwnersAgree'
  <2>1. Owners' = Owners /\ Table' = Table BY <1>1 DEF Owners, Table
  <2>2. Owns = {} BY <1>1 DEF Owns
  <2>3. Owns' = {}
    <3>1. Owns' = 1 .. Len(<<>>) BY <1>1 DEF Owns
    <3>2. Len(<<>>) = 0 OBVIOUS
    <3> QED BY <3>1, <3>2
  <2> QED BY <1>1, <2>1, <2>2, <2>3, OwnersStay
<1>5. SavedIsKept' BY <1>1, SavedStays
<1>6. QuietUnlessTested' BY <1>1, QuietStays
<1> QED BY <1>2, <1>3, <1>4, <1>5, <1>6

LEMMA ReleaseBeginsInv ==
  ASSUME ArenaInv, NEW s \in Slots, Release_Begins(s) PROVE ArenaInv'
<1> USE DEF ArenaInv
<1>1. /\ caller.job = "idle" /\ caller'.job = "release" /\ caller'.slot = s
      /\ caller'.got = held[s] /\ caller'.plan = FreeAll /\ held[s] # Nothing
      /\ UNCHANGED <<free, order, hand, held, saved, disturbed>>
  BY DEF Release_Begins, buddyVars, Idle
<1>2. BuddyInv' /\ RoomInv' BY <1>1, BuddyStays DEF buddyVars
<1>3. JobShape' BY ReleaseBeginsShape
<1>4. OwnersAgree'
  <2>1. Owners = Slots /\ Owners' = Slots \ {s} /\ Table' = Table BY <1>1 DEF Owners, Table
  <2>2. Owns = {} BY <1>1 DEF Owns
  <2>3. Owns' = 1 .. 3
    <3>1. hand'.at = "none" BY <1>1 DEF JobShape
    <3>2. Len(FreeAll) = 3 BY DEF FreeAll
    <3>3. Owns' = {i \in 1 .. 3 : i > 3 - Len(FreeAll) + 0} BY <1>1, <3>1 DEF Owns
    <3>4. \A i \in 1 .. 3 : i > 3 - 3 + 0 OBVIOUS
    <3> QED BY <3>2, <3>3, <3>4
  <2>4. \A t \in Slots : held[t] # Nothing => \A i \in 1 .. 3 : held[t][i] \in Bases
    BY OwnersTyped
  <2>5. OwnedIsLive' BY <1>1, <2>1, <2>3 DEF OwnersAgree, OwnedIsLive
  <2>6. LiveIsOwned'
    <3> SUFFICES ASSUME NEW a \in Bases, Table[a] # 0
                 PROVE  \/ \E t \in Slots \ {s} : held[t] # Nothing /\ \E i \in 1 .. 3 : held[t][i] = a
                        \/ \E i \in 1 .. 3 : held[s][i] = a
      BY <1>1, <2>1, <2>3 DEF LiveIsOwned, Bases, Pool
    <3> QED BY <2>1, <2>2 DEF OwnersAgree, LiveIsOwned
  <2>7. OwnedOnce' BY <1>1, <2>1, <2>2, <2>3 DEF OwnersAgree, OwnedOnce
  <2> QED BY <2>5, <2>6, <2>7 DEF OwnersAgree
<1>5. SavedIsKept' BY <1>1, SavedStays
<1>6. QuietUnlessTested' BY <1>1, QuietStays
<1> QED BY <1>2, <1>3, <1>4, <1>5, <1>6

LEMMA TestBeginsInv == ASSUME ArenaInv, Test_Begins PROVE ArenaInv'
<1> USE DEF ArenaInv
<1>1. /\ caller.job = "idle" /\ caller'.job = "test" /\ hand' = hand /\ held' = held
      /\ free' = FreshFree /\ order' = FreshOrder
      /\ saved' = [free |-> free, order |-> order]
      /\ disturbed' = disturbed \cup Holders(0)
  BY DEF Test_Begins, Idle
<1>2. hand = NoHand /\ hand.at = "none" BY <1>1 DEF JobShape, NoHand
<1>3. BuddyInit' BY <1>1, <1>2 DEF BuddyInit, FreshFree, FreshOrder, NoHand, Orders, Bases, Pool
<1>4. BuddyInv' /\ RoomInv' BY <1>3, InitInv, InitRoom, PTL
<1>5. JobShape' BY TestBeginsShape
<1>6. OwnersAgree'
  <2>1. Owners' = Owners /\ Table' = Table BY <1>1 DEF Owners, Table
  <2>2. Owns = {} /\ Owns' = {} BY <1>1 DEF Owns
  <2> QED BY <1>1, <2>1, <2>2, OwnersStay
<1>7. Kept(free, order) BY <1>2, AtRestIsKept
<1>8. SavedIsKept'
  <2>1. saved'.free = free /\ saved'.order = order BY <1>1
  <2> QED BY <1>7, <2>1 DEF SavedIsKept, Kept, Sound, Covered, Covers, Disjoint, NoPartnersFree,
         PartnerOf, BlocksIn, Marked, Bases, Orders, Pool
<1>9. QuietUnlessTested'
  <2> SUFFICES ASSUME free = FreshFree PROVE disturbed' = {}
    BY <1>1 DEF QuietUnlessTested, FreshFree, Orders
  <2>1. \A b \in Bases : Table[b] = 0 BY <1>1, <1>7, FreshMeansNothingLive DEF Table
  <2>2. Holders(0) = {} BY <2>1, NobodyHoldsAnything
  <2> QED BY <1>1, <2>2 DEF QuietUnlessTested
<1> QED BY <1>4, <1>5, <1>6, <1>8, <1>9

\* What the calls of the self-test do to the modules' blocks: nothing.
LEMMA TestOwners ==
  ASSUME OwnersAgree, caller.job = "test", caller'.job = "test", saved' = saved, held' = held
  PROVE  OwnersAgree'
<1>1. Owners' = Owners /\ Table' = Table BY DEF Owners, Table
<1>2. Owns = {} /\ Owns' = {} BY DEF Owns
<1> QED BY <1>1, <1>2, OwnersStay

LEMMA CallsAllocInv == ASSUME ArenaInv, Calls_Alloc PROVE ArenaInv'
<1> USE DEF ArenaInv
<1>1. /\ Next_Is("alloc") /\ hand.at = "none" /\ caller.job \in {"acquire", "test"}
      /\ UNCHANGED <<held, saved, disturbed>>
  BY WhoCalls DEF Calls_Alloc, Next_Is
<1>2. hand = NoHand BY <1>1 DEF JobShape
<1>3. caller.job # "test" => Len(caller.plan) > 0 BY <1>1, NoSplitWithoutACall
<1>4. CASE Returns(Null) /\ UNCHANGED buddyVars
  <2>1. BuddyInv' /\ RoomInv' BY <1>4, BuddyStays
  <2>2. caller'.job = caller.job BY <1>4, Record
  <2>3. JobShape'
    <3>1. CASE caller.job = "acquire"
      BY <1>1, <1>2, <1>3, <1>4, <3>1, ReturnsKeepsAcquiring DEF buddyVars
    <3>2. CASE caller.job = "test"
      BY <1>1, <1>2, <1>4, <2>2, <3>2, TestKeepsShape DEF buddyVars
    <3> QED BY <1>1, <3>1, <3>2
  <2>4. OwnersAgree'
    <3>1. CASE caller.job = "acquire"
      <4>1. Table' = Table BY <1>4, <2>2, <3>1 DEF Table, buddyVars
      <4> QED BY <1>1, <1>3, <1>4, <3>1, <4>1, ReturnsOwns, OwnersGainNothing
    <3>2. CASE caller.job = "test" BY <1>1, <2>2, <3>2, TestOwners
    <3> QED BY <1>1, <3>1, <3>2
  <2>5. SavedIsKept' BY <1>1, <2>2, SavedStays
  <2>6. QuietUnlessTested' BY <1>1, <2>2, QuietStays
  <2> QED BY <2>1, <2>3, <2>4, <2>5, <2>6
<1>5. ASSUME Alloc_Pop(Arg), caller' = caller PROVE ArenaInv'
  <2>1. BuddyInv' /\ RoomInv' BY <1>5, PopInv, PopRoom
  <2>2. hand'.at = "split" /\ order' = order BY <1>5 DEF Alloc_Pop
  <2>3. JobShape' BY <1>1, <1>3, <1>5, <2>2, HandMovesShape
  <2>4. OwnersAgree'
    <3>1. Owners' = Owners /\ Table' = Table BY <1>1, <1>5, <2>2 DEF Owners, Table
    <3>2. Owns' = Owns BY <1>1, <1>5 DEF Owns
    <3> QED BY <1>1, <1>5, <3>1, <3>2, OwnersStay
  <2>5. SavedIsKept' BY <1>1, <1>5, SavedStays
  <2>6. QuietUnlessTested' BY <1>1, <1>5, QuietStays
  <2> QED BY <2>1, <2>3, <2>4, <2>5, <2>6
<1> QED BY <1>4, <1>5 DEF Calls_Alloc

LEMMA SplitsInv == ASSUME ArenaInv, Splits PROVE ArenaInv'
<1> USE DEF ArenaInv
<1>1. /\ hand.at = "split" /\ hand'.at = "split" /\ order' = order
      /\ UNCHANGED <<held, caller, saved>>
  BY DEF Splits, Alloc_Split
<1>2. caller.job \in {"acquire", "test"} BY <1>1 DEF JobShape
<1>3. BuddyInv' /\ RoomInv' BY SplitInv, SplitRoom DEF Splits
<1>4. caller.job # "test" => Len(caller.plan) > 0 BY <1>1, NoSplitWithoutACall
<1>5. JobShape' BY <1>1, <1>2, <1>4, HandMovesShape
<1>6. OwnersAgree'
  <2>1. Owners' = Owners /\ Table' = Table /\ Owns' = Owns BY <1>1, <1>2 DEF Owners, Table, Owns
  <2> QED BY <1>1, <2>1, OwnersStay
<1>7. SavedIsKept' BY <1>1, SavedStays
<1>8. QuietUnlessTested'
  <2> DEFINE a == hand.addr + P[hand.order - 1]
  <2>1. a \in Nat /\ hand.addr <= a /\ a < hand.addr + P[hand.order]
    <3>1. /\ hand.order \in Nat /\ hand.want \in Nat /\ hand.order > hand.want
          /\ hand.order \in Orders /\ hand.want \in Orders /\ hand.addr \in Nat
      BY Constants DEF BuddyInv, BuddyTypeOK, Splits, Alloc_Split
    <3>2. hand.order - 1 \in Orders /\ hand.order - 1 < MaxOrder /\ (hand.order - 1) + 1 = hand.order
      <4>1. MinOrder \in Nat /\ MaxOrder \in Nat BY OrdersAssumption
      <4> QED BY <3>1, <4>1 DEF Orders
    <3>3. P[hand.order - 1] \in Nat \ {0} /\ P[hand.order] = 2 * P[hand.order - 1]
      BY <3>2, Constants
    <3> QED BY <3>1, <3>3
  <2>2. Pushes(a) BY DEF Splits
  <2> HIDE DEF a
  <2>3. hand.at # "none" /\ saved' = saved /\ caller'.job = caller.job BY <1>1
  <2> QED BY <2>1, <2>2, <2>3, QuietPush
<1> QED BY <1>3, <1>5, <1>6, <1>7, <1>8

LEMMA AllocReturnsInv == ASSUME ArenaInv, Alloc_Returns PROVE ArenaInv'
<1> USE DEF ArenaInv
<1>1. /\ hand.at = "split" /\ hand' = NoHand /\ Returns(hand.addr)
      /\ order' = [order EXCEPT ![hand.addr] = hand.want]
      /\ UNCHANGED <<held, saved, disturbed>>
  BY DEF Alloc_Returns, Alloc_Return
<1>2. /\ caller.job \in {"acquire", "test"} /\ hand.addr \in Bases /\ hand.want # 0
      /\ order \in [Bases -> Orders \cup {0}]
  BY <1>1, Constants DEF JobShape, BuddyInv, BuddyTypeOK
<1>3. BuddyInv' /\ RoomInv' BY ReturnInv, ReturnRoom DEF Alloc_Returns
<1>4. caller'.job = caller.job BY <1>1, Record
<1>5. caller.job # "test" => Len(caller.plan) > 0 BY <1>1, NoSplitWithoutACall
<1>6. JobShape'
  <2>1. CASE caller.job = "acquire" BY <1>1, <1>2, <1>5, <2>1, ReturnsKeepsAcquiring
  <2>2. CASE caller.job = "test" BY <1>1, <1>4, <2>2, TestKeepsShape
  <2> QED BY <1>2, <2>1, <2>2
<1>7. OwnersAgree'
  <2>1. CASE caller.job = "acquire"
    <3>1. Table = order /\ Table' = order' BY <1>4, <2>1 DEF Table
    <3>2. /\ Table[hand.addr] = 0 /\ Table'[hand.addr] # 0
          /\ \A b \in Bases \ {hand.addr} : Table'[b] = Table[b]
      BY <1>1, <1>2, <3>1, HandIsApart
    <3>3. PICK i \in 1 .. 3 :
             /\ i \notin Owns /\ Owns' = Owns \cup {i} /\ caller'.got[i] = hand.addr
             /\ \A j \in Owns : caller'.got[j] = caller.got[j]
      BY <1>1, <1>2, <1>5, <2>1, ReturnsOwns
    <3>4. Owners' = Owners BY <1>1, <1>2, <1>5, <2>1, ReturnsOwns
    <3> QED BY <1>1, <1>2, <3>2, <3>3, <3>4, OwnersGain
  <2>2. CASE caller.job = "test" BY <1>1, <1>4, <2>2, TestOwners
  <2> QED BY <1>2, <2>1, <2>2
<1>8. SavedIsKept' BY <1>1, <1>4, SavedStays
<1>9. QuietUnlessTested' BY <1>1, <1>4, QuietStays
<1> QED BY <1>3, <1>6, <1>7, <1>8, <1>9

LEMMA CallsFreeInv == ASSUME ArenaInv, Calls_Free PROVE ArenaInv'
<1> USE DEF ArenaInv
<1> DEFINE p == IF Head(caller.plan).op = "stray" THEN Arg ELSE caller.got[Arg]
<1>1. /\ Next_Is("free") \/ Next_Is("stray")
      /\ hand.at = "none" /\ caller.job \in {"undo", "release", "test"}
      /\ UNCHANGED <<held, saved, disturbed>>
  BY WhoCalls DEF Calls_Free, Next_Is
<1>2. hand = NoHand BY <1>1 DEF JobShape
<1>3. caller.job # "test" => Len(caller.plan) > 0 BY <1>1, NoSplitWithoutACall
<1>4. ASSUME caller.job # "test"
      PROVE  Next_Is("free") /\ p = caller.got[Arg] /\ Arg \in Owns /\ p \in Bases \cup {Null}
  <2>1. Next_Is("free") BY <1>1, <1>4, WhoCalls
  <2>2. p = caller.got[Arg] BY <2>1 DEF Next_Is
  <2>3. Arg \in Owns BY <1>1, <1>4, <2>1, FreesOwns
  <2> QED BY <2>1, <2>2, <2>3, OwnersTyped
<1>5. CASE Free_Take(p) /\ caller' = caller
  <2>1. BuddyInv' /\ RoomInv' BY <1>5, TakeInv, TakeRoom
  <2>2. /\ hand'.at = "merge" /\ p \in Bases /\ order[p] # 0
        /\ order' = [order EXCEPT ![p] = 0] /\ order \in [Bases -> Orders \cup {0}]
    BY <1>5 DEF Free_Take, IsLive, BuddyInv, BuddyTypeOK
  <2>3. JobShape' BY <1>1, <1>3, <1>5, <2>2, HandMovesShape
  <2>4. OwnersAgree'
    <3>1. CASE caller.job # "test"
      <4>1. Table = order /\ Table' = order' BY <1>5, <3>1 DEF Table
      <4>2. Owns' = Owns \ {Arg} BY <1>1, <1>4, <1>5, <2>2, <3>1, FreesOwns
      <4>3. Owners' = Owners /\ caller'.got = caller.got BY <1>5 DEF Owners
      <4>4. \A b \in Bases : Table'[b] = IF b = caller.got[Arg] THEN 0 ELSE Table[b]
        BY <1>4, <2>2, <3>1, <4>1
      <4>5. PICK i \in Owns : i = Arg BY <1>4, <3>1
      <4> QED BY <1>1, <4>2, <4>3, <4>4, <4>5, OwnersLose
    <3>2. CASE caller.job = "test" BY <1>1, <1>5, <3>2, TestOwners
    <3> QED BY <3>1, <3>2
  <2>5. SavedIsKept' BY <1>1, <1>5, SavedStays
  <2>6. QuietUnlessTested' BY <1>1, <1>5, QuietStays
  <2> QED BY <2>1, <2>3, <2>4, <2>5, <2>6
<1>6. CASE ~ IsLive(p) /\ ReturnsVoid /\ UNCHANGED buddyVars
  <2>1. BuddyInv' /\ RoomInv' BY <1>6, BuddyStays
  <2>2. caller'.job = caller.job BY <1>6, Record
  <2>3. hand' = NoHand /\ hand'.at = "none" /\ order' = order BY <1>2, <1>6 DEF buddyVars, NoHand
  <2>4. JobShape'
    <3>1. CASE caller.job # "test" BY <1>1, <1>3, <1>6, <2>3, <3>1, ReturnsKeepsFreeing
    <3>2. CASE caller.job = "test" BY <1>1, <1>6, <2>2, <2>3, <3>2, TestKeepsShape
    <3> QED BY <3>1, <3>2
  <2>5. OwnersAgree'
    <3>1. CASE caller.job # "test"
      <4>1. Table = order /\ Table' = order BY <2>2, <2>3, <3>1 DEF Table
      <4>2. Owns' = Owns \ {Arg} BY <1>1, <1>4, <1>6, <2>3, <3>1, FreesOwns
      <4>3. Owners' = Owners /\ caller'.got = caller.got
        <5>1. /\ caller'.job = caller.job /\ caller'.slot = caller.slot
              /\ caller'.got = caller.got
          BY <1>6, Record
        <5> QED BY <5>1 DEF Owners
      <4>4. p = Null
        <5>1. p \in Bases => Table[p] = 0 BY <1>6, <4>1 DEF IsLive
        <5> QED BY <1>4, <3>1, <5>1 DEF OwnersAgree, OwnedIsLive
      <4>5. \A b \in Bases : Table'[b] = IF b = caller.got[Arg] THEN 0 ELSE Table[b]
        BY <1>4, <3>1, <4>1, <4>4, NullIsNoBase
      <4>6. PICK i \in Owns : i = Arg BY <1>4, <3>1
      <4> QED BY <1>1, <4>2, <4>3, <4>5, <4>6, OwnersLose
    <3>2. CASE caller.job = "test" BY <1>1, <2>2, <3>2, TestOwners
    <3> QED BY <3>1, <3>2
  <2>6. SavedIsKept' BY <1>1, <2>2, SavedStays
  <2>7. QuietUnlessTested' BY <1>1, <2>2, QuietStays
  <2> QED BY <2>1, <2>4, <2>5, <2>6, <2>7
<1> QED BY <1>5, <1>6 DEF Calls_Free

LEMMA MergesInv == ASSUME ArenaInv, Merges PROVE ArenaInv'
<1> USE DEF ArenaInv
<1>1. /\ hand.at = "merge" /\ hand'.at = "merge" /\ order' = order
      /\ UNCHANGED <<held, caller, saved, disturbed>>
  BY DEF Merges, Free_Merge
<1>2. caller.job \in {"undo", "release", "test"} BY <1>1 DEF JobShape
<1>3. BuddyInv' /\ RoomInv' BY MergeInv, MergeRoom DEF Merges
<1>4. caller.job # "test" => Len(caller.plan) > 0 BY <1>1, NoSplitWithoutACall
<1>5. JobShape' BY <1>1, <1>2, <1>4, HandMovesShape
<1>6. OwnersAgree'
  <2>1. Owners' = Owners /\ Table' = Table /\ Owns' = Owns BY <1>1, <1>2 DEF Owners, Table, Owns
  <2> QED BY <1>1, <2>1, OwnersStay
<1>7. SavedIsKept' BY <1>1, SavedStays
<1>8. QuietUnlessTested' BY <1>1, QuietStays
<1> QED BY <1>3, <1>5, <1>6, <1>7, <1>8

LEMMA FreeReturnsInv == ASSUME ArenaInv, Free_Returns PROVE ArenaInv'
<1> USE DEF ArenaInv
<1>1. /\ hand.at = "merge" /\ hand' = NoHand /\ ReturnsVoid /\ order' = order
      /\ Pushes(hand.addr) /\ UNCHANGED <<held, saved>>
  BY DEF Free_Returns, Free_Push
<1>2. caller.job \in {"undo", "release", "test"} BY <1>1 DEF JobShape
<1>3. BuddyInv' /\ RoomInv' BY PushInv, PushRoom DEF Free_Returns
<1>4. caller'.job = caller.job BY <1>1, Record
<1>5. caller.job # "test" => Len(caller.plan) > 0 BY <1>1, NoSplitWithoutACall
<1>6. JobShape'
  <2>1. CASE caller.job # "test" BY <1>1, <1>2, <1>5, <2>1, ReturnsKeepsFreeing
  <2>2. CASE caller.job = "test" BY <1>1, <1>4, <2>2, TestKeepsShape
  <2> QED BY <2>1, <2>2
<1>7. OwnersAgree'
  <2>1. CASE caller.job # "test"
    <3>1. Table' = Table BY <1>1, <1>4, <2>1 DEF Table
    <3>2. Owns' = Owns /\ Owners' = Owners /\ caller'.got = caller.got
      BY <1>1, <1>2, <2>1, PushKeepsOwns
    <3> QED BY <1>1, <3>1, <3>2, OwnersStay
  <2>2. CASE caller.job = "test" BY <1>1, <1>4, <2>2, TestOwners
  <2> QED BY <2>1, <2>2
<1>8. SavedIsKept' BY <1>1, <1>4, SavedStays
<1>9. QuietUnlessTested'
  <2>1. hand.addr \in Nat /\ hand.addr <= hand.addr /\ hand.addr < hand.addr + P[hand.order]
    <3>1. hand.addr \in Nat /\ P[hand.order] \in Nat \ {0} BY Constants DEF BuddyInv, BuddyTypeOK
    <3> QED BY <3>1
  <2>2. hand.at # "none" /\ saved' = saved BY <1>1
  <2> QED BY <1>1, <1>4, <2>1, <2>2, QuietPush
<1> QED BY <1>3, <1>6, <1>7, <1>8, <1>9

LEMMA AcquireEndsInv == ASSUME ArenaInv, Acquire_Ends PROVE ArenaInv'
<1> USE DEF ArenaInv
<1>1. /\ caller.job = "acquire" /\ caller.plan = <<>> /\ hand.at = "none"
      /\ UNCHANGED <<free, order, hand, saved, disturbed>>
  BY DEF Acquire_Ends, Finished, buddyVars
<1>2. BuddyInv' /\ RoomInv' BY <1>1, BuddyStays DEF buddyVars
<1>3. JobShape' BY AcquireEndsShape
<1>4. /\ caller.got \in Seq(Bases \cup {Null}) /\ caller.slot \in Slots /\ held[caller.slot] = Nothing
      /\ Len(caller.got) = 3
  <2>1. Acquiring BY <1>1 DEF JobShape
  <2>2. Len(caller.plan) = 0 BY <1>1
  <2>3. Len(caller.got) \in Nat BY <2>1, LenProperties DEF Acquiring
  <2>4. Len(caller.plan) + Len(caller.got) = 3 BY <2>1 DEF Acquiring
  <2>5. Len(caller.got) = 3 BY <2>2, <2>3, <2>4
  <2> QED BY <2>1, <2>5 DEF Acquiring
<1>5. Owns = 1 .. 3
  <2>1. Owns = 1 .. Len(caller.got) BY <1>1 DEF Owns
  <2> QED BY <1>4, <2>1
<1>6. caller'.job \in {"undo", "idle"}
  <2>1. PICK j, s, sh, p, g : caller = [job |-> j, slot |-> s, shape |-> sh, plan |-> p, got |-> g]
    BY DEF JobShape
  <2>2. caller' = [caller EXCEPT !.job = "undo", !.plan = FreeAll] \/ caller' = Idle
    BY DEF Acquire_Ends
  <2>3. CASE caller' = Idle BY <2>3 DEF Idle
  <2>4. CASE caller' = [caller EXCEPT !.job = "undo", !.plan = FreeAll] BY <2>1, <2>4
  <2> QED BY <2>2, <2>3, <2>4
<1>7. Owners = Slots /\ Owners' = Slots /\ Table' = Table BY <1>1, <1>6 DEF Owners, Table
<1>8. OwnersAgree'
  <2>1. CASE \E i \in 1 .. 3 : caller.got[i] = Null
    <3>1. /\ held' = held /\ caller'.job = "undo" /\ caller'.got = caller.got
          /\ caller'.plan = FreeAll
      <4>1. PICK j, s, sh, p, g : caller = [job |-> j, slot |-> s, shape |-> sh, plan |-> p, got |-> g]
        BY DEF JobShape
      <4>2. held' = held /\ caller' = [caller EXCEPT !.job = "undo", !.plan = FreeAll]
        BY <2>1 DEF Acquire_Ends
      <4> QED BY <4>1, <4>2
    <3>2. Owns' = 1 .. 3
      <4>1. hand'.at = "none" BY <1>1
      <4>2. Len(FreeAll) = 3 BY DEF FreeAll
      <4>3. Owns' = {i \in 1 .. 3 : i > 3 - Len(FreeAll) + 0} BY <3>1, <4>1 DEF Owns
      <4>4. \A i \in 1 .. 3 : i > 3 - 3 + 0 OBVIOUS
      <4> QED BY <4>2, <4>3, <4>4
    <3> QED BY <1>5, <1>7, <3>1, <3>2, OwnersStay
  <2>2. CASE ~ \E i \in 1 .. 3 : caller.got[i] = Null
    <3> DEFINE s == caller.slot  g == caller.got
    <3>1. held' = [held EXCEPT ![s] = g] /\ caller' = Idle BY <2>2 DEF Acquire_Ends
    <3>2. Owns' = {} BY <3>1 DEF Owns, Idle
    <3>3. held'[s] = g /\ \A t \in Slots \ {s} : held'[t] = held[t] BY <1>4, <3>1 DEF JobShape
    <3>4. g # Nothing
      <4>1. DOMAIN Nothing = {} BY DEF Nothing
      <4>2. DOMAIN g = 1 .. 3 BY <1>4 DEF JobShape
      <4>3. 1 \in 1 .. 3 OBVIOUS
      <4> QED BY <4>1, <4>2, <4>3
    <3>5. \A i \in 1 .. 3 : g[i] # Null /\ Table[g[i]] # 0
      BY <1>5, <2>2 DEF OwnersAgree, OwnedIsLive
    <3> HIDE DEF s, g
    <3>6. s \in Slots /\ held[s] = Nothing /\ caller.got = g BY <1>4 DEF s, g
    <3>7. OwnedIsLive'
      BY <1>7, <3>2, <3>3, <3>5, <3>6 DEF OwnersAgree, OwnedIsLive
    <3>8. LiveIsOwned'
      <4> SUFFICES ASSUME NEW a \in Bases, Table[a] # 0
                   PROVE  \E t \in Slots : held'[t] # Nothing /\ \E i \in 1 .. 3 : held'[t][i] = a
        BY <1>7, <3>2 DEF LiveIsOwned, Bases, Pool
      <4>1. CASE \E i \in 1 .. 3 : g[i] = a BY <3>3, <3>4, <3>6, <4>1
      <4>2. CASE \E t \in Slots : held[t] # Nothing /\ \E i \in 1 .. 3 : held[t][i] = a
        BY <3>3, <3>6, <4>2
      <4> QED BY <1>5, <1>7, <3>6, <4>1, <4>2 DEF OwnersAgree, LiveIsOwned
    <3>9. OwnedOnce'
      <4>1. \A t \in Slots \ {s} : held[t] # Nothing => \A i, j \in 1 .. 3 : held[t][i] # g[j]
        BY <1>5, <1>7, <3>6 DEF OwnersAgree, OwnedOnce
      <4>2. \A i, j \in 1 .. 3 : g[i] = g[j] => i = j
        BY <1>5, <3>5, <3>6 DEF OwnersAgree, OwnedOnce
      <4>3. \A t, u \in Slots \ {s} : held[t] # Nothing /\ held[u] # Nothing =>
              \A i, j \in 1 .. 3 : held[t][i] = held[u][j] => t = u /\ i = j
        BY <1>7 DEF OwnersAgree, OwnedOnce
      <4>4. ASSUME NEW t \in Slots, NEW u \in Slots, held'[t] # Nothing, held'[u] # Nothing,
                   NEW i \in 1 .. 3, NEW j \in 1 .. 3, held'[t][i] = held'[u][j]
            PROVE  t = u /\ i = j
        <5>1. CASE t = s /\ u = s BY <3>3, <4>2, <4>4, <5>1
        <5>2. CASE t = s /\ u # s BY <3>3, <4>1, <4>4, <5>2
        <5>3. CASE t # s /\ u = s BY <3>3, <4>1, <4>4, <5>3
        <5>4. CASE t # s /\ u # s BY <3>3, <4>3, <4>4, <5>4
        <5> QED BY <5>1, <5>2, <5>3, <5>4
      <4> QED BY <1>7, <3>2, <4>4 DEF OwnedOnce
    <3> QED BY <3>7, <3>8, <3>9 DEF OwnersAgree
  <2> QED BY <2>1, <2>2
<1>9. SavedIsKept' BY <1>1, <1>6, SavedStays
<1>10. QuietUnlessTested' BY <1>1, <1>6, QuietStays
<1> QED BY <1>2, <1>3, <1>8, <1>9, <1>10

LEMMA UndoEndsInv == ASSUME ArenaInv, Undo_Ends PROVE ArenaInv'
<1> USE DEF ArenaInv
<1>1. /\ caller.job = "undo" /\ caller.plan = <<>> /\ hand.at = "none" /\ caller' = Idle
      /\ UNCHANGED <<free, order, hand, held, saved, disturbed>>
  BY DEF Undo_Ends, Finished, buddyVars
<1>2. BuddyInv' /\ RoomInv' BY <1>1, BuddyStays DEF buddyVars
<1>3. JobShape' BY OtherEndsShape
<1>4. caller'.job = "idle" BY <1>1 DEF Idle
<1>5. OwnersAgree'
  <2>1. Owners' = Owners /\ Table' = Table BY <1>1, <1>4 DEF Owners, Table
  <2>2. Owns = {}
    <3>1. Len(caller.plan) = 0 BY <1>1
    <3>2. Owns = {i \in 1 .. 3 : i > 3 - 0 + 0} BY <1>1, <3>1 DEF Owns
    <3> QED BY <3>2
  <2>3. Owns' = {} BY <1>4 DEF Owns
  <2> QED BY <1>1, <2>1, <2>2, <2>3, OwnersStay
<1>6. SavedIsKept' BY <1>1, <1>4, SavedStays
<1>7. QuietUnlessTested' BY <1>1, <1>4, QuietStays
<1> QED BY <1>2, <1>3, <1>5, <1>6, <1>7

LEMMA ReleaseEndsInv == ASSUME ArenaInv, Release_Ends PROVE ArenaInv'
<1> USE DEF ArenaInv
<1> DEFINE s == caller.slot
<1>1. /\ caller.job = "release" /\ caller.plan = <<>> /\ hand.at = "none" /\ caller' = Idle
      /\ held' = [held EXCEPT ![s] = Nothing]
      /\ UNCHANGED <<free, order, hand, saved, disturbed>>
  BY DEF Release_Ends, Finished, buddyVars
<1>2. BuddyInv' /\ RoomInv' BY <1>1, BuddyStays DEF buddyVars
<1>3. JobShape' BY OtherEndsShape
<1>4. caller'.job = "idle" BY <1>1 DEF Idle
<1>5. OwnersAgree'
  <2>1. Owners = Slots \ {s} /\ Owners' = Slots /\ Table' = Table BY <1>1, <1>4 DEF Owners, Table
  <2>2. Owns = {}
    <3>1. Len(caller.plan) = 0 BY <1>1
    <3>2. Owns = {i \in 1 .. 3 : i > 3 - 0 + 0} BY <1>1, <3>1 DEF Owns
    <3> QED BY <3>2
  <2>3. Owns' = {} BY <1>4 DEF Owns
  <2>4. s \in Slots BY <1>1 DEF JobShape, Freeing
  <2>5. held'[s] = Nothing /\ \A t \in Slots \ {s} : held'[t] = held[t]
    BY <1>1, <2>4 DEF JobShape
  <2> HIDE DEF s
  <2>6. OwnedIsLive' BY <2>1, <2>3, <2>5 DEF OwnersAgree, OwnedIsLive
  <2>7. LiveIsOwned'
    <3> SUFFICES ASSUME NEW a \in Bases, Table[a] # 0
                 PROVE  \E t \in Slots : held'[t] # Nothing /\ \E i \in 1 .. 3 : held'[t][i] = a
      BY <2>1, <2>3 DEF LiveIsOwned, Bases, Pool
    <3> QED BY <2>1, <2>2, <2>5 DEF OwnersAgree, LiveIsOwned
  <2>8. OwnedOnce' BY <2>1, <2>3, <2>5 DEF OwnersAgree, OwnedOnce
  <2> QED BY <2>6, <2>7, <2>8 DEF OwnersAgree
<1>6. SavedIsKept' BY <1>1, <1>4, SavedStays
<1>7. QuietUnlessTested' BY <1>1, <1>4, QuietStays
<1> QED BY <1>2, <1>3, <1>5, <1>6, <1>7

LEMMA TestEndsInv == ASSUME ArenaInv, Test_Ends PROVE ArenaInv'
<1> USE DEF ArenaInv
<1>1. /\ caller.job = "test" /\ hand.at = "none" /\ free' = saved.free /\ order' = saved.order
      /\ caller' = IF saved.free = FreshFree THEN Idle ELSE [Idle EXCEPT !.job = "corrupt"]
      /\ UNCHANGED <<hand, held, disturbed>>
  BY DEF Test_Ends, Finished
<1>2. BuddyInv' /\ RoomInv'
  <2>1. hand' = NoHand BY <1>1 DEF JobShape
  <2>2. Kept(saved.free, saved.order) BY <1>1 DEF SavedIsKept
  <2>3. Kept(free, order)'
    BY <1>1, <2>2 DEF Kept, Sound, Covered, Covers, Disjoint, NoPartnersFree, PartnerOf, BlocksIn,
       Marked, Bases, Orders, Pool
  <2>4. (hand = NoHand)' BY <2>1 DEF NoHand
  <2> QED BY <2>3, <2>4, KeptIsSound, PTL
<1>3. JobShape' BY OtherEndsShape
<1>4. caller'.job = IF saved.free = FreshFree THEN "idle" ELSE "corrupt" BY <1>1 DEF Idle
<1>5. OwnersAgree'
  <2>1. Owners' = Owners /\ Table' = Table BY <1>1, <1>4 DEF Owners, Table
  <2>2. caller'.job \in {"idle", "corrupt"} BY <1>4
  <2>3. Owns = {} BY <1>1 DEF Owns
  <2>4. Owns' = {} BY <2>2 DEF Owns
  <2> QED BY <1>1, <2>1, <2>3, <2>4, OwnersStay
<1>6. SavedIsKept' BY <1>4 DEF SavedIsKept
<1>7. QuietUnlessTested' BY <1>1, <1>4 DEF QuietUnlessTested
<1> QED BY <1>2, <1>3, <1>5, <1>6, <1>7

LEMMA ArenaStutterInv == ASSUME ArenaInv, UNCHANGED arenaVars PROVE ArenaInv'
<1> USE DEF ArenaInv
<1>1. /\ UNCHANGED buddyVars /\ UNCHANGED <<free, order, hand, held, caller, saved, disturbed>>
  BY DEF arenaVars, buddyVars
<1>2. BuddyInv' /\ RoomInv' BY <1>1, BuddyStays
<1>3. JobShape' BY <1>1 DEF JobShape, Acquiring, Freeing, Bases, Pool
<1>4. OwnersAgree'
  <2>1. Owners' = Owners /\ Table' = Table /\ Owns' = Owns BY <1>1 DEF Owners, Table, Owns
  <2> QED BY <1>1, <2>1, OwnersStay
<1>5. SavedIsKept' BY <1>1, SavedStays
<1>6. QuietUnlessTested' BY <1>1, QuietStays
<1> QED BY <1>2, <1>3, <1>4, <1>5, <1>6

LEMMA ArenaNextInv == ArenaInv /\ [ArenaNext]_arenaVars => ArenaInv'
BY AcquireBeginsInv, ReleaseBeginsInv, TestBeginsInv, CallsAllocInv, SplitsInv, AllocReturnsInv,
   CallsFreeInv, MergesInv, FreeReturnsInv, AcquireEndsInv, UndoEndsInv, ReleaseEndsInv,
   TestEndsInv, ArenaStutterInv DEF ArenaNext, Undefined

(* What the jobs of the arena keep: the blocks tile the pool, the three     *)
(* lists, every block that is out has one owner, and what the self-test put *)
(* aside comes back unchanged.                                              *)
THEOREM ArenaInvariant == ArenaSpec => []ArenaInv
BY ArenaInit_Inv, ArenaNextInv, PTL DEF ArenaSpec

(* Between two jobs the live blocks are exactly those of the slots, three   *)
(* different ones for each: nothing is left of an acquisition that failed   *)
(* half-way, and no slot keeps a block that went to another.                *)
THEOREM NothingEverLeaks == ArenaSpec => []NothingLeaks
<1>1. ArenaInv => NothingLeaks
  <2> SUFFICES ASSUME ArenaInv, caller.job = "idle"
               PROVE  /\ {a \in Bases : order[a] # 0} =
                           UNION {{held[s][i] : i \in DOMAIN held[s]} : s \in Slots}
                      /\ \A s, t \in Slots : \A i \in DOMAIN held[s], j \in DOMAIN held[t] :
                           held[s][i] = held[t][j] => s = t /\ i = j
    BY DEF NothingLeaks
  <2>1. JobShape /\ OwnersAgree BY DEF ArenaInv
  <2>2. Owners = Slots /\ Owns = {} /\ Table = order BY DEF Owners, Owns, Table
  <2>3. \A s \in Slots : IF held[s] = Nothing THEN DOMAIN held[s] = {}
                         ELSE DOMAIN held[s] = 1 .. 3 /\ \A i \in 1 .. 3 : held[s][i] \in Bases
    <3> SUFFICES ASSUME NEW s \in Slots
                 PROVE  IF held[s] = Nothing THEN DOMAIN held[s] = {}
                        ELSE DOMAIN held[s] = 1 .. 3 /\ \A i \in 1 .. 3 : held[s][i] \in Bases
      OBVIOUS
    <3>1. DOMAIN Nothing = {} BY DEF Nothing
    <3>2. held[s] # Nothing => held[s] \in [1 .. 3 -> Bases] BY <2>1 DEF JobShape
    <3> HIDE DEF Nothing
    <3> QED BY <3>1, <3>2
  <2>4. ASSUME NEW a \in Bases, order[a] # 0
        PROVE  \E s \in Slots : \E i \in DOMAIN held[s] : held[s][i] = a
    BY <2>1, <2>2, <2>3, <2>4 DEF OwnersAgree, LiveIsOwned
  <2>5. ASSUME NEW s \in Slots, NEW i \in DOMAIN held[s]
        PROVE  held[s] # Nothing /\ i \in 1 .. 3 /\ held[s][i] \in Bases /\ order[held[s][i]] # 0
    BY <2>1, <2>2, <2>3 DEF OwnersAgree, OwnedIsLive
  <2>6. {a \in Bases : order[a] # 0} = UNION {{held[s][i] : i \in DOMAIN held[s]} : s \in Slots}
    BY <2>4, <2>5
  <2>7. \A s, t \in Slots : \A i \in DOMAIN held[s], j \in DOMAIN held[t] :
          held[s][i] = held[t][j] => s = t /\ i = j
    BY <2>1, <2>2, <2>5 DEF OwnersAgree, OwnedOnce
  <2> QED BY <2>6, <2>7
<1> QED BY <1>1, ArenaInvariant, PTL

(* No call of a load, an unload or an undo writes a list link into a loaded *)
(* module: it writes into the block it has in hand, which nobody holds.     *)
THEOREM NobodyIsDisturbedButByTheTest == ArenaSpec => []OnlyTheTestDisturbs
<1>1. ArenaInv => OnlyTheTestDisturbs BY DEF ArenaInv, QuietUnlessTested, OnlyTheTestDisturbs
<1> QED BY <1>1, ArenaInvariant, PTL

(* The blocks stay apart and no room is hidden under the arena's own jobs   *)
(* as well, the self-test on its scratch lists and the restored lists after *)
(* it included.                                                             *)
THEOREM ArenaBlocksStayApart == ArenaSpec => [](NoOverlap /\ NoHiddenRoom)
<1>1. ArenaInv => NoOverlap BY DEF ArenaInv, BuddyInv, Sound, NoOverlap
<1>2. ArenaInv => NoHiddenRoom BY RoomIsSeen DEF ArenaInv, RoomInv
<1> QED BY <1>1, <1>2, ArenaInvariant, PTL

-----------------------------------------------------------------------------
(* The arena implements the abstract allocator. *)

LEMMA AsTheAllocator ==
  ASSUME Table = order, Table' = order', B!Next
  PROVE  A!Next
<1>1. PICK b \in B!Blocks : B!Grant(b) \/ B!GiveBack(b) BY DEF B!Next
<1>2. GrantedBy(Table) = GrantedBy(order) OBVIOUS
<1>3. GrantedBy(Table)' = GrantedBy(order)' BY DEF GrantedBy
<1>4. b \in A!Blocks BY DEF A!Blocks, B!Blocks
<1>5. B!Grant(b) => A!Grant(b) BY <1>2, <1>3 DEF A!Grant, B!Grant, A!Apart, B!Apart, Table
<1>6. B!GiveBack(b) => A!GiveBack(b) BY <1>2, <1>3 DEF A!GiveBack, B!GiveBack, Table
<1> QED BY <1>1, <1>4, <1>5, <1>6 DEF A!Next

LEMMA ArenaStepRefines ==
  ASSUME ArenaInv, [ArenaNext]_arenaVars
  PROVE  [A!Next]_(GrantedBy(IF caller.job = "test" THEN saved.order ELSE order))
<1> USE DEF ArenaInv
<1>1. ASSUME Table' = Table
      PROVE  [A!Next]_(GrantedBy(IF caller.job = "test" THEN saved.order ELSE order))
  BY <1>1 DEF GrantedBy, Table, Bases, Pool
<1>2. ASSUME caller'.job = caller.job, order' = order, saved' = saved PROVE Table' = Table
  BY <1>2 DEF Table
<1>3. ASSUME caller.job = "test", caller'.job = "test", saved' = saved PROVE Table' = Table
  BY <1>3 DEF Table
<1>4. CASE Alloc_Returns
  <2>1. caller'.job = caller.job /\ saved' = saved BY <1>4, Record DEF Alloc_Returns
  <2>2. CASE caller.job = "test" BY <1>1, <1>3, <2>1, <2>2
  <2>3. CASE caller.job # "test"
    <3>1. B!Next BY <1>4, GrantStep DEF Alloc_Returns
    <3>2. Table = order /\ Table' = order' BY <2>1, <2>3 DEF Table
    <3> QED BY <3>1, <3>2, AsTheAllocator
  <2> QED BY <2>2, <2>3
<1>5. CASE Calls_Free
  <2> DEFINE p == IF Head(caller.plan).op = "stray" THEN Arg ELSE caller.got[Arg]
  <2>1. caller'.job = caller.job /\ saved' = saved BY <1>5, Record DEF Calls_Free
  <2>2. CASE caller.job = "test" BY <1>1, <1>3, <2>1, <2>2
  <2>3. CASE caller.job # "test" /\ Free_Take(p)
    <3>1. B!Next BY <2>3, GiveBackStep
    <3>2. Table = order /\ Table' = order' BY <2>1, <2>3 DEF Table
    <3> QED BY <3>1, <3>2, AsTheAllocator
  <2>4. CASE UNCHANGED buddyVars BY <1>1, <1>2, <2>1, <2>4 DEF buddyVars
  <2> QED BY <1>5, <2>2, <2>3, <2>4 DEF Calls_Free
<1>6. CASE Calls_Alloc
  <2>1. caller'.job = caller.job /\ saved' = saved /\ order' = order
    BY <1>6, Record DEF Calls_Alloc, Alloc_Pop, buddyVars
  <2> QED BY <1>1, <1>2, <2>1
<1>7. CASE Splits \/ Merges
  BY <1>1, <1>2, <1>7 DEF Splits, Merges, Alloc_Split, Free_Merge
<1>8. CASE Free_Returns
  <2>1. caller'.job = caller.job /\ saved' = saved /\ order' = order
    BY <1>8, Record DEF Free_Returns, Free_Push
  <2> QED BY <1>1, <1>2, <2>1
<1>9. CASE Test_Begins
  <2>1. Table' = Table
    BY <1>9 DEF Test_Begins, Table, Idle
  <2> QED BY <1>1, <2>1
<1>10. CASE Test_Ends
  <2>1. /\ caller.job = "test" /\ order' = saved.order
        /\ caller' = Idle \/ caller' = [Idle EXCEPT !.job = "corrupt"]
    BY <1>10 DEF Test_Ends, Finished
  <2>2. caller'.job # "test" BY <2>1 DEF Idle
  <2>3. Table' = Table BY <2>1, <2>2 DEF Table
  <2> QED BY <1>1, <2>3
<1>11. CASE UNCHANGED arenaVars BY <1>1, <1>2, <1>11 DEF arenaVars, buddyVars
<1>12. ASSUME caller.job # "test", caller'.job # "test", order' = order PROVE Table' = Table
  BY <1>12 DEF Table
<1>13. CASE \E s \in Slots, sh \in Shapes : Acquire_Begins(s, sh)
  BY <1>1, <1>12, <1>13 DEF Acquire_Begins, buddyVars
<1>14. CASE \E s \in Slots : Release_Begins(s)
  <2>1. caller.job = "idle" /\ caller'.job = "release" /\ order' = order
    BY <1>14 DEF Release_Begins, buddyVars, Idle
  <2> QED BY <1>1, <1>12, <2>1
<1>15. CASE Acquire_Ends \/ Undo_Ends \/ Release_Ends
  <2>1. caller.job # "test" /\ order' = order
    BY <1>15 DEF Acquire_Ends, Undo_Ends, Release_Ends, Finished, buddyVars
  <2>2. caller'.job # "test"
    <3>1. CASE caller' = Idle BY <3>1 DEF Idle
    <3>2. CASE caller' = [caller EXCEPT !.job = "undo", !.plan = FreeAll]
      <4>1. PICK j, s, sh, p, g : caller = [job |-> j, slot |-> s, shape |-> sh, plan |-> p, got |-> g]
        BY DEF JobShape
      <4> QED BY <3>2, <4>1
    <3> QED BY <1>15, <3>1, <3>2 DEF Acquire_Ends, Undo_Ends, Release_Ends
  <2> QED BY <1>1, <1>12, <2>1, <2>2
<1> QED BY <1>4, <1>5, <1>6, <1>7, <1>8, <1>9, <1>10, <1>11, <1>13, <1>14, <1>15
        DEF ArenaNext, Undefined

LEMMA ArenaInitRefines == ArenaInit => A!Init
BY DEF ArenaInit, BuddyInit, FreshOrder, Idle, A!Init, GrantedBy

(* With the arena's own callers, an acquisition undone half-way and the     *)
(* self-test included, the modules see power-of-two blocks, aligned and     *)
(* shared with nobody until they are given back.                            *)
THEOREM ArenaImplementsAllocator == ArenaSpec => AllocatorSpec
<1>1. ArenaInv /\ [ArenaNext]_arenaVars =>
        [A!Next]_(GrantedBy(IF caller.job = "test" THEN saved.order ELSE order))
  BY ArenaStepRefines
<1> QED BY <1>1, ArenaInvariant, ArenaInitRefines, PTL DEF ArenaSpec, AllocatorSpec, A!Spec
=============================================================================
