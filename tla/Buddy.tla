------------------------------- MODULE Buddy -------------------------------
(***************************************************************************)
(* The buddy allocator of the module arena (src/mdl/core/buddy.c).         *)
(*                                                                         *)
(* Addresses are offsets from s_base.  A free list is the set of the       *)
(* blocks on it: pop takes any of them where the code takes the one pushed *)
(* last.  The loops of alloc and free run one turn at a time, with the     *)
(* block they work on in `hand`: it is on no free list and in no entry of  *)
(* s_order.  That no step can push a block that already is on a list is    *)
(* part of NoOverlap.                                                      *)
(***************************************************************************)
EXTENDS Integers, FiniteSets

CONSTANTS
  MinOrder, MaxOrder,  \* MDL_BUDDY_MIN_ORDER, MDL_BUDDY_MAX_ORDER
  P                    \* P[k]: the bytes of a block of order k, 1 << k

Orders == MinOrder .. MaxOrder

ASSUME OrdersAssumption ==
  /\ MinOrder \in Nat \ {0}
  /\ MaxOrder \in Nat
  /\ MinOrder <= MaxOrder
  /\ P \in [Orders -> Nat \ {0}]
  /\ \A k \in Orders : k < MaxOrder => P[k + 1] = 2 * P[k]
  /\ \A k \in Orders : P[k] % P[MinOrder] = 0

Pool  == P[MaxOrder]                                   \* MDL_BUDDY_POOL_SIZE
Bases == {a \in 0 .. Pool - 1 : a % P[MinOrder] = 0}   \* where a block may start
Null  == -1

VARIABLES
  free,    \* free[k]: the blocks of order k that are free, s_free
  order,   \* order[a]: the order of the live block that starts at a, or 0; s_order
  hand     \* the block a call is splitting or merging

buddyVars == <<free, order, hand>>

NoHand == [at |-> "none", addr |-> 0, order |-> MinOrder, want |-> MinOrder]

BuddyTypeOK ==
  /\ free \in [Orders -> SUBSET Bases]
  /\ order \in [Bases -> Orders \cup {0}]
  /\ hand \in [at : {"none", "split", "merge"}, addr : Bases,
               order : Orders, want : Orders]

\* mdl_buddy_init(): one block of the largest order.
FreshFree  == [k \in Orders |-> IF k = MaxOrder THEN {0} ELSE {}]
FreshOrder == [a \in Bases |-> 0]

BuddyInit == free = FreshFree /\ order = FreshOrder /\ hand = NoHand

-----------------------------------------------------------------------------
(* Sizes. *)

\* order_for(): k is the smallest order that holds n bytes, none past the pool.
IsOrderFor(k, n) == k \in Orders /\ n <= P[k] /\ \A j \in Orders : j < k => P[j] < n

\* mdl_buddy_block_size()
BlockSize(n) == IF n > Pool THEN 0 ELSE P[CHOOSE k \in Orders : IsOrderFor(k, n)]

\* mdl_buddy_stats(): the largest block on a free list.
Largest == IF \A k \in Orders : free[k] = {} THEN 0
           ELSE P[CHOOSE k \in Orders : free[k] # {} /\ \A j \in Orders : j > k => free[j] = {}]

PartnerOf_AlwaysUpper(a, k) == a + P[k]

\* The partner half of the block of order k at a: addr ^ (1 << order).
PartnerOf(a, k) == IF a % (2 * P[k]) = 0 THEN a + P[k] ELSE a - P[k]

-----------------------------------------------------------------------------
(* mdl_buddy_alloc() *)

\* have: the smallest order from want up that has a free block.
IsSmallestWithRoom(have, want) ==
  /\ have \in want .. MaxOrder
  /\ free[have] # {}
  /\ \A k \in want .. MaxOrder : k < have => free[k] = {}

Alloc_Refuses(n) ==
  \/ n = 0
  \/ n > Pool
  \/ \E want \in Orders : IsOrderFor(want, n) /\ \A k \in want .. MaxOrder : free[k] = {}

Alloc_Pop(n) ==
  /\ hand.at = "none"
  /\ n # 0
  /\ \E want, have \in Orders :
       /\ IsOrderFor(want, n)
       /\ IsSmallestWithRoom(have, want)
       /\ \E a \in free[have] :
            /\ free' = [free EXCEPT ![have] = free[have] \ {a}]
            /\ hand' = [at |-> "split", addr |-> a, order |-> have, want |-> want]
  /\ UNCHANGED order

Alloc_Split_PushesLower ==
  /\ hand.at = "split"
  /\ hand.order > hand.want
  /\ LET k == hand.order - 1
     IN  /\ free' = [free EXCEPT ![k] = free[k] \cup {hand.addr}]
         /\ hand' = [at |-> "split", addr |-> hand.addr, order |-> k, want |-> hand.want]
  /\ UNCHANGED order

\* The upper half goes back on its list.
Alloc_Split ==
  /\ hand.at = "split"
  /\ hand.order > hand.want
  /\ LET k == hand.order - 1
     IN  /\ free' = [free EXCEPT ![k] = free[k] \cup {hand.addr + P[k]}]
         /\ hand' = [at |-> "split", addr |-> hand.addr, order |-> k, want |-> hand.want]
  /\ UNCHANGED order

Alloc_Return ==
  /\ hand.at = "split"
  /\ hand.order = hand.want
  /\ order' = [order EXCEPT ![hand.addr] = hand.want]
  /\ hand' = NoHand
  /\ UNCHANGED free

-----------------------------------------------------------------------------
(* mdl_buddy_free() *)

\* Only the base of a live block is acted on.
IsLive(p) == p \in Bases /\ order[p] # 0

Free_Take(p) ==
  /\ hand.at = "none"
  /\ IsLive(p)
  /\ hand' = [at |-> "merge", addr |-> p, order |-> order[p], want |-> MinOrder]
  /\ order' = [order EXCEPT ![p] = 0]
  /\ UNCHANGED free

PartnerIsFree_OnlyUpper ==
  /\ hand.order < MaxOrder
  /\ PartnerOf(hand.addr, hand.order) \in free[hand.order]
  /\ PartnerOf(hand.addr, hand.order) > hand.addr

PartnerIsFree_NotInUse ==
  hand.order < MaxOrder /\ order[PartnerOf(hand.addr, hand.order)] = 0

PartnerIsFree ==
  hand.order < MaxOrder /\ PartnerOf(hand.addr, hand.order) \in free[hand.order]

Free_Merge ==
  /\ hand.at = "merge"
  /\ PartnerIsFree
  /\ LET k == hand.order
         b == PartnerOf(hand.addr, k)
     IN  /\ free' = [free EXCEPT ![k] = free[k] \ {b}]
         /\ hand' = [at |-> "merge", addr |-> IF b < hand.addr THEN b ELSE hand.addr,
                     order |-> k + 1, want |-> MinOrder]
  /\ UNCHANGED order

Free_Push ==
  /\ hand.at = "merge"
  /\ ~ PartnerIsFree
  /\ free' = [free EXCEPT ![hand.order] = free[hand.order] \cup {hand.addr}]
  /\ hand' = NoHand
  /\ UNCHANGED order

-----------------------------------------------------------------------------
(* A client that allocates any size and frees anything at all. *)

BuddyNext ==
  \/ \E n \in Nat : Alloc_Pop(n)
  \/ Alloc_Split
  \/ Alloc_Return
  \/ \E p \in Int : Free_Take(p)
  \/ Free_Merge
  \/ Free_Push

BuddySpec == BuddyInit /\ [][BuddyNext]_buddyVars

-----------------------------------------------------------------------------
(* Properties. *)

\* A block, with where it is from: a free list, the table or a call's hand.
Marked == {"free", "live", "hand"} \X Bases \X Orders

AllBlocks ==
  {x \in Marked : \/ x[1] = "free" /\ x[2] \in free[x[3]]
                  \/ x[1] = "live" /\ order[x[2]] = x[3]
                  \/ x[1] = "hand" /\ hand.at # "none" /\ x[2] = hand.addr /\ x[3] = hand.order}

Disjoint(x, y) == x[2] + P[x[3]] <= y[2] \/ y[2] + P[y[3]] <= x[2]

(* Every block is aligned to its own size and inside the pool: an MPU       *)
(* region can cover exactly a block (arena.c:16-20, buddy.h:12-19).         *)
Aligned == \A x \in AllBlocks : x[2] % P[x[3]] = 0 /\ x[2] + P[x[3]] <= Pool

(* No two blocks share a byte, whatever they are: free, handed out or in    *)
(* the hands of a call that splits or merges (buddy.c:100-137, 139-178).    *)
(* What a module holds is never on a free list, and no free list ever holds *)
(* a block twice or a block and its half.                                   *)
NoOverlap == \A x, y \in AllBlocks : x # y => Disjoint(x, y)

(* Between two calls the pool has no room the allocator cannot see: if no   *)
(* list from order k up has a block, then every aligned range of 2^k bytes  *)
(* holds part of a live block.  This is what coalescing is for              *)
(* (buddy.c:162-165): a refused load is refused for lack of room, never for *)
(* rubble left by earlier unloads.                                          *)
NoHiddenRoom ==
  hand.at = "none" =>
    \A k \in Orders :
      (\A j \in k .. MaxOrder : free[j] = {}) =>
        \A a \in Bases : a % P[k] = 0 =>
          \E b \in Bases : order[b] # 0 /\ b < a + P[k] /\ a < b + P[order[b]]

\* Handed-out memory as a client sees it, from a table of live blocks.
GrantedBy(table) == {[at |-> a, size |-> P[table[a]]] : a \in {b \in Bases : table[b] # 0}}

B == INSTANCE Allocator WITH Addresses <- Bases, granted <- GrantedBy(order)
=============================================================================
