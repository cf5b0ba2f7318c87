-------------------------------- MODULE Heap --------------------------------
(***************************************************************************)
(* A module's own pool, alloc() and free() of src/mdl/host/host_api.c.     *)
(*                                                                         *)
(* Addresses are offsets from heap_stack_lo.  The pool lies between the    *)
(* argument block and the guard; a block is a header and the memory the    *)
(* module gets.  The headers are in the pool too: hdr[a] is the header at  *)
(* a, whatever its history.  Sizes are size_t: they wrap at SizeMod.       *)
(* The module does not write outside what it was given.  It may give a     *)
(* block back twice, or any other pointer into its heap: one into the      *)
(* argument block, into the middle of a block, or not aligned.  What is    *)
(* read there as a header is text or data, and it changes with them.       *)
(***************************************************************************)
EXTENDS Integers, FiniteSets

CONSTANTS
  HeapSize,   \* MDL_HEAP_SIZE
  ArgSize,    \* MDL_ARGBLOCK_SIZE
  Header,     \* BLK_HDR_SIZE, and what sizes are rounded up to
  SizeMod,    \* 2^32
  Requests,   \* what the module asks for
  Garbage,    \* what text or data reads as a size
  MaxOwners,  \* bound: so many owners think a block is theirs
  MaxMisuse   \* bound: so often it gives back what is not its own

ASSUME HeapAssumption ==
  /\ Header \in Nat \ {0} /\ ArgSize \in Nat /\ HeapSize \in Nat /\ SizeMod \in Nat
  /\ ArgSize % Header = 0 /\ HeapSize % Header = 0 /\ SizeMod % Header = 0
  /\ ArgSize < HeapSize /\ HeapSize + Header < SizeMod
  /\ Requests \subseteq 0 .. SizeMod - 1
  /\ Garbage \subseteq 0 .. SizeMod - 1 /\ MaxMisuse \in Nat /\ MaxOwners \in Nat \ {0}

VARIABLES
  top,       \* pool_next
  list,      \* free_list, or None
  hdr,       \* the headers in the pool's memory
  loose,     \* where a header may lie in text, in data or in another header
  owned,     \* owned[p]: how many owners in the module think p is theirs
  misused,   \* how often it gave back what was not its own, or not any more
  wrapped,   \* a request has wrapped around; what follows is not modelled
  astray     \* host_alloc() read a header outside the heap; nor is this

heapVars == <<top, list, hdr, loose, owned, misused, wrapped, astray>>

None      == -1
Elsewhere == -2                            \* an address outside the heap
Unused    == [next |-> None, size |-> None]   \* never was a header

\* The last cell is the first of the guard.
Cells == {a \in 0 .. HeapSize : a % Header = 0}

\* host_api_pool_reset(); what the memory held before does not matter.
HeapInit ==
  /\ top = ArgSize
  /\ list = None
  /\ hdr = [a \in Cells |-> Unused]
  /\ owned = [a \in Cells |-> 0]
  /\ loose = {} /\ misused = 0 /\ wrapped = FALSE /\ astray = FALSE

HeapReset ==
  /\ top' = ArgSize
  /\ list' = None
  /\ hdr' = [a \in Cells |-> Unused]
  /\ owned' = [a \in Cells |-> 0]
  /\ loose' = {} /\ misused' = 0 /\ wrapped' = FALSE /\ astray' = FALSE

-----------------------------------------------------------------------------
(* host_alloc() *)

Sum(a, b) == (a + b) % SizeMod

\* (n + 7) & ~7
Rounded(n) == LET r == Sum(n, Header - 1) IN r - (r % Header)

Wraps(n) == wrapped' = (wrapped \/ Rounded(n) < n \/ Rounded(n) + Header >= SizeMod)

After(b) == IF b \in Cells THEN hdr[b].next ELSE None

\* nth[k]: the k-th block of the list, or None past its end.
Nth == LET nth[k \in 0 .. Cardinality(Cells)] == IF k = 0 THEN list ELSE After(nth[k - 1])
       IN nth

\* The first block that is large enough is the k-th.  On a list that runs in
\* a circle and has none the search never ends: the call does not return.
Fits(b, n)        == b \in Cells /\ hdr[b].size >= n
IsFirstFit(k, n)  == Fits(Nth[k], n) /\ \A j \in 0 .. k - 1 : ~ Fits(Nth[j], n)
EndsAt(b, n)      == \E k \in DOMAIN Nth : /\ Nth[k] = b
                                          /\ \A j \in 0 .. k - 1 : Nth[j] \in Cells /\ ~ Fits(Nth[j], n)
NoneFits(n)       == EndsAt(None, n)

Gives(b) == owned[b] < MaxOwners /\ owned' = [owned EXCEPT ![b] = owned[b] + 1]

Alloc_FromList_Keeps(n) ==
  /\ n # 0
  /\ \E k \in DOMAIN Nth :
       /\ IsFirstFit(k, Rounded(n))
       /\ Gives(Nth[k])
  /\ Wraps(n)
  /\ UNCHANGED <<top, list, hdr, loose, misused, astray>>

Alloc_FromList(n) ==
  /\ n # 0
  /\ \E k \in DOMAIN Nth :
       /\ IsFirstFit(k, Rounded(n))
       /\ IF k = 0
          THEN list' = hdr[list].next /\ hdr' = hdr
          ELSE hdr' = [hdr EXCEPT ![Nth[k - 1]].next = hdr[Nth[k]].next] /\ list' = list
       /\ Gives(Nth[k])
  /\ Wraps(n)
  /\ UNCHANGED <<top, loose, misused, astray>>

Room_ChecksStart(n) == top <= HeapSize

\* pool_end - pool_next is compared with a sum that may wrap.
Room(n) == HeapSize - top >= Sum(Rounded(n), Header)

\* With a sum that wrapped to 0 the header may be the first words of the guard.
Alloc_Fresh(n) ==
  /\ n # 0
  /\ NoneFits(Rounded(n))
  /\ Room(n)
  /\ hdr' = [hdr EXCEPT ![top] = [next |-> None, size |-> Rounded(n)]]
  /\ top' = top + Sum(Rounded(n), Header)
  /\ Gives(top)
  /\ Wraps(n)
  /\ UNCHANGED <<list, loose, misused, astray>>

\* The search goes on to a header outside the heap: it may end anywhere.
Alloc_Astray(n) ==
  /\ n # 0
  /\ EndsAt(Elsewhere, Rounded(n))
  /\ astray' = TRUE
  /\ UNCHANGED <<top, list, hdr, loose, owned, misused, wrapped>>

-----------------------------------------------------------------------------
(* host_free() *)

\* The header must lie in the heap; nothing else is asked.
IsAccepted(b) == b \in 0 .. HeapSize - Header

Pushes(b, size) ==
  /\ hdr' = [hdr EXCEPT ![b] = [next |-> list, size |-> size]]
  /\ list' = b

WasHeader == {b \in Cells : hdr[b].size # None}

\* A block the module owns, or has owned.
Free(b) ==
  /\ IsAccepted(b)
  /\ b \in WasHeader \ loose
  /\ Pushes(b, hdr[b].size)
  /\ owned' = [owned EXCEPT ![b] = IF owned[b] > 0 THEN owned[b] - 1 ELSE 0]
  /\ misused' = IF owned[b] = 0 THEN misused + 1 ELSE misused
  /\ misused' <= MaxMisuse
  /\ UNCHANGED <<top, loose, wrapped, astray>>

\* The cells that header is in, and those of the memory it stands for.
Covers(b, size) == {a \in Cells : b <= a /\ a < b + 2 * Header + size}

\* Any other pointer.  One that is not aligned stands with the cell its header
\* begins in; the header is in the next cell too.
Free_Foreign(b) ==
  /\ IsAccepted(b)
  /\ \E size \in Garbage : Pushes(b, size) /\ loose' = loose \cup Covers(b, size)
  /\ misused < MaxMisuse /\ misused' = misused + 1
  /\ UNCHANGED <<top, owned, wrapped, astray>>

\* The arguments of the next command (mdl_post_module_command()), or what the
\* module writes in its own blocks.  An address is in the heap, or not.
Rewrite(b) ==
  /\ b \in loose /\ b \in {Nth[k] : k \in DOMAIN Nth}
  /\ \E next \in {None, ArgSize, Elsewhere}, size \in Garbage :
       /\ hdr' = [hdr EXCEPT ![b] = [next |-> next, size |-> size]]
       /\ loose' = loose \cup Covers(b, size)
  /\ misused < MaxMisuse /\ misused' = misused + 1
  /\ UNCHANGED <<top, list, owned, wrapped, astray>>

HeapNext ==
  \/ /\ ~ wrapped /\ ~ astray
     /\ \/ \E n \in Requests : Alloc_FromList(n) \/ Alloc_Fresh(n) \/ Alloc_Astray(n)
        \/ \E b \in Cells : Free(b) \/ Free_Foreign(b) \/ Rewrite(b)
  \/ HeapReset

HeapSpec == HeapInit /\ [][HeapNext]_heapVars

-----------------------------------------------------------------------------
(* Properties. *)

OnList == {Nth[k] : k \in DOMAIN Nth} \ {None}
Owned  == {b \in Cells : owned[b] > 0}
Blocks == OnList \cup Owned
End(b) == b + Header + hdr[b].size

(* As long as the module gives back only what is its own, once, and asks    *)
(* for nothing that wraps, the pool up to pool_next is tiled by its blocks: *)
(* each either has one owner or is on the list once, none is lost, and the  *)
(* argument block and the guard are in none (host_api.c:702-711, 719-752).  *)
PoolIsTiled ==
  misused = 0 /\ ~ wrapped =>
    /\ OnList \cap Owned = {} /\ \A b \in Owned : owned[b] = 1
    /\ Nth[Cardinality(Cells)] = None
    /\ \A b, c \in Blocks : b < c => End(b) <= c
    /\ \A b \in Blocks : End(b) = top \/ End(b) \in Blocks
    /\ ArgSize = top \/ ArgSize \in Blocks
    /\ \A b \in Blocks : ArgSize <= b
    /\ top <= HeapSize

(* A block given back twice damages nothing but the sharing (host_api.c:    *)
(* 770-776): as long as the module gives back no foreign pointer and asks   *)
(* for nothing that wraps, each block it is handed out is between the       *)
(* argument block and pool_next, inside its own heap, and no other header   *)
(* is in it.                                                                *)
DamageIsContained ==
  loose = {} /\ ~ wrapped =>
    /\ ~ astray
    /\ \A b \in Owned : ArgSize <= b /\ End(b) <= top
    /\ \A b \in Owned, c \in WasHeader : b < c => End(b) <= c
    /\ top <= HeapSize

(* "Freeing a foreign or already-freed pointer is rejected by the host's    *)
(* bookkeeping (parameter validation, M2) rather than corrupting the pool"  *)
(* (host_api.h:327-329), and what is not caught is "contained entirely      *)
(* within its own pool, never past it" (host_api.c:774-775).  The code does *)
(* not do so.                                                               *)
AllocStaysInTheHeap == ~ wrapped => ~ astray
=============================================================================
