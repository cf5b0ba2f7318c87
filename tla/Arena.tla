------------------------------- MODULE Arena -------------------------------
(***************************************************************************)
(* The callers of the buddy allocator: a module is given its three blocks  *)
(* or none (src/mdl/core/arena.c), gives them back, and the console's      *)
(* `buddy` command runs the allocator's self-test (buddy.c:229-325).       *)
(*                                                                         *)
(* All of it runs on the supervisor task, one call after the other.  A job *)
(* is the list of the buddy calls it has still to make; got holds what     *)
(* those before returned.  A free block holds its list link, so a push     *)
(* writes the memory at its address: disturbed records whose memory that   *)
(* was.  What the free lists are after a self-test wrote over the link of  *)
(* a block on them is undefined and is not followed further.               *)
(***************************************************************************)
EXTENDS Buddy, Sequences

CONSTANTS
  Slots,      \* the module slots
  Shapes,     \* the images' [text, data] sizes
  HeapStack,  \* HEAPSTACK_BYTES
  NoSlot

ASSUME ArenaAssumption ==
  /\ Shapes \subseteq [text : Nat, data : Nat]
  /\ HeapStack \in 1 .. Pool
  /\ NoSlot \notin Slots

VARIABLES
  held,       \* held[s]: the bases of the slot's text, data and heapstack
  caller,     \* the job under way
  saved,      \* the live state while the self-test runs
  disturbed   \* the slots whose blocks the allocator has written to

arenaVars == <<buddyVars, held, caller, saved, disturbed>>

Nothing   == <<>>
NoneSaved == [free |-> FreshFree, order |-> FreshOrder]
Idle    == [job |-> "idle", slot |-> NoSlot,
            shape |-> [text |-> 0, data |-> 0], plan |-> <<>>, got |-> <<>>]

Call(op, arg) == [op |-> op, arg |-> arg]

ArenaInit ==
  /\ BuddyInit
  /\ held = [s \in Slots |-> Nothing]
  /\ caller = Idle
  /\ saved = NoneSaved
  /\ disturbed = {}

-----------------------------------------------------------------------------
(* The jobs. *)

Needs(sh) == {BlockSize(sh.text), BlockSize(sh.data), BlockSize(HeapStack)}

\* mdl_arena_would_fit()
WouldFit(sh) == 0 \notin Needs(sh) /\ \A n \in Needs(sh) : n <= Largest

FreeAll_KeepsHeapStack == <<Call("free", 1), Call("free", 2)>>

FreeAll == <<Call("free", 1), Call("free", 2), Call("free", 3)>>

\* mdl_arena_acquire(), after the loader has asked mdl_arena_would_fit().
Acquire_Begins(s, sh) ==
  /\ caller.job = "idle"
  /\ held[s] = Nothing
  /\ WouldFit(sh)
  /\ caller' = [job |-> "acquire", slot |-> s, shape |-> sh, got |-> <<>>,
                plan |-> <<Call("alloc", sh.text), Call("alloc", sh.data),
                           Call("alloc", HeapStack)>>]
  /\ UNCHANGED <<buddyVars, held, saved, disturbed>>

\* mdl_arena_release(): nothing to do for a slot that holds nothing.
Release_Begins(s) ==
  /\ caller.job = "idle"
  /\ held[s] # Nothing
  /\ caller' = [Idle EXCEPT !.job = "release", !.slot = s, !.plan = FreeAll, !.got = held[s]]
  /\ UNCHANGED <<buddyVars, held, saved, disturbed>>

\* The calls of mdl_buddy_selftest(), in order.
Script ==
  <<Call("alloc", P[MinOrder]), Call("alloc", P[MinOrder + 2]), Call("alloc", P[MinOrder + 2] - 1),
    Call("free", 1), Call("free", 2), Call("free", 3),
    Call("stray", Null), Call("stray", 1), Call("stray", Pool + P[MinOrder]),
    Call("alloc", P[MinOrder + 1]), Call("free", 4), Call("free", 4),
    Call("alloc", Pool), Call("alloc", P[MinOrder]), Call("free", 5), Call("alloc", 2 * Pool)>>

BlocksOf(s) == IF held[s] = Nothing THEN {}
               ELSE {[at |-> held[s][i],
                      size |-> P[IF caller.job = "test" THEN saved.order[held[s][i]]
                                 ELSE order[held[s][i]]]] : i \in 1 .. 3}

\* The slots that have a block around address a, but the one being released.
Holders(a) ==
  {s \in Slots : /\ ~ (caller.job = "release" /\ caller.slot = s)
                 /\ \E b \in BlocksOf(s) : b.at <= a /\ a < b.at + b.size}

Test_Begins ==
  /\ caller.job = "idle"
  /\ saved' = [free |-> free, order |-> order]
  /\ free' = FreshFree
  /\ order' = FreshOrder
  /\ caller' = [Idle EXCEPT !.job = "test", !.plan = Script]
  /\ disturbed' = disturbed \cup Holders(0)
  /\ UNCHANGED <<hand, held>>

-----------------------------------------------------------------------------
(* The calls of a job, one after the other. *)

Next_Is(op) == hand.at = "none" /\ caller.plan # <<>> /\ Head(caller.plan).op = op
Arg         == Head(caller.plan).arg

Returns(p)   == caller' = [caller EXCEPT !.plan = Tail(caller.plan), !.got = Append(caller.got, p)]
ReturnsVoid  == caller' = [caller EXCEPT !.plan = Tail(caller.plan)]
Pushes(a)    == disturbed' = disturbed \cup Holders(a)

Calls_Alloc ==
  /\ Next_Is("alloc")
  /\ \/ Alloc_Refuses(Arg) /\ Returns(Null) /\ UNCHANGED buddyVars
     \/ Alloc_Pop(Arg) /\ UNCHANGED caller
  /\ UNCHANGED <<held, saved, disturbed>>

Splits ==
  /\ Alloc_Split
  /\ Pushes(hand.addr + P[hand.order - 1])
  /\ UNCHANGED <<held, caller, saved>>

Alloc_Returns ==
  /\ Alloc_Return
  /\ Returns(hand.addr)
  /\ UNCHANGED <<held, saved, disturbed>>

Calls_Free ==
  /\ Next_Is("free") \/ Next_Is("stray")
  /\ LET p == IF Head(caller.plan).op = "stray" THEN Arg ELSE caller.got[Arg]
     IN  \/ Free_Take(p) /\ UNCHANGED caller
         \/ ~ IsLive(p) /\ ReturnsVoid /\ UNCHANGED buddyVars
  /\ UNCHANGED <<held, saved, disturbed>>

Merges == Free_Merge /\ UNCHANGED <<held, caller, saved, disturbed>>

Free_Returns ==
  /\ Free_Push
  /\ Pushes(hand.addr)
  /\ ReturnsVoid
  /\ UNCHANGED <<held, saved>>

-----------------------------------------------------------------------------
(* The end of a job. *)

Finished(job) == caller.job = job /\ caller.plan = <<>> /\ hand.at = "none"

Acquire_Ends ==
  /\ Finished("acquire")
  /\ IF \E i \in 1 .. 3 : caller.got[i] = Null
     THEN /\ caller' = [caller EXCEPT !.job = "undo", !.plan = FreeAll]
          /\ UNCHANGED held
     ELSE /\ held' = [held EXCEPT ![caller.slot] = caller.got]
          /\ caller' = Idle
  /\ UNCHANGED <<buddyVars, saved, disturbed>>

Undo_Ends ==
  /\ Finished("undo")
  /\ caller' = Idle
  /\ UNCHANGED <<buddyVars, held, saved, disturbed>>

Release_Ends ==
  /\ Finished("release")
  /\ held' = [held EXCEPT ![caller.slot] = Nothing]
  /\ caller' = Idle
  /\ UNCHANGED <<buddyVars, saved, disturbed>>

\* The saved heads are restored; the links are whatever the test left there.
Test_Ends ==
  /\ Finished("test")
  /\ free' = saved.free
  /\ order' = saved.order
  /\ saved' = NoneSaved
  /\ caller' = IF saved.free = FreshFree THEN Idle ELSE [Idle EXCEPT !.job = "corrupt"]
  /\ UNCHANGED <<hand, held, disturbed>>

\* What the allocator does with broken lists is not modelled.
Undefined == caller.job = "corrupt" /\ UNCHANGED arenaVars

ArenaNext ==
  \/ \E s \in Slots, sh \in Shapes : Acquire_Begins(s, sh)
  \/ \E s \in Slots : Release_Begins(s)
  \/ Test_Begins
  \/ Calls_Alloc \/ Splits \/ Alloc_Returns
  \/ Calls_Free \/ Merges \/ Free_Returns
  \/ Acquire_Ends \/ Undo_Ends \/ Release_Ends \/ Test_Ends
  \/ Undefined

ArenaSpec == ArenaInit /\ [][ArenaNext]_arenaVars

-----------------------------------------------------------------------------
(* Properties. *)

(* Between two jobs the live blocks are exactly the blocks of the slots,    *)
(* three of its own for each: an acquisition that failed half-way has left  *)
(* nothing behind (arena.c:78-86), and no slot keeps a bound of a block     *)
(* that went to another (arena.c:115-123).                                  *)
NothingLeaks ==
  caller.job = "idle" =>
    /\ {a \in Bases : order[a] # 0} = UNION {{held[s][i] : i \in DOMAIN held[s]} : s \in Slots}
    /\ \A s, t \in Slots : \A i \in DOMAIN held[s], j \in DOMAIN held[t] :
         held[s][i] = held[t][j] => s = t /\ i = j

A == INSTANCE Allocator
     WITH Addresses <- Bases,
          granted <- GrantedBy(IF caller.job = "test" THEN saved.order ELSE order)

(* The allocator, its loops and the self-test included, implements what     *)
(* buddy.h promises of it: power-of-two blocks, aligned, shared with nobody *)
(* until given back (buddy.h:49-75).                                        *)
AllocatorSpec == A!Spec

(* The allocator keeps its lists inside the free blocks, and no call of a  *)
(* load, an unload or an undo writes through one into a loaded module.  The *)
(* self-test does, on the pool the modules live in, though buddy.h:95-97    *)
(* says it cannot: it is the only job after which a slot is disturbed.      *)
OnlyTheTestDisturbs == caller.job \notin {"test", "corrupt"} => disturbed = {}
=============================================================================
