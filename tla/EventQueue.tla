----------------------------- MODULE EventQueue ------------------------------
(***************************************************************************)
(* The event queue of one slot (src/mdl/host/host_events.c): a ring of     *)
(* records with its statistics.  The interrupt handlers share one          *)
(* priority, and every task takes the queue in a critical section, so each *)
(* operation is one step.  Left out: the time stamps and the rate window.  *)
(***************************************************************************)
EXTENDS Naturals, Sequences

CONSTANTS
  Sources,    \* the pins and UARTs a slot may declare
  Console,    \* MDL_EVT_CONSOLE
  NoSource,   \* MDL_EVT_NONE, what the zeroed ring holds at boot
  Values,     \* payloads
  QueueMax,   \* MDL_EVT_QUEUE_MAX
  MaxMerged,  \* 0xFFFF, the range of a record's count
  Wrap        \* 2^32, the range of the statistics

ASSUME QueueAssumption ==
  /\ QueueMax \in Nat \ {0}
  /\ MaxMerged \in Nat \ {0}
  /\ Wrap \in Nat \ {0, 1}
  /\ Console \notin Sources /\ NoSource \notin Sources
  /\ 0 \in Values

VARIABLES
  q,          \* the ring
  head, tail, count, depth,
  delivered, lost, coalesced,
  raised,     \* what came in since the reset and was not thrown away; not in the code
  newest      \* what each source showed last; not in the code

stats == <<delivered, lost, coalesced, raised>>
vars  == <<q, head, tail, count, depth, stats, newest>>

Indices == 0 .. QueueMax - 1
Record  == [src : Sources \cup {Console, NoSource}, n : 0 .. MaxMerged, val : Values]
Counter == 0 .. Wrap - 1

TypeOK ==
  /\ q \in [Indices -> Record]
  /\ head \in Indices /\ tail \in Indices
  /\ depth \in 1 .. QueueMax
  /\ count \in 0 .. depth
  /\ delivered \in Counter /\ lost \in Counter /\ coalesced \in Counter
  /\ raised \in Counter
  /\ newest \in [Sources -> Values]

-----------------------------------------------------------------------------

\* An index on the ring, and the index of the k-th record that waits.
Up(i)   == IF i = QueueMax - 1 THEN 0 ELSE i + 1
Slot(k) == IF head + k - 1 < QueueMax THEN head + k - 1 ELSE head + k - 1 - QueueMax

Plus(x, k) == (x + k) % Wrap

Holding(src) == {i \in {Slot(k) : k \in 1 .. count} : q[i].src = src}

Init ==
  /\ q = [i \in Indices |-> [src |-> NoSource, n |-> 0, val |-> 0]]
  /\ head = 0 /\ tail = 0 /\ count = 0 /\ depth = QueueMax
  /\ delivered = 0 /\ lost = 0 /\ coalesced = 0 /\ raised = 0
  /\ newest = [s \in Sources |-> 0]

\* mdl_events_reset() with the depth the image declared.
Reset(d) ==
  /\ head' = 0 /\ tail' = 0 /\ count' = 0
  /\ depth' = IF d = 0 \/ d > QueueMax THEN QueueMax ELSE d
  /\ delivered' = 0 /\ lost' = 0 /\ coalesced' = 0 /\ raised' = 0
  /\ UNCHANGED <<q, newest>>

\* The record is written at the tail.
Push(src, v) ==
  /\ q' = [q EXCEPT ![tail] = [src |-> src, n |-> 1, val |-> v]]
  /\ tail' = Up(tail) /\ count' = count + 1
  /\ UNCHANGED <<head, depth>>

(* post_from_isr() *)

Raise(src, v) == raised' = Plus(raised, 1) /\ newest' = [newest EXCEPT ![src] = v]

\* One more occurrence in a record that waits; its count saturates.
Again(r, v) == [src |-> r.src, n |-> IF r.n < MaxMerged THEN r.n + 1 ELSE r.n, val |-> v]

Merge_OldestValue(src, v) ==
  /\ \E i \in Holding(src) : q' = [q EXCEPT ![i] = Again(@, @.val)]
  /\ coalesced' = Plus(coalesced, 1)
  /\ Raise(src, v)
  /\ UNCHANGED <<head, tail, count, depth, delivered, lost>>

Merge(src, v) ==
  /\ \E i \in Holding(src) : q' = [q EXCEPT ![i] = Again(@, v)]
  /\ coalesced' = Plus(coalesced, 1)
  /\ Raise(src, v)
  /\ UNCHANGED <<head, tail, count, depth, delivered, lost>>

Lose(src, v) ==
  /\ Holding(src) = {} /\ count >= depth
  /\ lost' = Plus(lost, 1)
  /\ Raise(src, v)
  /\ UNCHANGED <<q, head, tail, count, depth, delivered, coalesced>>

Add_IfRingHasRoom(src, v) ==
  /\ Holding(src) = {} /\ count < QueueMax
  /\ Push(src, v)
  /\ Raise(src, v)
  /\ UNCHANGED <<delivered, lost, coalesced>>

Add(src, v) ==
  /\ Holding(src) = {} /\ count < depth
  /\ Push(src, v)
  /\ Raise(src, v)
  /\ UNCHANGED <<delivered, lost, coalesced>>

\* mdl_events_post_console(); its refusal changes nothing.
PostConsole ==
  /\ count < depth
  /\ Push(Console, 0)
  /\ raised' = Plus(raised, 1)
  /\ UNCHANGED <<newest, delivered, lost, coalesced>>

\* mdl_events_take() with a record in the queue.
Take_Uncounted ==
  /\ count > 0
  /\ head' = Up(head) /\ count' = count - 1
  /\ UNCHANGED <<q, tail, depth, stats, newest>>

Take ==
  /\ count > 0
  /\ head' = Up(head) /\ count' = count - 1
  /\ delivered' = Plus(delivered, 1)
  /\ UNCHANGED <<q, tail, depth, lost, coalesced, raised, newest>>

\* mdl_events_disarm_slot() empties the queue and keeps the statistics.
Disarm ==
  /\ head' = 0 /\ tail' = 0 /\ count' = 0
  /\ raised' = Plus(delivered, Plus(lost, coalesced))
  /\ UNCHANGED <<q, depth, delivered, lost, coalesced, newest>>

Next ==
  \/ \E d \in 0 .. QueueMax : Reset(d)
  \/ \E s \in Sources, v \in Values : Merge(s, v) \/ Lose(s, v) \/ Add(s, v)
  \/ PostConsole \/ Take \/ Disarm

Spec == Init /\ [][Next]_vars

-----------------------------------------------------------------------------
(* Properties *)

(* host_events.c:70,154-155,206-207: three numbers describe the ring, and  *)
(* every operation keeps them in agreement, wherever the ring wraps and    *)
(* however small the slot's own depth is.                                  *)
IndicesAgree == tail = (head + count) % QueueMax

(* host_events.c:97-108: a source is merged and never queued twice, so a   *)
(* busy line takes one record however often it fires.                      *)
OneRecordPerSource ==
  \A j, k \in 1 .. count :
    q[Slot(j)].src = q[Slot(k)].src /\ q[Slot(j)].src \in Sources => j = k

(* host_events.c:140-142 "counted and reported -- never silently dropped": *)
(* what came in is delivered, waits, was merged or was counted as lost.    *)
NothingIsUncounted ==
  raised = Plus(delivered, Plus(count, Plus(coalesced, lost)))

Stream == INSTANCE EventStream WITH
  pending <- [k \in 1 .. count |-> q[Slot(k)]],
  room    <- depth

(* mdl_format.h:200-243: the ring delivers the stream of events.           *)
DeliversTheStream == Stream!Spec

=============================================================================
