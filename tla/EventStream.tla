----------------------------- MODULE EventStream -----------------------------
(***************************************************************************)
(* What src/mdl/core/mdl_format.h:200-243 promises a module of its events: *)
(* they arrive in the order in which their sources first raised them, one  *)
(* record per source, with the newest payload and the number of            *)
(* occurrences in it; what does not fit is counted as lost.                *)
(***************************************************************************)
EXTENDS Naturals, Sequences

CONSTANTS Sources, Console, Values, MaxMerged, Wrap

VARIABLES pending,  \* the records that wait, oldest first
          room,     \* how many records may wait
          lost,     \* occurrences that found no room, modulo Wrap
  newest    \* what each source showed last

Fresh(src, v)  == [src |-> src, n |-> 1, val |-> v]
Merged(r, v)   == [src |-> r.src, n |-> IF r.n = MaxMerged THEN MaxMerged ELSE r.n + 1, val |-> v]
Waits(src)     == \E k \in 1 .. Len(pending) : pending[k].src = src

Init ==
  pending = <<>> /\ room \in Nat /\ lost = 0 /\ newest \in [Sources -> Values]

\* A load gives the slot a queue of its own depth.
Begin == pending' = <<>> /\ room' \in Nat /\ lost' = 0 /\ UNCHANGED newest

Occurs(src, v) ==
  /\ \/ \E k \in 1 .. Len(pending) :
          /\ pending[k].src = src
          /\ pending' = [pending EXCEPT ![k] = Merged(@, v)] /\ lost' = lost
     \/ /\ ~Waits(src) /\ Len(pending) < room
        /\ pending' = Append(pending, Fresh(src, v)) /\ lost' = lost
     \/ /\ ~Waits(src) /\ Len(pending) >= room
        /\ pending' = pending /\ lost' = (lost + 1) % Wrap
  /\ newest' = [newest EXCEPT ![src] = v]
  /\ UNCHANGED room

\* A console command is never merged, and never lost silently.
Command(v) ==
  /\ Len(pending) < room
  /\ pending' = Append(pending, Fresh(Console, v))
  /\ UNCHANGED <<room, lost, newest>>

Take == pending # <<>> /\ pending' = Tail(pending) /\ UNCHANGED <<room, lost, newest>>

End == pending' = <<>> /\ UNCHANGED <<room, lost, newest>>

Next ==
  \/ Begin
  \/ \E src \in Sources, v \in Values : Occurs(src, v)
  \/ \E v \in Values : Command(v)
  \/ Take \/ End

Spec == Init /\ [][Next]_<<pending, room, lost, newest>>

=============================================================================
