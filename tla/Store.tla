-------------------------------- MODULE Store --------------------------------
(***************************************************************************)
(* What src/mdl/core/persist.h promises of the flash store, whatever its   *)
(* layout: a keyed set of images that a save replaces in one step, at any  *)
(* power cut.  Of a forget it promises less: while the set before the last *)
(* save is still in flash (shadow), a forget that is cut short may leave   *)
(* that older set behind.                                                  *)
(***************************************************************************)
CONSTANT Images

VARIABLES saved,   \* the set that a boot restores
          shadow,  \* an older set that is still in flash, or the empty set
          busy     \* "no", "save" or "forget"

Init == saved = {} /\ shadow = {} /\ busy = "no"

\* A call begins, fails, ends or is cut short.
Call == busy' \in {"no", "save", "forget"} /\ UNCHANGED <<saved, shadow>>

Commit(i) ==
  /\ busy = "save"
  /\ saved'  = {j \in saved : j.name # i.name} \cup {i}
  /\ shadow' = saved
  /\ busy' \in {"no", "save"}

\* The older set is erased.
Settle == shadow' = {} /\ saved' = saved /\ busy' \in {"no", busy}

\* The newer set is erased first.
Expose ==
  /\ busy = "forget"
  /\ saved' = shadow /\ shadow' = {} /\ busy' \in {"no", busy}

Next == Call \/ (\E i \in Images : Commit(i)) \/ Settle \/ Expose

Spec == Init /\ [][Next]_<<saved, shadow, busy>>

=============================================================================
