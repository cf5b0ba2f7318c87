-------------------------- MODULE SupervisorProofs --------------------------
(***************************************************************************)
(* The safety invariants of the supervisor, for every number of slots,     *)
(* every set of images, every arena and every set of tasks.                *)
(***************************************************************************)
EXTENDS Supervisor, FiniteSetTheorems, TLAPS

(* The invariants that the runs check one by one are inductive together.   *)
IInv ==
  /\ TypeOK /\ HandlesAgree /\ ArenaExclusive /\ PinsExclusive
  /\ NamesUnique /\ HandlersSeeNoFault /\ OneCommandAtATime /\ WaitsOnALiveSlot

-----------------------------------------------------------------------------
(* Lemmas about the operators *)

(* A table lookup returns at most one slot. *)
LEMMA FirstIsUnique ==
  ASSUME NEW S \in SUBSET Slots, NEW r, NEW s, IsFirst(r, S), IsFirst(s, S)
  PROVE  r = s
  BY ConstantsAssumption DEF IsFirst, Slots

(* What the table knows of the running task: its slot is its home. *)
LEMMA CallerIsHome ==
  ASSUME TypeOK, HandlesAgree, NEW t \in Tasks, NEW s \in Slots, IsCaller(s, t)
  PROVE  /\ task[t].home = s /\ task[t].at \notin {"gone", "finished"}
         /\ task[t].mem = held[s] /\ handle[s] = t /\ task[t] \in TaskRecord
         /\ state[s] \in {"RUNNING", "FAULTED"}
  BY ConstantsAssumption DEF TypeOK, HandlesAgree, IsCaller, Gone

(* A step of one task leaves its home and memory, and every other task. *)
LEMMA MovesOneTask ==
  ASSUME TypeOK, NEW t \in Tasks, NEW from \in TaskPoints, NEW to \in TaskPoints,
         Moves(t, from, to)
  PROVE  /\ task' \in [Tasks -> TaskRecord \cup {Gone}]
         /\ task[t].at = from /\ task'[t].at = to
         /\ task'[t].home = task[t].home /\ task'[t].mem = task[t].mem
         /\ \A u \in Tasks \ {t} : task'[u] = task[u]
<1>1. task[t] \in TaskRecord /\ task[t].at = from
  BY DEF TypeOK, Moves, Gone, TaskPoints
<1>2. task' = [task EXCEPT ![t] = [task[t] EXCEPT !.at = to]]
  BY DEF Moves
<1>3. [task[t] EXCEPT !.at = to] \in TaskRecord
  BY <1>1 DEF TaskRecord
<1> QED BY <1>1, <1>2, <1>3 DEF TypeOK, TaskRecord

(* Two slots never share a task. *)
LEMMA HandlesDiffer ==
  ASSUME TypeOK, HandlesAgree, NEW r \in Slots, NEW s \in Slots, r # s, handle[r] # NoTask
  PROVE  handle[r] # handle[s]
  BY DEF TypeOK, HandlesAgree

-----------------------------------------------------------------------------
(* What reclaiming slots, and loading an image, do to the slot table *)

SlotTypes ==
  /\ state \in [Slots -> {"EMPTY", "LOADED", "RUNNING", "FAULTED"}]
  /\ image \in [Slots -> Images \cup {NoImage}]
  /\ claims \in [Slots -> SUBSET Pins]
  /\ handle \in [Slots -> Tasks \cup {NoTask}]
  /\ held \in [Slots -> SUBSET Units]
  /\ pending \in [Slots -> BOOLEAN]
  /\ posted \in [Slots -> BOOLEAN]
  /\ task \in [Tasks -> TaskRecord \cup {Gone}]
  /\ free \in SUBSET Units

LEMMA ReclaimKeepsTheTable ==
  ASSUME TypeOK, HandlesAgree, ArenaExclusive, PinsExclusive,
         NEW R \in SUBSET Slots, Reclaim(R)
  PROVE  SlotTypes' /\ HandlesAgree' /\ ArenaExclusive' /\ PinsExclusive'
<1>1. SlotTypes'
  <2>1. state' \in [Slots -> {"EMPTY", "LOADED", "RUNNING", "FAULTED"}]
    BY DEF TypeOK, Reclaim, Cleared
  <2>2. image' \in [Slots -> Images \cup {NoImage}]
    BY DEF TypeOK, Reclaim, Cleared
  <2>3. claims' \in [Slots -> SUBSET Pins]
    BY DEF TypeOK, Reclaim, Cleared
  <2>4. handle' \in [Slots -> Tasks \cup {NoTask}]
    BY DEF TypeOK, Reclaim, Cleared
  <2>5. held' \in [Slots -> SUBSET Units]
    BY DEF TypeOK, Reclaim, Cleared
  <2>6. pending' \in [Slots -> BOOLEAN] /\ posted' \in [Slots -> BOOLEAN]
    BY DEF TypeOK, Reclaim, Cleared
  <2>7. task' \in [Tasks -> TaskRecord \cup {Gone}]
    BY DEF TypeOK, Reclaim
  <2>8. free' \in SUBSET Units
    BY DEF TypeOK, Reclaim
  <2> QED BY <2>1, <2>2, <2>3, <2>4, <2>5, <2>6, <2>7, <2>8 DEF SlotTypes
<1>2. HandlesAgree'
  <2>1. ASSUME NEW s \in Slots, s \notin R, handle[s] # NoTask
        PROVE  task'[handle[s]] = task[handle[s]]
    BY <2>1, HandlesDiffer DEF Reclaim, TypeOK
  <2>2. ASSUME NEW s \in Slots
        PROVE  /\ state'[s] = "RUNNING" => handle'[s] # NoTask
               /\ handle'[s] # NoTask =>
                    /\ state'[s] \in {"RUNNING", "FAULTED"}
                    /\ task'[handle'[s]].at \notin {"gone", "finished"}
                    /\ task'[handle'[s]].home = s
                    /\ task'[handle'[s]].mem = held'[s]
    <3>1. CASE s \in R
      BY <3>1 DEF Reclaim, Cleared
    <3>2. CASE s \notin R
      BY <3>2, <2>1 DEF Reclaim, Cleared, HandlesAgree
    <3> QED BY <3>1, <3>2
  <2>3. ASSUME NEW t \in Tasks, task'[t].at \notin {"gone", "finished"}
        PROVE  handle'[task'[t].home] = t
    <3>1. task'[t] = task[t] /\ ~(\E s \in R : handle[s] = t)
      BY <2>3 DEF Reclaim, Gone
    <3>2. handle[task[t].home] = t /\ task[t].home \in Slots
      BY <3>1, <2>3 DEF HandlesAgree, TypeOK, TaskRecord, Gone
    <3> QED BY <3>1, <3>2 DEF Reclaim, Cleared
  <2> QED BY <2>2, <2>3 DEF HandlesAgree
<1>3. ArenaExclusive'
  BY DEF TypeOK, ArenaExclusive, Reclaim, Cleared
<1>4. PinsExclusive'
  BY DEF TypeOK, PinsExclusive, Reclaim, Cleared
<1> QED BY <1>1, <1>2, <1>3, <1>4

(* What a load takes and gives back: the blocks of other slots are neither *)
(* free nor returned, and their tasks are not the victim.                  *)
LEMMA OthersAreSafe ==
  ASSUME TypeOK, HandlesAgree, ArenaExclusive,
         NEW s \in Slots, NEW r \in Slots, r # s
  PROVE  /\ held[r] \cap (free \cup Returned(s)) = {}
         /\ handle[r] # NoTask => handle[r] # Victim(s)
<1>1. held[r] \cap (free \cup Returned(s)) = {}
  BY DEF ArenaExclusive, Returned
<1>2. handle[r] # NoTask => handle[r] # Victim(s)
  BY HandlesDiffer DEF Victim
<1> QED BY <1>1, <1>2

(* The victim is the task of slot s, or there is none. *)
LEMMA VictimIsOfSlot ==
  ASSUME TypeOK, HandlesAgree, NEW s \in Slots
  PROVE  Victim(s) = handle[s]
  BY DEF TypeOK, HandlesAgree, Victim

(* A load whose arena request fails. *)
LEMMA AcquireFailsKeepsTheTable ==
  ASSUME TypeOK, HandlesAgree, ArenaExclusive, PinsExclusive,
         NEW i \in Images, NEW s \in Slots, AcquireFails(i, s)
  PROVE  SlotTypes' /\ HandlesAgree' /\ ArenaExclusive' /\ PinsExclusive'
<1>0. i.pins \in SUBSET Pins
  BY ConstantsAssumption DEF ImageType
<1>1. SlotTypes'
  <2>1. state' \in [Slots -> {"EMPTY", "LOADED", "RUNNING", "FAULTED"}]
    BY DEF TypeOK, AcquireFails
  <2>2. image' \in [Slots -> Images \cup {NoImage}]
    BY DEF TypeOK, AcquireFails
  <2>3. claims' \in [Slots -> SUBSET Pins]
    BY <1>0 DEF TypeOK, AcquireFails
  <2>4. handle' \in [Slots -> Tasks \cup {NoTask}]
    BY DEF TypeOK, AcquireFails
  <2>5. held' \in [Slots -> SUBSET Units]
    BY DEF TypeOK, AcquireFails
  <2>6. pending' \in [Slots -> BOOLEAN] /\ posted' \in [Slots -> BOOLEAN]
    BY DEF TypeOK, AcquireFails
  <2>7. task' \in [Tasks -> TaskRecord \cup {Gone}]
    BY DEF TypeOK, AcquireFails
  <2>8. free' \in SUBSET Units
    BY DEF TypeOK, AcquireFails, Returned
  <2> QED BY <2>1, <2>2, <2>3, <2>4, <2>5, <2>6, <2>7, <2>8 DEF SlotTypes
<1>2. HandlesAgree'
  <2>1. ASSUME NEW r \in Slots
        PROVE  /\ state'[r] = "RUNNING" => handle'[r] # NoTask
               /\ handle'[r] # NoTask =>
                    /\ state'[r] \in {"RUNNING", "FAULTED"}
                    /\ task'[handle'[r]].at \notin {"gone", "finished"}
                    /\ task'[handle'[r]].home = r
                    /\ task'[handle'[r]].mem = held'[r]
    <3>1. CASE r = s
      BY <3>1 DEF AcquireFails, TypeOK
    <3>2. CASE r # s
      <4>1. /\ handle'[r] = handle[r] /\ state'[r] = state[r] /\ held'[r] = held[r]
            /\ handle[r] # NoTask => task'[handle[r]] = task[handle[r]]
        BY <3>2, OthersAreSafe DEF AcquireFails, TypeOK
      <4> QED BY <4>1 DEF HandlesAgree
    <3> QED BY <3>1, <3>2
  <2>2. ASSUME NEW t \in Tasks, task'[t].at \notin {"gone", "finished"}
        PROVE  handle'[task'[t].home] = t
    <3>1. task'[t] = task[t] /\ t # Victim(s)
      BY <2>2 DEF AcquireFails, Gone
    <3>2. handle[task[t].home] = t /\ task[t].home \in Slots
      BY <3>1, <2>2 DEF HandlesAgree, TypeOK, TaskRecord, Gone
    <3>3. task[t].home # s
      BY <3>1, <3>2, VictimIsOfSlot
    <3> QED BY <3>1, <3>2, <3>3 DEF AcquireFails, TypeOK
  <2> QED BY <2>1, <2>2 DEF HandlesAgree
<1>3. ArenaExclusive'
  BY DEF TypeOK, ArenaExclusive, AcquireFails, Returned
<1>4. PinsExclusive'
  BY DEF TypeOK, PinsExclusive, AcquireFails
<1> QED BY <1>1, <1>2, <1>3, <1>4

(* What copying an image into blocks U does to the arena and the pins. *)
LEMMA CopiedKeepsTheArena ==
  ASSUME TypeOK, HandlesAgree, ArenaExclusive, PinsExclusive,
         NEW i \in Images, NEW s \in Slots, NEW U, Copied(i, s, U),
         \A r \in Slots \ {s} : state'[r] = state[r],
         Validates(i, s)
  PROVE  /\ held' \in [Slots -> SUBSET Units] /\ free' \in SUBSET Units
         /\ image' \in [Slots -> Images \cup {NoImage}]
         /\ claims' \in [Slots -> SUBSET Pins]
         /\ pending' \in [Slots -> BOOLEAN] /\ posted' \in [Slots -> BOOLEAN]
         /\ ArenaExclusive' /\ PinsExclusive'
<1>0. i.pins \in SUBSET Pins /\ i.size \in Nat \ {0}
  BY ConstantsAssumption DEF ImageType
<1>1. U \in SUBSET Units
  BY DEF TypeOK, Copied, Returned
<1>2. U # {}
  BY <1>0, FS_EmptySet DEF Copied
<1>3. held' \in [Slots -> SUBSET Units] /\ free' \in SUBSET Units
  BY <1>1 DEF TypeOK, Copied, Returned
<1>4. image' \in [Slots -> Images \cup {NoImage}]
  BY DEF TypeOK, Copied
<1>5. claims' \in [Slots -> SUBSET Pins]
  BY <1>0 DEF TypeOK, Copied
<1>6. pending' \in [Slots -> BOOLEAN] /\ posted' \in [Slots -> BOOLEAN]
  BY DEF TypeOK, Copied
<1>7. ArenaExclusive'
  <2>1. \A r \in Slots : held'[r] = IF r = s THEN U ELSE held[r]
    BY DEF TypeOK, Copied
  <2>2. \A r \in Slots \ {s} : held[r] \cap (free \cup Returned(s)) = {}
    BY OthersAreSafe
  <2>3. U \subseteq free \cup Returned(s) /\ free' = (free \cup Returned(s)) \ U
    BY DEF Copied
  <2>4. \A r \in Slots : held'[r] \cap free' = {}
    BY <2>1, <2>2, <2>3
  <2>5. \A r, q \in Slots : r # q => held'[r] \cap held'[q] = {}
    BY <2>1, <2>2, <2>3 DEF ArenaExclusive
  <2>6. \A r \in Slots : state'[r] # "EMPTY" => held'[r] # {}
    BY <2>1, <1>2 DEF ArenaExclusive
  <2> QED BY <2>4, <2>5, <2>6 DEF ArenaExclusive
<1>8. PinsExclusive'
  <2>1. \A r \in Slots : claims'[r] = IF r = s THEN i.pins ELSE claims[r]
    BY DEF TypeOK, Copied
  <2> QED BY <2>1 DEF PinsExclusive, Validates, PinConflict
<1> QED BY <1>3, <1>4, <1>5, <1>6, <1>7, <1>8

(* A load whose task creation fails. *)
LEMMA CreateFailsKeepsTheTable ==
  ASSUME TypeOK, HandlesAgree, ArenaExclusive, PinsExclusive,
         NEW i \in Images, NEW s \in Slots, Validates(i, s), CreateFails(i, s)
  PROVE  SlotTypes' /\ HandlesAgree' /\ ArenaExclusive' /\ PinsExclusive'
<1>1. PICK U \in SUBSET (free \cup Returned(s)) :
        /\ Copied(i, s, U)
        /\ task'   = [t \in Tasks |-> IF t = Victim(s) THEN Gone ELSE task[t]]
        /\ state'  = [state EXCEPT ![s] = "EMPTY"]
        /\ handle' = [handle EXCEPT ![s] = NoTask]
  BY DEF CreateFails
<1>2. /\ held' \in [Slots -> SUBSET Units] /\ free' \in SUBSET Units
      /\ image' \in [Slots -> Images \cup {NoImage}]
      /\ claims' \in [Slots -> SUBSET Pins]
      /\ pending' \in [Slots -> BOOLEAN] /\ posted' \in [Slots -> BOOLEAN]
      /\ ArenaExclusive' /\ PinsExclusive'
  <2>1. \A r \in Slots \ {s} : state'[r] = state[r]
    BY <1>1 DEF TypeOK
  <2> QED BY <1>1, <2>1, CopiedKeepsTheArena
<1>3. SlotTypes'
  <2>1. state' \in [Slots -> {"EMPTY", "LOADED", "RUNNING", "FAULTED"}]
    BY <1>1 DEF TypeOK
  <2>2. handle' \in [Slots -> Tasks \cup {NoTask}]
    BY <1>1 DEF TypeOK
  <2>3. task' \in [Tasks -> TaskRecord \cup {Gone}]
    BY <1>1 DEF TypeOK
  <2> QED BY <1>2, <2>1, <2>2, <2>3 DEF SlotTypes
<1>4. HandlesAgree'
  <2>1. ASSUME NEW r \in Slots
        PROVE  /\ state'[r] = "RUNNING" => handle'[r] # NoTask
               /\ handle'[r] # NoTask =>
                    /\ state'[r] \in {"RUNNING", "FAULTED"}
                    /\ task'[handle'[r]].at \notin {"gone", "finished"}
                    /\ task'[handle'[r]].home = r
                    /\ task'[handle'[r]].mem = held'[r]
    <3>1. CASE r = s
      BY <3>1, <1>1 DEF TypeOK
    <3>2. CASE r # s
      <4>1. /\ handle'[r] = handle[r] /\ state'[r] = state[r] /\ held'[r] = held[r]
            /\ handle[r] # NoTask => task'[handle[r]] = task[handle[r]]
        BY <1>1, <3>2, OthersAreSafe DEF Copied, TypeOK
      <4> QED BY <4>1 DEF HandlesAgree
    <3> QED BY <3>1, <3>2
  <2>2. ASSUME NEW t \in Tasks, task'[t].at \notin {"gone", "finished"}
        PROVE  handle'[task'[t].home] = t
    <3>1. task'[t] = task[t] /\ t # Victim(s)
      BY <1>1, <2>2 DEF Gone
    <3>2. handle[task[t].home] = t /\ task[t].home \in Slots
      BY <3>1, <2>2 DEF HandlesAgree, TypeOK, TaskRecord, Gone
    <3>3. task[t].home # s
      BY <3>1, <3>2, VictimIsOfSlot
    <3> QED BY <1>1, <3>1, <3>2, <3>3 DEF TypeOK
  <2> QED BY <2>1, <2>2 DEF HandlesAgree
<1> QED BY <1>2, <1>3, <1>4

(* A load that brings the module up. *)
LEMMA StartsKeepsTheTable ==
  ASSUME TypeOK, HandlesAgree, ArenaExclusive, PinsExclusive,
         NEW i \in Images, NEW s \in Slots, Validates(i, s), Starts(i, s)
  PROVE  SlotTypes' /\ HandlesAgree' /\ ArenaExclusive' /\ PinsExclusive'
<1>1. PICK U \in SUBSET (free \cup Returned(s)), t \in Tasks :
        /\ Copied(i, s, U)
        /\ task[t] = Gone \/ t = Victim(s)
        /\ task'   = [u \in Tasks |-> IF u = t THEN [at |-> "init", home |-> s, mem |-> U]
                                      ELSE IF u = Victim(s) THEN Gone ELSE task[u]]
        /\ state'  = [state EXCEPT ![s] = "RUNNING"]
        /\ handle' = [handle EXCEPT ![s] = t]
  BY DEF Starts
<1>2. /\ held' \in [Slots -> SUBSET Units] /\ free' \in SUBSET Units
      /\ image' \in [Slots -> Images \cup {NoImage}]
      /\ claims' \in [Slots -> SUBSET Pins]
      /\ pending' \in [Slots -> BOOLEAN] /\ posted' \in [Slots -> BOOLEAN]
      /\ ArenaExclusive' /\ PinsExclusive'
  <2>1. \A r \in Slots \ {s} : state'[r] = state[r]
    BY <1>1 DEF TypeOK
  <2> QED BY <1>1, <2>1, CopiedKeepsTheArena
<1>3. SlotTypes'
  <2>1. state' \in [Slots -> {"EMPTY", "LOADED", "RUNNING", "FAULTED"}]
    BY <1>1 DEF TypeOK
  <2>2. handle' \in [Slots -> Tasks \cup {NoTask}]
    BY <1>1 DEF TypeOK
  <2>3. [at |-> "init", home |-> s, mem |-> U] \in TaskRecord
    BY <1>1 DEF TaskRecord, TaskPoints, TypeOK, Returned
  <2>4. task' \in [Tasks -> TaskRecord \cup {Gone}]
    BY <1>1, <2>3 DEF TypeOK
  <2> QED BY <1>2, <2>1, <2>2, <2>4 DEF SlotTypes
<1>4. t # NoTask /\ \A r \in Slots \ {s} : handle[r] # t
  <2>1. t # NoTask
    BY ConstantsAssumption
  <2>2. ASSUME NEW r \in Slots \ {s}, handle[r] = t PROVE FALSE
    BY <1>1, <2>1, <2>2, OthersAreSafe DEF HandlesAgree, Gone
  <2> QED BY <2>1, <2>2
<1>5. HandlesAgree'
  <2>1. ASSUME NEW r \in Slots
        PROVE  /\ state'[r] = "RUNNING" => handle'[r] # NoTask
               /\ handle'[r] # NoTask =>
                    /\ state'[r] \in {"RUNNING", "FAULTED"}
                    /\ task'[handle'[r]].at \notin {"gone", "finished"}
                    /\ task'[handle'[r]].home = r
                    /\ task'[handle'[r]].mem = held'[r]
    <3>1. CASE r = s
      <4>1. /\ handle'[r] = t /\ state'[r] = "RUNNING" /\ held'[r] = U
            /\ task'[t] = [at |-> "init", home |-> s, mem |-> U]
        BY <1>1, <3>1 DEF Copied, TypeOK
      <4> QED BY <4>1, <1>4, <3>1
    <3>2. CASE r # s
      <4>1. /\ handle'[r] = handle[r] /\ state'[r] = state[r] /\ held'[r] = held[r]
            /\ handle[r] # NoTask => task'[handle[r]] = task[handle[r]]
        BY <1>1, <1>4, <3>2, OthersAreSafe DEF Copied, TypeOK
      <4> QED BY <4>1 DEF HandlesAgree
    <3> QED BY <3>1, <3>2
  <2>2. ASSUME NEW u \in Tasks, task'[u].at \notin {"gone", "finished"}
        PROVE  handle'[task'[u].home] = u
    <3>1. CASE u = t
      BY <1>1, <3>1 DEF TypeOK
    <3>2. CASE u # t
      <4>1. task'[u] = task[u] /\ u # Victim(s)
        BY <1>1, <2>2, <3>2 DEF Gone
      <4>2. handle[task[u].home] = u /\ task[u].home \in Slots
        BY <4>1, <2>2 DEF HandlesAgree, TypeOK, TaskRecord, Gone
      <4>3. task[u].home # s
        BY <4>1, <4>2, VictimIsOfSlot
      <4> QED BY <1>1, <4>1, <4>2, <4>3 DEF TypeOK
    <3> QED BY <3>1, <3>2
  <2> QED BY <2>1, <2>2 DEF HandlesAgree
<1> QED BY <1>2, <1>3, <1>5

-----------------------------------------------------------------------------
(* What a module's own step does to the slot table *)

(* Between two of its points, other than its end and the trap. *)
LEMMA MoveKeepsTheTable ==
  ASSUME TypeOK, HandlesAgree, ArenaExclusive, PinsExclusive,
         NEW t \in Tasks, NEW from \in TaskPoints \ {"finished", "trap"},
         NEW to \in TaskPoints \ {"finished", "trap"}, Moves(t, from, to),
         UNCHANGED <<state, image, claims, handle, held>>,
         pending' \in [Slots -> BOOLEAN], posted' \in [Slots -> BOOLEAN]
  PROVE  SlotTypes' /\ HandlesAgree' /\ ArenaExclusive' /\ PinsExclusive'
<1>1. /\ task' \in [Tasks -> TaskRecord \cup {Gone}]
      /\ task[t].at = from /\ task'[t].at = to
      /\ task'[t].home = task[t].home /\ task'[t].mem = task[t].mem
      /\ \A u \in Tasks \ {t} : task'[u] = task[u]
  BY MovesOneTask
<1>2. SlotTypes'
  BY <1>1 DEF TypeOK, SlotTypes, Moves
<1>3. HandlesAgree'
  <2>1. ASSUME NEW s \in Slots
        PROVE  /\ state'[s] = "RUNNING" => handle'[s] # NoTask
               /\ handle'[s] # NoTask =>
                    /\ state'[s] \in {"RUNNING", "FAULTED"}
                    /\ task'[handle'[s]].at \notin {"gone", "finished"}
                    /\ task'[handle'[s]].home = s
                    /\ task'[handle'[s]].mem = held'[s]
    <3>1. CASE handle[s] = t
      BY <1>1, <3>1 DEF HandlesAgree, TaskPoints
    <3>2. CASE handle[s] # t
      <4>1. handle[s] # NoTask => task'[handle[s]] = task[handle[s]]
        BY <1>1, <3>2 DEF TypeOK
      <4> QED BY <4>1 DEF HandlesAgree
    <3> QED BY <3>1, <3>2
  <2>2. ASSUME NEW u \in Tasks, task'[u].at \notin {"gone", "finished"}
        PROVE  handle'[task'[u].home] = u
    <3>1. task[u].at \notin {"gone", "finished"} /\ task'[u].home = task[u].home
      BY <1>1, <2>2 DEF TaskPoints
    <3> QED BY <3>1 DEF HandlesAgree
  <2> QED BY <2>1, <2>2 DEF HandlesAgree
<1>4. ArenaExclusive' /\ PinsExclusive'
  BY DEF ArenaExclusive, PinsExclusive, Moves
<1> QED BY <1>2, <1>3, <1>4

(* module_task_mark_finished(). *)
LEMMA MarkFinishedKeepsTheTable ==
  ASSUME TypeOK, HandlesAgree, ArenaExclusive, PinsExclusive,
         NEW t \in Tasks, MarkFinished(t)
  PROVE  SlotTypes' /\ HandlesAgree' /\ ArenaExclusive' /\ PinsExclusive'
<1>1. PICK s \in Slots :
        /\ IsCaller(s, t)
        /\ Moves(t, "finishing", "finished")
        /\ state'  = [state EXCEPT ![s] = "LOADED"]
        /\ handle' = [handle EXCEPT ![s] = NoTask]
        /\ UNCHANGED <<image, claims, held, pending, posted>>
  BY DEF MarkFinished
<1>2. /\ task' \in [Tasks -> TaskRecord \cup {Gone}]
      /\ task[t].at = "finishing" /\ task'[t].at = "finished"
      /\ task'[t].home = task[t].home /\ task'[t].mem = task[t].mem
      /\ \A u \in Tasks \ {t} : task'[u] = task[u]
  BY <1>1, MovesOneTask DEF TaskPoints
<1>3. handle[s] = t /\ task[t].home = s /\ state[s] \in {"RUNNING", "FAULTED"}
  BY <1>1, CallerIsHome
<1>4. SlotTypes'
  BY <1>1, <1>2 DEF TypeOK, SlotTypes, Moves
<1>5. HandlesAgree'
  <2>1. ASSUME NEW r \in Slots
        PROVE  /\ state'[r] = "RUNNING" => handle'[r] # NoTask
               /\ handle'[r] # NoTask =>
                    /\ state'[r] \in {"RUNNING", "FAULTED"}
                    /\ task'[handle'[r]].at \notin {"gone", "finished"}
                    /\ task'[handle'[r]].home = r
                    /\ task'[handle'[r]].mem = held'[r]
    <3>1. CASE r = s
      BY <1>1, <3>1 DEF TypeOK
    <3>2. CASE r # s
      <4>1. handle[r] # NoTask => handle[r] # t
        BY <1>3, <3>2, HandlesDiffer
      <4>2. handle[r] # NoTask => task'[handle[r]] = task[handle[r]]
        BY <1>2, <4>1 DEF TypeOK
      <4>3. handle'[r] = handle[r] /\ state'[r] = state[r] /\ held'[r] = held[r]
        BY <1>1, <3>2 DEF TypeOK
      <4> QED BY <4>2, <4>3 DEF HandlesAgree
    <3> QED BY <3>1, <3>2
  <2>2. ASSUME NEW u \in Tasks, task'[u].at \notin {"gone", "finished"}
        PROVE  handle'[task'[u].home] = u
    <3>1. u # t /\ task'[u] = task[u]
      BY <1>2, <2>2
    <3>2. handle[task[u].home] = u /\ task[u].home \in Slots
      BY <2>2, <3>1 DEF HandlesAgree, TypeOK, TaskRecord, Gone
    <3>3. task[u].home # s
      BY <1>3, <3>1, <3>2
    <3> QED BY <1>1, <3>1, <3>2, <3>3 DEF TypeOK
  <2> QED BY <2>1, <2>2 DEF HandlesAgree
<1>6. ArenaExclusive'
  <2>1. \A r \in Slots : state'[r] # "EMPTY" => state[r] # "EMPTY"
    BY <1>1, <1>3 DEF TypeOK
  <2> QED BY <1>1, <2>1 DEF ArenaExclusive, Moves
<1>7. PinsExclusive'
  <2>1. \A r \in Slots : state'[r] # "EMPTY" => state[r] # "EMPTY"
    BY <1>1, <1>3 DEF TypeOK
  <2> QED BY <1>1, <2>1 DEF PinsExclusive
<1> QED BY <1>4, <1>5, <1>6, <1>7

(* A fault traps its task and marks one resident slot, its own or not. *)
LEMMA FaultTrapsOneTask ==
  ASSUME TypeOK, NEW t \in Tasks, Fault(t)
  PROVE  /\ \E s \in Slots : state[s] # "EMPTY" /\ state' = [state EXCEPT ![s] = "FAULTED"]
         /\ task' \in [Tasks -> TaskRecord \cup {Gone}]
         /\ task[t].at \in InModule /\ task'[t].at = "trap"
         /\ task'[t].home = task[t].home /\ task'[t].mem = task[t].mem
         /\ \A u \in Tasks \ {t} : task'[u] = task[u]
         /\ UNCHANGED <<image, claims, handle, held, pending, posted, free, tx>>
         /\ UNCHANGED <<sup, target, waited, saved, todo, hostFault>>
         /\ sup \in {"wait", "delay", "stuck"}
<1>1. /\ task' = [task EXCEPT ![t] = [task[t] EXCEPT !.at = "trap"]]
      /\ task[t].at \in InModule
  BY DEF Fault
<1>2. task[t] \in TaskRecord
  BY <1>1 DEF TypeOK, Gone, InModule
<1>3. [task[t] EXCEPT !.at = "trap"] \in TaskRecord
  BY <1>2 DEF TaskRecord, TaskPoints
<1>4. \E s \in Slots : state[s] # "EMPTY" /\ state' = [state EXCEPT ![s] = "FAULTED"]
  BY DEF Fault, IsFirst
<1>5. /\ UNCHANGED <<image, claims, handle, held, pending, posted, free, tx>>
      /\ UNCHANGED <<sup, target, waited, saved, todo, hostFault>>
      /\ sup \in {"wait", "delay", "stuck"}
  BY DEF Fault, supVars, savedVars, ModulesRun
<1>6. /\ task' \in [Tasks -> TaskRecord \cup {Gone}] /\ task'[t].at = "trap"
      /\ task'[t].home = task[t].home /\ task'[t].mem = task[t].mem
      /\ \A u \in Tasks \ {t} : task'[u] = task[u]
  BY <1>1, <1>2, <1>3 DEF TypeOK, TaskRecord
<1> QED BY <1>1, <1>4, <1>5, <1>6

LEMMA FaultKeepsTheTable ==
  ASSUME TypeOK, HandlesAgree, ArenaExclusive, PinsExclusive,
         NEW t \in Tasks, Fault(t)
  PROVE  SlotTypes' /\ HandlesAgree' /\ ArenaExclusive' /\ PinsExclusive'
<1>1. /\ task' \in [Tasks -> TaskRecord \cup {Gone}]
      /\ task[t].at \in InModule /\ task'[t].at = "trap"
      /\ task'[t].home = task[t].home /\ task'[t].mem = task[t].mem
      /\ \A u \in Tasks \ {t} : task'[u] = task[u]
      /\ UNCHANGED <<image, claims, handle, held, pending, posted, free>>
  BY FaultTrapsOneTask
<1>2. PICK s \in Slots : state[s] # "EMPTY" /\ state' = [state EXCEPT ![s] = "FAULTED"]
  BY FaultTrapsOneTask
<1>3. SlotTypes'
  BY <1>1, <1>2 DEF TypeOK, SlotTypes
<1>4. \A r \in Slots : state'[r] = IF r = s THEN "FAULTED" ELSE state[r]
  BY <1>2 DEF TypeOK
<1>5. HandlesAgree'
  <2>1. ASSUME NEW u \in Tasks
        PROVE  /\ task'[u].home = task[u].home /\ task'[u].mem = task[u].mem
               /\ task'[u].at \in {"gone", "finished"} <=> task[u].at \in {"gone", "finished"}
    BY <1>1 DEF InModule
  <2>2. ASSUME NEW r \in Slots
        PROVE  /\ state'[r] = "RUNNING" => handle'[r] # NoTask
               /\ handle'[r] # NoTask =>
                    /\ state'[r] \in {"RUNNING", "FAULTED"}
                    /\ task'[handle'[r]].at \notin {"gone", "finished"}
                    /\ task'[handle'[r]].home = r
                    /\ task'[handle'[r]].mem = held'[r]
    <3>1. handle'[r] = handle[r] /\ held'[r] = held[r] /\ handle[r] \in Tasks \cup {NoTask}
      BY <1>1 DEF TypeOK
    <3>2. state'[r] = "RUNNING" => handle'[r] # NoTask
      BY <1>4, <3>1 DEF HandlesAgree
    <3>3. ASSUME handle'[r] # NoTask
          PROVE  /\ state'[r] \in {"RUNNING", "FAULTED"}
                 /\ task'[handle'[r]].at \notin {"gone", "finished"}
                 /\ task'[handle'[r]].home = r
                 /\ task'[handle'[r]].mem = held'[r]
      BY <1>4, <2>1, <3>1, <3>3 DEF HandlesAgree
    <3> QED BY <3>2, <3>3
  <2>3. ASSUME NEW u \in Tasks, task'[u].at \notin {"gone", "finished"}
        PROVE  handle'[task'[u].home] = u
    BY <1>1, <2>1, <2>3 DEF HandlesAgree
  <2> QED BY <2>2, <2>3 DEF HandlesAgree
<1>6. \A r \in Slots : state'[r] # "EMPTY" => state[r] # "EMPTY"
  BY <1>2, <1>4
<1>7. ArenaExclusive'
  BY <1>1, <1>6 DEF ArenaExclusive
<1>8. PinsExclusive'
  BY <1>1, <1>6 DEF PinsExclusive
<1> QED BY <1>3, <1>5, <1>7, <1>8

(* vTaskDelete(NULL) after the handle is cleared. *)
LEMMA DeleteSelfKeepsTheTable ==
  ASSUME TypeOK, HandlesAgree, ArenaExclusive, PinsExclusive,
         NEW t \in Tasks, DeleteSelf(t)
  PROVE  SlotTypes' /\ HandlesAgree' /\ ArenaExclusive' /\ PinsExclusive'
<1>1. /\ task[t].at = "finished" /\ task' = [task EXCEPT ![t] = Gone]
      /\ UNCHANGED <<state, image, claims, handle, held, pending, posted, free>>
  BY DEF DeleteSelf, slotVars
<1>2. SlotTypes'
  BY <1>1 DEF TypeOK, SlotTypes
<1>3. \A s \in Slots : handle[s] # NoTask => handle[s] # t /\ task'[handle[s]] = task[handle[s]]
  BY <1>1 DEF HandlesAgree, TypeOK
<1>4. \A u \in Tasks : task'[u].at \notin {"gone", "finished"} => task'[u] = task[u]
  BY <1>1 DEF Gone, TypeOK
<1>5. HandlesAgree'
  BY <1>1, <1>3, <1>4 DEF HandlesAgree
<1>6. ArenaExclusive' /\ PinsExclusive'
  BY <1>1 DEF ArenaExclusive, PinsExclusive
<1> QED BY <1>2, <1>5, <1>6

-----------------------------------------------------------------------------
(* What a load and a reclaim change besides *)

(* A load leaves every other slot and its task alone, and brings its own   *)
(* slot up at the start of module_init() or not at all.                    *)
(* What a load of i into slot s does, ended or failed: the other slots keep   *)
(* their entries and their tasks, and slot s holds i or nothing.              *)
LoadsOnly(i, s) ==
  /\ \A r \in Slots \ {s} :
       /\ state'[r] = state[r] /\ image'[r] = image[r] /\ handle'[r] = handle[r]
       /\ pending'[r] = pending[r] /\ posted'[r] = posted[r]
       /\ handle[r] # NoTask => task'[handle[r]] = task[handle[r]]
  /\ posted'[s] = FALSE /\ state'[s] \in {"EMPTY", "RUNNING"}
  /\ state'[s] # "EMPTY" => image'[s] = i
  /\ handle'[s] # NoTask => task'[handle'[s]].at = "init"

LEMMA LoadChangesOneSlot ==
  ASSUME TypeOK, HandlesAgree, ArenaExclusive,
         NEW i \in Images, NEW s \in Slots,
         AcquireFails(i, s) \/ CreateFails(i, s) \/ Starts(i, s)
  PROVE  LoadsOnly(i, s)
<1> USE DEF LoadsOnly
<1>1. CASE AcquireFails(i, s)
  <2>1. \A r \in Slots \ {s} : handle[r] # NoTask => handle[r] # Victim(s)
    BY OthersAreSafe
  <2> QED BY <1>1, <2>1 DEF AcquireFails, TypeOK
<1>2. CASE CreateFails(i, s)
  <2>1. \A r \in Slots \ {s} : handle[r] # NoTask => handle[r] # Victim(s)
    BY OthersAreSafe
  <2> QED BY <1>2, <2>1 DEF CreateFails, Copied, TypeOK
<1>3. CASE Starts(i, s)
  <2>1. PICK U \in SUBSET (free \cup Returned(s)), t \in Tasks :
          /\ Copied(i, s, U)
          /\ task[t] = Gone \/ t = Victim(s)
          /\ task'   = [u \in Tasks |-> IF u = t THEN [at |-> "init", home |-> s, mem |-> U]
                                        ELSE IF u = Victim(s) THEN Gone ELSE task[u]]
          /\ state'  = [state EXCEPT ![s] = "RUNNING"]
          /\ handle' = [handle EXCEPT ![s] = t]
    BY <1>3 DEF Starts
  <2>2. ASSUME NEW r \in Slots \ {s}, handle[r] # NoTask
        PROVE  handle[r] # t /\ task'[handle[r]] = task[handle[r]]
    <3>1. handle[r] # Victim(s)
      BY <2>2, OthersAreSafe
    <3>2. task[handle[r]].at # "gone"
      BY <2>2 DEF HandlesAgree
    <3> QED BY <2>1, <2>2, <3>1, <3>2 DEF Gone, TypeOK
  <2>3. \A r \in Slots \ {s} :
          /\ state'[r] = state[r] /\ image'[r] = image[r] /\ handle'[r] = handle[r]
          /\ pending'[r] = pending[r] /\ posted'[r] = posted[r]
    BY <2>1 DEF Copied, TypeOK
  <2>4. posted'[s] = FALSE /\ state'[s] = "RUNNING" /\ image'[s] = i /\ handle'[s] = t
    BY <2>1 DEF Copied, TypeOK
  <2>5. task'[t].at = "init"
    BY <2>1
  <2> QED BY <2>2, <2>3, <2>4, <2>5
<1> QED BY <1>1, <1>2, <1>3

(* A reclaimed slot keeps nothing, and a slot that is not reclaimed all.   *)
LEMMA ReclaimChangesItsSlots ==
  ASSUME TypeOK, HandlesAgree, NEW R \in SUBSET Slots, Reclaim(R)
  PROVE  /\ \A s \in R : state'[s] = "EMPTY" /\ handle'[s] = NoTask /\ posted'[s] = FALSE
         /\ \A s \in Slots \ R :
              /\ state'[s] = state[s] /\ image'[s] = image[s] /\ handle'[s] = handle[s]
              /\ pending'[s] = pending[s] /\ posted'[s] = posted[s]
              /\ handle[s] # NoTask => task'[handle[s]] = task[handle[s]]
<1>1. \A s \in Slots \ R : handle[s] # NoTask => \A r \in R : handle[r] # handle[s]
  BY HandlesDiffer
<1> QED BY <1>1 DEF Reclaim, Cleared, TypeOK

(* Names stay unique where no module comes up. *)
LEMMA NamesStayUnique ==
  ASSUME NamesUnique, sup # "restore", todo' = todo, saved' = saved,
         \A s \in Slots : state'[s] # "EMPTY" => state[s] # "EMPTY" /\ image'[s] = image[s]
  PROVE  NamesUnique'
  BY DEF NamesUnique

-----------------------------------------------------------------------------
(* Every step keeps the invariant *)

(* Reclaiming slots outside of a command wait, or the one it waited for.   *)
LEMMA ReclaimKeepsIInv ==
  ASSUME IInv, NEW R \in SUBSET Slots, Reclaim(R), sup # "restore",
         sup = "delay" => target \in R,
         sup' \in {"wait", "frame", "console", "stuck"},
         tx' \in Tasks \cup {NoTask, Orphan},
         sup' \notin {"wait", "stuck"} => {s \in Slots : state[s] = "FAULTED"} \subseteq R,
         UNCHANGED <<target, waited, saved, todo, hostFault>>
  PROVE  IInv'
<1>0. TypeOK /\ HandlesAgree /\ ArenaExclusive /\ PinsExclusive /\ NamesUnique
  BY DEF IInv
<1>1. SlotTypes' /\ HandlesAgree' /\ ArenaExclusive' /\ PinsExclusive'
  BY <1>0, ReclaimKeepsTheTable
<1>2. TypeOK'
  BY <1>0, <1>1 DEF TypeOK, SlotTypes, SupPoints
<1>3. /\ \A s \in R : state'[s] = "EMPTY" /\ handle'[s] = NoTask /\ posted'[s] = FALSE
      /\ \A s \in Slots \ R :
           /\ state'[s] = state[s] /\ image'[s] = image[s] /\ handle'[s] = handle[s]
           /\ pending'[s] = pending[s] /\ posted'[s] = posted[s]
           /\ handle[s] # NoTask => task'[handle[s]] = task[handle[s]]
  BY <1>0, ReclaimChangesItsSlots
<1>4. NamesUnique'
  BY <1>0, <1>3, NamesStayUnique
<1>5. HandlersSeeNoFault'
  BY <1>3 DEF HandlersSeeNoFault
<1>6. OneCommandAtATime'
  BY <1>3 DEF OneCommandAtATime, IInv
<1>7. WaitsOnALiveSlot'
  BY <1>3 DEF WaitsOnALiveSlot, IInv
<1> QED BY <1>1, <1>2, <1>4, <1>5, <1>6, <1>7 DEF IInv

(* The same with what is written on the way: it goes on, or sticks there.  *)
LEMMA ReclaimAndOutputKeepIInv ==
  ASSUME IInv, NEW R \in SUBSET Slots, NEW to \in {"wait", "frame", "console"},
         ReclaimOnly(R, to) \/ ReclaimAndWrite(R, to), sup # "restore",
         sup = "delay" => R = {target},
         to # "wait" => {s \in Slots : state[s] = "FAULTED"} \subseteq R,
         UNCHANGED <<target, waited, saved, todo, hostFault>>
  PROVE  IInv'
<1>1. tx \in Tasks \cup {NoTask, Orphan} /\ Left(Owners(R)) \in Tasks \cup {NoTask, Orphan}
  BY DEF IInv, TypeOK, Left
<1>2. CASE Reclaim(R) /\ (Silent(to, Owners(R)) \/ Writes(to, Owners(R)))
  <2>1. sup' \in {to, "stuck"} /\ tx' \in Tasks \cup {NoTask, Orphan}
    BY <1>1, <1>2 DEF Silent, Writes
  <2> QED BY <1>2, <2>1, ReclaimKeepsIInv
<1>3. ASSUME NEW s \in R, ReclaimSays(R, s, to) PROVE IInv'
  <2> DEFINE Q == {r \in R : r <= s}
  <2>1. CASE Reclaim(R) /\ tx' = NoTask /\ sup' = to
    BY <2>1, ReclaimKeepsIInv
  <2>2. CASE Reclaim(Q) /\ tx' = Orphan /\ sup' = "stuck"
    <3>a. s <= s
      BY <1>3, ConstantsAssumption DEF Slots
    <3>1. Q \in SUBSET Slots /\ s \in Q
      BY <1>3, <3>a
    <3> HIDE DEF Q
    <3>2. sup = "delay" => target \in Q
      <4>1. sup = "delay" => s = target
        BY <1>3
      <4> QED BY <3>1, <4>1
    <3> QED BY <2>2, <3>1, <3>2, ReclaimKeepsIInv
  <2> QED BY <1>3, <2>1, <2>2 DEF ReclaimSays
<1> QED BY <1>2, <1>3 DEF ReclaimOnly, ReclaimAndWrite

(* A load, whatever comes of it, at a boot or from a frame. *)
LEMMA LoadKeepsIInv ==
  ASSUME IInv, NEW i \in Images, NEW s \in Slots, Validates(i, s),
         AcquireFails(i, s) \/ CreateFails(i, s) \/ Starts(i, s),
         sup # "delay", sup \in {"restore", "frame"}, sup' \in {"restore", "console", "stuck"},
         tx' \in Tasks \cup {NoTask, Orphan},
         UNCHANGED <<target, waited, hostFault>>, NamesUnique',
         saved' \in SUBSET Images, todo' \in SUBSET Images
  PROVE  IInv'
<1>0. TypeOK /\ HandlesAgree /\ ArenaExclusive /\ PinsExclusive
  BY DEF IInv
<1>1. SlotTypes' /\ HandlesAgree' /\ ArenaExclusive' /\ PinsExclusive'
  BY <1>0, AcquireFailsKeepsTheTable, CreateFailsKeepsTheTable, StartsKeepsTheTable
<1>2. TypeOK'
  BY <1>0, <1>1 DEF TypeOK, SlotTypes, SupPoints
<1>3. /\ \A r \in Slots \ {s} :
           /\ state'[r] = state[r] /\ image'[r] = image[r] /\ handle'[r] = handle[r]
           /\ pending'[r] = pending[r] /\ posted'[r] = posted[r]
           /\ handle[r] # NoTask => task'[handle[r]] = task[handle[r]]
      /\ posted'[s] = FALSE /\ state'[s] \in {"EMPTY", "RUNNING"}
      /\ state'[s] # "EMPTY" => image'[s] = i
      /\ handle'[s] # NoTask => task'[handle'[s]].at = "init"
  <2>1. LoadsOnly(i, s)
    BY <1>0, LoadChangesOneSlot
  <2> QED BY <2>1 DEF LoadsOnly
<1>4. HandlersSeeNoFault'
  BY <1>3 DEF HandlersSeeNoFault, IInv
<1>5. OneCommandAtATime'
  <2>1. \A r \in Slots : ~posted[r] /\ ~(handle[r] # NoTask /\ task[handle[r]].at = "cmd")
    BY DEF OneCommandAtATime, IInv
  <2>2. ASSUME NEW r \in Slots
        PROVE  ~posted'[r] /\ ~(handle'[r] # NoTask /\ task'[handle'[r]].at = "cmd")
    BY <1>3, <2>1
  <2> QED BY <2>2 DEF OneCommandAtATime
<1>6. WaitsOnALiveSlot'
  <2>1. ASSUME NEW r \in Slots, handle'[r] # NoTask, task'[handle'[r]].at = "finishing"
        PROVE  image'[r] = image[r] /\ handle[r] # NoTask /\ task[handle[r]].at = "finishing"
    BY <1>3, <2>1
  <2> QED BY <2>1 DEF WaitsOnALiveSlot, IInv
<1> QED BY <1>1, <1>2, <1>4, <1>5, <1>6 DEF IInv

LEMMA RestoreOneKeepsIInv ==
  ASSUME IInv, NEW i \in Images, NEW s \in Slots, RestoreOne(i, s)
  PROVE  IInv'
<1>0. /\ sup = "restore" /\ i \in todo /\ IsFirst(s, FreeSlots)
      /\ todo' = todo \ {i} /\ UNCHANGED <<tx, supVars, saved, hostFault>>
  BY DEF RestoreOne
<1>1. CASE UNCHANGED <<slotVars, task, free>>
  <2>1. NamesUnique'
    BY <1>0, <1>1 DEF IInv, NamesUnique, ByName, slotVars, supVars
  <2>2. TypeOK'
    BY <1>0, <1>1 DEF IInv, TypeOK, slotVars, supVars
  <2>3. /\ HandlesAgree' /\ ArenaExclusive' /\ PinsExclusive'
    BY <1>0, <1>1 DEF IInv, HandlesAgree, ArenaExclusive, PinsExclusive, slotVars
  <2>4. HandlersSeeNoFault' /\ OneCommandAtATime' /\ WaitsOnALiveSlot'
    BY <1>0, <1>1 DEF IInv, HandlersSeeNoFault, OneCommandAtATime, WaitsOnALiveSlot,
                      slotVars, supVars
  <2> QED BY <2>1, <2>2, <2>3, <2>4 DEF IInv
<1>2. CASE Validates(i, s) /\ (AcquireFails(i, s) \/ CreateFails(i, s) \/ Starts(i, s))
  <2>1. /\ \A r \in Slots \ {s} :
             /\ state'[r] = state[r] /\ image'[r] = image[r] /\ handle'[r] = handle[r]
             /\ pending'[r] = pending[r] /\ posted'[r] = posted[r]
             /\ handle[r] # NoTask => task'[handle[r]] = task[handle[r]]
        /\ posted'[s] = FALSE /\ state'[s] \in {"EMPTY", "RUNNING"}
        /\ state'[s] # "EMPTY" => image'[s] = i
        /\ handle'[s] # NoTask => task'[handle'[s]].at = "init"
    <3>1. TypeOK /\ HandlesAgree /\ ArenaExclusive
      BY DEF IInv
    <3>2. LoadsOnly(i, s)
      BY <1>2, <3>1, LoadChangesOneSlot
    <3> QED BY <3>2 DEF LoadsOnly
  <2>2. state[s] = "EMPTY" /\ ByName(i.name) = {}
    BY <1>0 DEF IsFirst, FreeSlots, IInv, NamesUnique
  <2>3. NamesUnique'
    <3>1. todo' \subseteq saved' /\ \A j, k \in saved' : j.name = k.name => j = k
      BY <1>0 DEF IInv, NamesUnique, supVars
    <3>2. \A j \in todo' : sup' = "restore" /\ ByName(j.name)' = {}
      <4>1. \A j \in todo' : j.name # i.name /\ ByName(j.name) = {}
        BY <1>0 DEF IInv, NamesUnique
      <4> QED BY <1>0, <2>1, <4>1 DEF ByName, supVars
    <3>3. ASSUME NEW q \in Slots, NEW r \in Slots, q # r, state'[q] # "EMPTY",
                 state'[r] # "EMPTY", image'[q].name # NoName
          PROVE  image'[q].name # image'[r].name
      <4>1. CASE q = s
        BY <2>1, <2>2, <3>3, <4>1 DEF ByName
      <4>2. CASE r = s
        BY <2>1, <2>2, <3>3, <4>2 DEF ByName
      <4>3. CASE q # s /\ r # s
        BY <2>1, <3>3, <4>3 DEF IInv, NamesUnique
      <4> QED BY <4>1, <4>2, <4>3
    <3> QED BY <3>1, <3>2, <3>3 DEF NamesUnique
  <2> QED BY <1>0, <1>2, <2>3, LoadKeepsIInv DEF IInv, TypeOK, supVars
<1> QED BY <1>1, <1>2 DEF RestoreOne

LEMMA HandleLoadKeepsIInv ==
  ASSUME IInv, NEW i \in Images, NEW s \in Slots, HandleLoad(i, s)
  PROVE  IInv'
<1>0. /\ sup = "frame" /\ sup' \in {"console", "stuck"} /\ tx' \in {NoTask, Orphan}
      /\ UNCHANGED <<target, waited, todo, hostFault>>
      /\ IsDestination(i, s) /\ Validates(i, s)
      /\ AcquireFails(i, s) \/ CreateFails(i, s) \/ Starts(i, s)
      /\ saved' \in {saved, SaveTo(i)}
  BY DEF HandleLoad, Stage, Writes
<1>1. /\ \A r \in Slots \ {s} :
           /\ state'[r] = state[r] /\ image'[r] = image[r] /\ handle'[r] = handle[r]
           /\ pending'[r] = pending[r] /\ posted'[r] = posted[r]
           /\ handle[r] # NoTask => task'[handle[r]] = task[handle[r]]
      /\ posted'[s] = FALSE /\ state'[s] \in {"EMPTY", "RUNNING"}
      /\ state'[s] # "EMPTY" => image'[s] = i
      /\ handle'[s] # NoTask => task'[handle'[s]].at = "init"
  <2>1. TypeOK /\ HandlesAgree /\ ArenaExclusive
    BY DEF IInv
  <2>2. LoadsOnly(i, s)
    BY <1>0, <2>1, LoadChangesOneSlot
  <2> QED BY <2>2 DEF LoadsOnly
<1>2. \A r \in ByName(i.name) : r = s
  <2>1. ASSUME NEW r \in ByName(i.name) PROVE r = s
    <3>1. IsFirst(s, ByName(i.name))
      BY <1>0, <2>1 DEF IsDestination
    <3> QED BY <2>1, <3>1 DEF IsFirst, ByName, IInv, NamesUnique
  <2> QED BY <2>1
<1>3. todo = {}
  BY <1>0 DEF IInv, NamesUnique
<1>4. NamesUnique'
  <2>1. todo' \subseteq saved' /\ \A j \in todo' : sup' = "restore" /\ ByName(j.name)' = {}
    BY <1>0, <1>3
  <2>2. \A j, k \in saved' : j.name = k.name => j = k
    BY <1>0 DEF SaveTo, IInv, NamesUnique
  <2>3. ASSUME NEW q \in Slots, NEW r \in Slots, q # r, state'[q] # "EMPTY",
               state'[r] # "EMPTY", image'[q].name # NoName
        PROVE  image'[q].name # image'[r].name
    <3>1. CASE q = s
      BY <1>1, <1>2, <2>3, <3>1 DEF ByName
    <3>2. CASE r = s
      BY <1>1, <1>2, <2>3, <3>2 DEF ByName
    <3>3. CASE q # s /\ r # s
      BY <1>1, <2>3, <3>3 DEF IInv, NamesUnique
    <3> QED BY <3>1, <3>2, <3>3
  <2> QED BY <2>1, <2>2, <2>3 DEF NamesUnique
<1>5. saved' \in SUBSET Images /\ todo' \in SUBSET Images
  BY <1>0 DEF SaveTo, IInv, TypeOK
<1> QED BY <1>0, <1>4, <1>5, LoadKeepsIInv

(* A step of the supervisor that changes only its own place, its poll      *)
(* counter or the store.                                                   *)
LEMMA QuietStepKeepsIInv ==
  ASSUME IInv, UNCHANGED <<slotVars, task, free, target, hostFault>>,
         sup' \in SupPoints, waited' \in 0 .. CmdPolls, tx' \in Tasks \cup {NoTask, Orphan},
         sup' = "delay" => sup = "delay",
         sup = "delay" /\ sup' # "delay" => ~pending[target],
         sup' \in {"restore", "frame", "console"} => sup \in {"restore", "frame", "console"},
         saved' \in {saved, {}}, todo' \subseteq saved', todo' \in {todo, {}},
         sup' # "restore" => todo' = {}
  PROVE  IInv'
<1>1. TypeOK'
  BY DEF IInv, TypeOK, slotVars
<1>2. HandlesAgree' /\ ArenaExclusive' /\ PinsExclusive'
  BY DEF IInv, HandlesAgree, ArenaExclusive, PinsExclusive, slotVars
<1>3. NamesUnique'
  BY DEF IInv, NamesUnique, ByName, slotVars
<1>4. HandlersSeeNoFault'
  BY DEF IInv, HandlersSeeNoFault, slotVars
<1>5. OneCommandAtATime'
  BY DEF IInv, OneCommandAtATime, slotVars
<1>6. WaitsOnALiveSlot'
  BY DEF IInv, WaitsOnALiveSlot, slotVars
<1> QED BY <1>1, <1>2, <1>3, <1>4, <1>5, <1>6 DEF IInv

LEMMA PostKeepsIInv ==
  ASSUME IInv, NEW c \in Commands, NEW s \in Slots,
         RunCommand(c, s) \/ CommandNotQueued(c, s)
  PROVE  IInv'
<1>1. /\ sup = "console" /\ state[s] = "RUNNING" /\ image[s].cmd # NoCommand
      /\ pending' = [pending EXCEPT ![s] = TRUE]
      /\ UNCHANGED <<state, image, claims, handle, held, task, free, saved, todo, hostFault>>
      /\ \/ posted' = [posted EXCEPT ![s] = TRUE] /\ sup' = "delay" /\ target' = s /\ waited' = 0
         \/ posted' = posted /\ sup' \in {"wait", "stuck"} /\ UNCHANGED <<target, waited>>
      /\ tx' \in {tx, NoTask, Orphan}
  BY DEF RunCommand, CommandNotQueued, Stage, Writes, IsFirst, ByCommand, savedVars
<1>2. TypeOK'
  <2>1. pending' \in [Slots -> BOOLEAN]
    BY <1>1 DEF IInv, TypeOK
  <2>2. posted' \in [Slots -> BOOLEAN]
    BY <1>1 DEF IInv, TypeOK
  <2>3. target' \in Slots /\ waited' \in 0 .. CmdPolls /\ sup' \in SupPoints
    BY <1>1, ConstantsAssumption DEF IInv, TypeOK, SupPoints
  <2> QED BY <1>1, <2>1, <2>2, <2>3 DEF IInv, TypeOK
<1>3. HandlesAgree' /\ ArenaExclusive' /\ PinsExclusive'
  BY <1>1 DEF IInv, HandlesAgree, ArenaExclusive, PinsExclusive
<1>4. NamesUnique'
  BY <1>1 DEF IInv, NamesUnique, ByName
<1>5. HandlersSeeNoFault'
  BY <1>1 DEF HandlersSeeNoFault
<1>6. OneCommandAtATime'
  <2>1. \A r \in Slots : ~posted[r] /\ ~(handle[r] # NoTask /\ task[handle[r]].at = "cmd")
    BY <1>1 DEF OneCommandAtATime, IInv
  <2> QED BY <1>1, <2>1 DEF OneCommandAtATime, IInv, TypeOK
<1>7. WaitsOnALiveSlot'
  BY <1>1 DEF IInv, WaitsOnALiveSlot
<1> QED BY <1>2, <1>3, <1>4, <1>5, <1>6, <1>7 DEF IInv

(* A reset brings the initial state back, with the store as it was.        *)
LEMMA RestartKeepsIInv ==
  ASSUME IInv, Restart, hostFault' \in BOOLEAN
  PROVE  IInv'
<1>1. TypeOK'
  <2>1. 0 \in Slots /\ 0 \in 0 .. CmdPolls
    BY ConstantsAssumption DEF Slots
  <2>2. saved' \in SUBSET Images /\ todo' \in SUBSET Images
    BY DEF IInv, TypeOK, Restart
  <2> QED BY <2>1, <2>2 DEF TypeOK, Restart, SupPoints
<1>2. HandlesAgree'
  BY DEF Restart, HandlesAgree, Gone
<1>3. ArenaExclusive' /\ PinsExclusive'
  BY DEF Restart, ArenaExclusive, PinsExclusive
<1>4. NamesUnique'
  BY DEF IInv, NamesUnique, Restart, ByName
<1>5. HandlersSeeNoFault' /\ OneCommandAtATime' /\ WaitsOnALiveSlot'
  BY DEF Restart, HandlersSeeNoFault, OneCommandAtATime, WaitsOnALiveSlot
<1> QED BY <1>1, <1>2, <1>3, <1>4, <1>5 DEF IInv

LEMMA SupervisorStepKeepsIInv ==
  ASSUME IInv, SupervisorStep
  PROVE  IInv'
<1>0. /\ TypeOK /\ NamesUnique /\ waited \in 0 .. CmdPolls /\ sup \in SupPoints
      /\ target \in Slots /\ tx \in Tasks \cup {NoTask, Orphan}
  BY DEF IInv, TypeOK
<1>a. sup # "restore" => todo = {}
  BY <1>0 DEF NamesUnique
<1>b. todo \subseteq saved
  BY <1>0 DEF NamesUnique
<1>c. \A to, D : Silent(to, D) \/ Writes(to, D)
        => sup' \in {to, "stuck"} /\ tx' \in Tasks \cup {NoTask, Orphan}
  BY <1>0 DEF Silent, Writes, Left
<1>d. Occupied \in SUBSET Slots /\ {s \in Slots : state[s] = "FAULTED"} \subseteq Occupied
  BY DEF Occupied
<1>1. ASSUME NEW i \in Images, NEW s \in Slots, RestoreOne(i, s) PROVE IInv'
  BY <1>1, RestoreOneKeepsIInv
<1>2. CASE RestoreEnds
  BY <1>2, <1>0, QuietStepKeepsIInv DEF RestoreEnds, SupPoints
<1>3. CASE Wake
  <2>1. /\ sup = "wait" /\ sup' = "scan" /\ tx' \in Tasks \cup {NoTask, Orphan}
        /\ UNCHANGED <<target, waited, slotVars, task, free, savedVars>>
    BY <1>3, <1>c DEF Wake, Stage, Silent
  <2> QED BY <2>1, <1>0, <1>a, <1>b, QuietStepKeepsIInv DEF SupPoints, savedVars
<1>4. CASE Scan
  <2>1. PICK overdue \in SUBSET {s \in Slots : state[s] = "RUNNING" /\ ~Parked(s)} :
          ReclaimOnly({s \in Slots : state[s] = "FAULTED"} \cup overdue, "frame")
    BY <1>4 DEF Scan
  <2>2. sup = "scan" /\ UNCHANGED <<target, waited, saved, todo, hostFault>>
    BY <1>4 DEF Scan, Stage, savedVars
  <2> DEFINE R == {s \in Slots : state[s] = "FAULTED"} \cup overdue
  <2>3. R \in SUBSET Slots /\ {s \in Slots : state[s] = "FAULTED"} \subseteq R
    OBVIOUS
  <2>4. ReclaimOnly(R, "frame")
    BY <2>1
  <2> HIDE DEF R
  <2> QED BY <2>2, <2>3, <2>4, ReclaimAndOutputKeepIInv
<1>5. CASE FrameChangesNothing
  <2>1. /\ sup = "frame" /\ sup' \in {"console", "stuck"} /\ tx' \in Tasks \cup {NoTask, Orphan}
        /\ UNCHANGED <<target, waited, slotVars, task, free, savedVars>>
    BY <1>5, <1>c DEF FrameChangesNothing, Stage
  <2> QED BY <2>1, <1>0, <1>a, <1>b, QuietStepKeepsIInv DEF SupPoints, savedVars
<1>6. ASSUME NEW i \in Images, NEW s \in Slots, HandleLoad(i, s) PROVE IInv'
  BY <1>6, HandleLoadKeepsIInv
<1>7. ASSUME NEW i \in Images, NEW s \in Slots, LoadSticks(i, s) PROVE IInv'
  <2>1. /\ sup = "frame" /\ ReclaimAndWrite({s}, "console")
        /\ UNCHANGED <<target, waited, saved, todo, hostFault>>
    BY <1>7 DEF LoadSticks, ReclaimAndWrite, Stage, savedVars
  <2>2. {r \in Slots : state[r] = "FAULTED"} = {}
    BY <2>1 DEF IInv, HandlersSeeNoFault
  <2> QED BY <2>1, <2>2, ReclaimAndOutputKeepIInv
<1>8. CASE HandleUnload
  <2>1. /\ sup = "frame" /\ ReclaimAndWrite(Occupied, "console")
        /\ UNCHANGED <<target, waited, saved, todo, hostFault>>
    BY <1>8 DEF HandleUnload, Stage, savedVars
  <2> QED BY <2>1, <1>d, ReclaimAndOutputKeepIInv
<1>9. CASE ConsoleChangesNothing
  <2>1. /\ sup = "console" /\ sup' \in {"wait", "stuck"} /\ tx' \in Tasks \cup {NoTask, Orphan}
        /\ UNCHANGED <<target, waited, slotVars, task, free, savedVars>>
    BY <1>9, <1>c DEF ConsoleChangesNothing, Stage
  <2> QED BY <2>1, <1>0, <1>a, <1>b, QuietStepKeepsIInv DEF SupPoints, savedVars
<1>10. CASE ConsoleUnload
  <2>1. /\ sup = "console" /\ ReclaimAndWrite(Occupied, "wait")
        /\ UNCHANGED <<target, waited, saved, todo, hostFault>>
    BY <1>10 DEF ConsoleUnload, Stage, savedVars
  <2> QED BY <2>1, <1>d, ReclaimAndOutputKeepIInv
<1>11. CASE ConsoleForget
  <2>1. /\ sup = "console" /\ sup' \in {"wait", "stuck"} /\ tx' \in Tasks \cup {NoTask, Orphan}
        /\ UNCHANGED <<target, waited, slotVars, task, free, todo, hostFault>> /\ saved' = {}
    BY <1>11, <1>c DEF ConsoleForget, Stage
  <2> QED BY <2>1, <1>0, <1>a, QuietStepKeepsIInv DEF SupPoints
<1>12. ASSUME NEW c \in Commands, NEW s \in Slots, RunCommand(c, s) \/ CommandNotQueued(c, s)
       PROVE IInv'
  BY <1>12, PostKeepsIInv
<1>13. CASE PollDone
  <2>1. /\ sup = "delay" /\ ~pending[target]
        /\ sup' \in {"wait", "stuck"} /\ tx' \in Tasks \cup {NoTask, Orphan}
        /\ UNCHANGED <<target, waited, slotVars, task, free, savedVars>>
    BY <1>13, <1>c DEF PollDone, Stage
  <2> QED BY <2>1, <1>0, <1>a, <1>b, QuietStepKeepsIInv DEF SupPoints, savedVars
<1>14. CASE PollFaulted \/ PollTimeout
  <2>1. /\ sup = "delay" /\ ReclaimAndWrite({target}, "wait") /\ {target} \in SUBSET Slots
        /\ UNCHANGED <<target, waited, saved, todo, hostFault>>
    BY <1>14, <1>0 DEF PollFaulted, PollTimeout, Stage, savedVars
  <2> QED BY <2>1, ReclaimAndOutputKeepIInv
<1>15. CASE PollAgain
  <2>1. waited' \in 0 .. CmdPolls
    BY <1>15, <1>0, ConstantsAssumption DEF PollAgain
  <2>2. /\ sup = "delay" /\ UNCHANGED <<sup, target, tx, slotVars, task, free, savedVars>>
    BY <1>15 DEF PollAgain
  <2> QED BY <2>1, <2>2, <1>0, <1>a, <1>b, QuietStepKeepsIInv DEF SupPoints, savedVars
<1> QED BY <1>1, <1>2, <1>3, <1>4, <1>5, <1>6, <1>7, <1>8, <1>9, <1>10, <1>11,
           <1>12, <1>13, <1>14, <1>15 DEF SupervisorStep

(* The moves of a module other than its end and its faults: the points     *)
(* they join, and what they do to the command it may be serving.           *)
LEMMA ModuleMoveKeepsIInv ==
  ASSUME IInv, NEW t \in Tasks, NEW s \in Slots, IsCaller(s, t),
         NEW from \in TaskPoints \ {"finished", "trap"},
         NEW to \in TaskPoints \ {"finished", "trap"}, Moves(t, from, to),
         UNCHANGED <<state, image, claims, handle, held>>,
         \/ from # "cmd" /\ to # "cmd" /\ UNCHANGED <<pending, posted>>
         \/ /\ posted[s] /\ to = "cmd"
            /\ posted' = [posted EXCEPT ![s] = FALSE] /\ pending' = pending
         \/ /\ from = "cmd" /\ to # "cmd"
            /\ pending' = [pending EXCEPT ![s] = FALSE] /\ posted' = posted,
         to = "finishing" => image[s].cmd = NoCommand
  PROVE  IInv'
<1>0. TypeOK /\ HandlesAgree /\ ArenaExclusive /\ PinsExclusive
  BY DEF IInv
<1>1. /\ task' \in [Tasks -> TaskRecord \cup {Gone}]
      /\ task[t].at = from /\ task'[t].at = to
      /\ task'[t].home = task[t].home /\ task'[t].mem = task[t].mem
      /\ \A u \in Tasks \ {t} : task'[u] = task[u]
  BY <1>0, MovesOneTask
<1>2. pending' \in [Slots -> BOOLEAN] /\ posted' \in [Slots -> BOOLEAN]
  BY <1>0 DEF TypeOK
<1>3. SlotTypes' /\ HandlesAgree' /\ ArenaExclusive' /\ PinsExclusive'
  BY <1>0, <1>2, MoveKeepsTheTable
<1>4. /\ UNCHANGED <<sup, target, waited, saved, todo, hostFault, tx>>
      /\ sup \in {"wait", "delay", "stuck"}
  BY DEF Moves, supVars, savedVars, ModulesRun
<1>5. TypeOK'
  BY <1>0, <1>3, <1>4 DEF TypeOK, SlotTypes
<1>6. NamesUnique'
  BY <1>4 DEF IInv, NamesUnique, ByName
<1>7. HandlersSeeNoFault'
  BY <1>4 DEF HandlersSeeNoFault
<1>8. handle[s] = t /\ t # NoTask
  BY <1>0, CallerIsHome, ConstantsAssumption
<1>9. \A r \in Slots \ {s} : handle[r] # t /\ (handle[r] # NoTask => task'[handle[r]] = task[handle[r]])
  <2>1. \A r \in Slots \ {s} : handle[r] # NoTask => handle[r] # handle[s]
    BY <1>0, HandlesDiffer
  <2> QED BY <1>0, <1>1, <1>8, <2>1 DEF TypeOK
<1>10. OneCommandAtATime'
  <2>1. ASSUME NEW r \in Slots, r # s
        PROVE  /\ posted'[r] = posted[r] /\ pending'[r] = pending[r] /\ handle'[r] = handle[r]
               /\ handle[r] # NoTask => task'[handle[r]] = task[handle[r]]
    BY <2>1, <1>0, <1>9 DEF TypeOK
  <2>2. /\ posted'[s] \/ to = "cmd" => sup = "delay" /\ target = s /\ pending'[s]
        /\ ~(posted'[s] /\ to = "cmd")
    BY <1>0, <1>1, <1>8 DEF IInv, OneCommandAtATime, TypeOK
  <2> QED BY <2>1, <2>2, <1>1, <1>4, <1>8 DEF IInv, OneCommandAtATime
<1>11. WaitsOnALiveSlot'
  <2>1. ASSUME NEW r \in Slots, handle'[r] # NoTask, task'[handle'[r]].at = "finishing"
        PROVE  image'[r].cmd = NoCommand
    BY <2>1, <1>1, <1>8, <1>9 DEF IInv, WaitsOnALiveSlot
  <2> QED BY <2>1, <1>4 DEF IInv, WaitsOnALiveSlot
<1> QED BY <1>3, <1>5, <1>6, <1>7, <1>10, <1>11 DEF IInv

(* A task that steps while it has a handle is the caller of a slot. *)
LEMMA LiveTaskHasASlot ==
  ASSUME TypeOK, HandlesAgree, NEW t \in Tasks, task[t].at \notin {"gone", "finished"}
  PROVE  \E s \in Slots : IsCaller(s, t)
<1>1. task[t].home \in Slots /\ handle[task[t].home] = t
  BY DEF TypeOK, HandlesAgree, TaskRecord, Gone
<1> QED BY <1>1, ConstantsAssumption DEF HandlesAgree, IsCaller

LEMMA MarkFinishedKeepsIInv ==
  ASSUME IInv, NEW t \in Tasks, MarkFinished(t)
  PROVE  IInv'
<1>0. TypeOK /\ HandlesAgree /\ ArenaExclusive /\ PinsExclusive
  BY DEF IInv
<1>1. PICK s \in Slots :
        /\ IsCaller(s, t)
        /\ Moves(t, "finishing", "finished")
        /\ state'  = [state EXCEPT ![s] = "LOADED"]
        /\ handle' = [handle EXCEPT ![s] = NoTask]
        /\ UNCHANGED <<image, claims, held, pending, posted>>
  BY DEF MarkFinished
<1>2. SlotTypes' /\ HandlesAgree' /\ ArenaExclusive' /\ PinsExclusive'
  BY <1>0, MarkFinishedKeepsTheTable
<1>3. /\ UNCHANGED <<sup, target, waited, saved, todo, hostFault, tx>>
      /\ sup \in {"wait", "delay", "stuck"} /\ task[t].at = "finishing"
  BY <1>1 DEF Moves, supVars, savedVars, ModulesRun
<1>4. handle[s] = t /\ t # NoTask /\ state[s] # "EMPTY"
  BY <1>0, <1>1, CallerIsHome, ConstantsAssumption DEF IsCaller
<1>5. \A r \in Slots \ {s} : handle[r] # NoTask => task'[handle[r]] = task[handle[r]]
  <2>1. \A r \in Slots \ {s} : handle[r] # NoTask => handle[r] # handle[s]
    BY <1>0, HandlesDiffer
  <2> QED BY <1>0, <1>1, <1>4, <2>1 DEF TypeOK, Moves
<1>6. /\ \A r \in Slots \ {s} : state'[r] = state[r] /\ handle'[r] = handle[r]
      /\ state'[s] = "LOADED" /\ handle'[s] = NoTask
  BY <1>0, <1>1 DEF TypeOK
<1>7. TypeOK'
  BY <1>0, <1>2, <1>3 DEF TypeOK, SlotTypes
<1>8. NamesUnique'
  BY <1>1, <1>3, <1>4, <1>6 DEF IInv, NamesUnique, ByName
<1>9. HandlersSeeNoFault'
  BY <1>3 DEF HandlersSeeNoFault
<1>10. OneCommandAtATime'
  BY <1>1, <1>3, <1>5, <1>6 DEF IInv, OneCommandAtATime
<1>11. WaitsOnALiveSlot'
  <2>1. image[s].cmd = NoCommand
    BY <1>3, <1>4 DEF IInv, WaitsOnALiveSlot
  <2> QED BY <1>1, <1>3, <1>5, <1>6, <2>1 DEF IInv, WaitsOnALiveSlot
<1> QED BY <1>2, <1>7, <1>8, <1>9, <1>10, <1>11 DEF IInv

LEMMA DeleteSelfKeepsIInv ==
  ASSUME IInv, NEW t \in Tasks, DeleteSelf(t)
  PROVE  IInv'
<1>0. TypeOK /\ HandlesAgree /\ ArenaExclusive /\ PinsExclusive
  BY DEF IInv
<1>1. SlotTypes' /\ HandlesAgree' /\ ArenaExclusive' /\ PinsExclusive'
  BY <1>0, DeleteSelfKeepsTheTable
<1>2. /\ UNCHANGED <<sup, target, waited, saved, todo, hostFault, tx, slotVars>>
      /\ task' = [task EXCEPT ![t] = Gone] /\ task[t].at = "finished"
      /\ sup \in {"wait", "delay", "stuck"}
  BY DEF DeleteSelf, supVars, savedVars, ModulesRun
<1>3. \A s \in Slots : handle[s] # NoTask => task'[handle[s]] = task[handle[s]]
  BY <1>0, <1>2 DEF HandlesAgree, TypeOK
<1>4. TypeOK'
  BY <1>0, <1>1, <1>2 DEF TypeOK, SlotTypes
<1>5. NamesUnique' /\ HandlersSeeNoFault'
  BY <1>2 DEF IInv, NamesUnique, HandlersSeeNoFault, ByName, slotVars
<1>6. OneCommandAtATime' /\ WaitsOnALiveSlot'
  BY <1>2, <1>3 DEF IInv, OneCommandAtATime, WaitsOnALiveSlot, slotVars
<1> QED BY <1>1, <1>4, <1>5, <1>6 DEF IInv

LEMMA FaultKeepsIInv ==
  ASSUME IInv, NEW t \in Tasks, Fault(t)
  PROVE  IInv'
<1>0. TypeOK /\ HandlesAgree /\ ArenaExclusive /\ PinsExclusive
  BY DEF IInv
<1>1. SlotTypes' /\ HandlesAgree' /\ ArenaExclusive' /\ PinsExclusive'
  BY <1>0, FaultKeepsTheTable
<1>2. PICK s \in Slots : state[s] # "EMPTY" /\ state' = [state EXCEPT ![s] = "FAULTED"]
  BY <1>0, FaultTrapsOneTask
<1>3. /\ UNCHANGED <<sup, target, waited, saved, todo, hostFault,
                     image, handle, pending, posted, tx>>
      /\ sup \in {"wait", "delay", "stuck"}
  BY <1>0, FaultTrapsOneTask
<1>4. task'[t].at = "trap" /\ \A u \in Tasks \ {t} : task'[u] = task[u]
  BY <1>0, FaultTrapsOneTask
<1>5. \A r \in Slots : handle[r] # NoTask =>
        task'[handle[r]].at = "trap" \/ task'[handle[r]] = task[handle[r]]
  BY <1>0, <1>4 DEF TypeOK
<1>6. TypeOK'
  BY <1>0, <1>1, <1>3 DEF TypeOK, SlotTypes
<1>7. NamesUnique'
  <2>1. \A r \in Slots : state'[r] # "EMPTY" <=> state[r] # "EMPTY"
    BY <1>0, <1>2 DEF TypeOK
  <2> QED BY <2>1, <1>3 DEF IInv, NamesUnique, ByName
<1>8. HandlersSeeNoFault'
  BY <1>3 DEF HandlersSeeNoFault
<1>9. OneCommandAtATime'
  BY <1>3, <1>5 DEF IInv, OneCommandAtATime
<1>10. WaitsOnALiveSlot'
  <2>1. \A r \in Slots : state[r] \in {"RUNNING", "FAULTED"} => state'[r] \in {"RUNNING", "FAULTED"}
    BY <1>0, <1>2 DEF TypeOK
  <2>2. target \in Slots
    BY <1>0 DEF TypeOK
  <2> QED BY <1>3, <1>5, <2>1, <2>2 DEF IInv, WaitsOnALiveSlot
<1> QED BY <1>1, <1>6, <1>7, <1>8, <1>9, <1>10 DEF IInv

(* A module takes or gives the transmit lock, or nothing happens.          *)
LEMMA LockKeepsIInv ==
  ASSUME IInv, tx' \in Tasks \cup {NoTask, Orphan},
         UNCHANGED <<slotVars, task, free, sup, target, waited, saved, todo, hostFault>>
  PROVE  IInv'
<1>1. TypeOK'
  BY DEF IInv, TypeOK, slotVars
<1>2. HandlesAgree' /\ ArenaExclusive' /\ PinsExclusive'
  BY DEF IInv, HandlesAgree, ArenaExclusive, PinsExclusive, slotVars
<1>3. NamesUnique' /\ HandlersSeeNoFault'
  BY DEF IInv, NamesUnique, HandlersSeeNoFault, ByName, slotVars
<1>4. OneCommandAtATime' /\ WaitsOnALiveSlot'
  BY DEF IInv, OneCommandAtATime, WaitsOnALiveSlot, slotVars
<1> QED BY <1>1, <1>2, <1>3, <1>4 DEF IInv

LEMMA ModuleStepKeepsIInv ==
  ASSUME IInv, NEW t \in Tasks, ModuleStep(t)
  PROVE  IInv'
<1>0. TypeOK /\ HandlesAgree
  BY DEF IInv
<1>1. CASE InitReturns(t)
  <2>1. PICK s \in Slots :
          /\ IsCaller(s, t)
          /\ Moves(t, "init", IF image[s].cmd = NoCommand /\ ~image[s].evt
                              THEN "finishing" ELSE "drain")
          /\ UNCHANGED slotVars
    BY <1>1 DEF InitReturns
  <2>2. CASE image[s].cmd = NoCommand /\ ~image[s].evt
    <3>1. Moves(t, "init", "finishing")
      BY <2>1, <2>2
    <3> QED BY <2>1, <2>2, <3>1, ModuleMoveKeepsIInv DEF TaskPoints, slotVars
  <2>3. CASE ~(image[s].cmd = NoCommand /\ ~image[s].evt)
    <3>1. Moves(t, "init", "drain")
      BY <2>1, <2>3
    <3> QED BY <2>1, <3>1, ModuleMoveKeepsIInv DEF TaskPoints, slotVars
  <2> QED BY <2>2, <2>3
<1>2. CASE MarkFinished(t)
  BY <1>2, MarkFinishedKeepsIInv
<1>3. CASE DeleteSelf(t)
  BY <1>3, DeleteSelfKeepsIInv
<1>4. CASE TakeConsole(t)
  BY <1>4, ModuleMoveKeepsIInv DEF TakeConsole, TaskPoints
<1>5. CASE FinishCmd(t)
  BY <1>5, ModuleMoveKeepsIInv DEF FinishCmd, TaskPoints
<1>6. CASE TakeEvent(t)
  BY <1>6, ModuleMoveKeepsIInv DEF TakeEvent, TaskPoints, slotVars
<1>7. CASE HandlerReturns(t)
  <2>1. PICK s \in Slots : IsCaller(s, t)
    BY <1>0, <1>7, LiveTaskHasASlot DEF HandlerReturns, Moves
  <2> QED BY <1>7, <2>1, ModuleMoveKeepsIInv DEF HandlerReturns, TaskPoints, slotVars
<1>8. CASE Park(t)
  <2>1. PICK s \in Slots : IsCaller(s, t)
    BY <1>0, <1>8, LiveTaskHasASlot DEF Park, Moves
  <2> QED BY <1>8, <2>1, ModuleMoveKeepsIInv DEF Park, TaskPoints, slotVars
<1>9. CASE Unpark(t)
  <2>1. PICK s \in Slots : IsCaller(s, t)
    BY <1>0, <1>9, LiveTaskHasASlot DEF Unpark, Moves
  <2> QED BY <1>9, <2>1, ModuleMoveKeepsIInv DEF Unpark, TaskPoints, slotVars
<1>10. CASE LogTakes(t) \/ LogGives(t)
  <2>1. /\ UNCHANGED <<slotVars, task, free, sup, target, waited, saved, todo, hostFault>>
        /\ tx' \in Tasks \cup {NoTask, Orphan}
    BY <1>10 DEF LogTakes, LogGives, supVars, savedVars
  <2> QED BY <2>1, LockKeepsIInv
<1>11. CASE Fault(t)
  BY <1>11, FaultKeepsIInv
<1>12. CASE FaultResets(t)
  BY <1>12, RestartKeepsIInv DEF FaultResets
<1> QED BY <1>1, <1>2, <1>3, <1>4, <1>5, <1>6, <1>7, <1>8, <1>9, <1>10, <1>11, <1>12
        DEF ModuleStep

LEMMA InitIInv == Init => IInv
<1> SUFFICES ASSUME Init PROVE IInv
  OBVIOUS
<1>1. TypeOK
  <2>1. 0 \in Slots /\ 0 \in 0 .. CmdPolls
    BY ConstantsAssumption DEF Slots
  <2> QED BY <2>1 DEF Init, TypeOK, SupPoints
<1>2. HandlesAgree
  BY DEF Init, HandlesAgree, Gone
<1>3. ArenaExclusive /\ PinsExclusive
  BY DEF Init, ArenaExclusive, PinsExclusive
<1>4. NamesUnique
  BY DEF Init, NamesUnique
<1>5. HandlersSeeNoFault /\ OneCommandAtATime /\ WaitsOnALiveSlot
  BY DEF Init, HandlersSeeNoFault, OneCommandAtATime, WaitsOnALiveSlot
<1> QED BY <1>1, <1>2, <1>3, <1>4, <1>5 DEF IInv

LEMMA NextKeepsIInv == IInv /\ [Next]_vars => IInv'
<1> SUFFICES ASSUME IInv, [Next]_vars PROVE IInv'
  OBVIOUS
<1>1. CASE SupervisorStep
  BY <1>1, SupervisorStepKeepsIInv
<1>2. ASSUME NEW t \in Tasks, ModuleStep(t) PROVE IInv'
  BY <1>2, ModuleStepKeepsIInv
<1>3. CASE PowerCycle
  BY <1>3, RestartKeepsIInv DEF PowerCycle, IInv, TypeOK
<1>4. CASE UNCHANGED vars
  <2>1. UNCHANGED <<slotVars, task, free, tx, sup, target, waited, saved, todo, hostFault>>
    BY <1>4 DEF vars, supVars, savedVars
  <2> QED BY <2>1, LockKeepsIInv DEF IInv, TypeOK
<1> QED BY <1>1, <1>2, <1>3, <1>4 DEF Next

(* The conjunction of the invariants below holds in every reachable state. *)
THEOREM InvariantIsInductive == Spec => []IInv
BY InitIInv, NextKeepsIInv, PTL DEF Spec

-----------------------------------------------------------------------------
(* The theorems *)

(* The slot table, the tasks and the store keep their types. *)
THEOREM TypeCorrect == Spec => []TypeOK
<1>1. IInv => TypeOK
  BY DEF IInv
<1> QED BY <1>1, InvariantIsInductive, PTL

(* No slot's handle ever names a task that is gone or another slot's.      *)
THEOREM HandlesAlwaysAgree == Spec => []HandlesAgree
<1>1. IInv => HandlesAgree
  BY DEF IInv
<1> QED BY <1>1, InvariantIsInductive, PTL

(* No arena block is handed out twice, whichever loads fail in between.    *)
THEOREM ArenaIsExclusive == Spec => []ArenaExclusive
<1>1. IInv => ArenaExclusive
  BY DEF IInv
<1> QED BY <1>1, InvariantIsInductive, PTL

(* How far an early release reaches (supervisor.c:128, module_task.c:119): *)
(* a task that has not marked itself finished runs on blocks its slot      *)
(* holds, which are neither free nor another slot's, nor under another     *)
(* such task.                                                              *)
OnlyTheFinishedLoseMemory ==
  \A t \in Tasks : task[t].at \notin {"gone", "finished"} =>
    /\ task[t].mem # {} /\ task[t].mem \cap free = {}
    /\ \A s \in Slots : s # task[t].home => task[t].mem \cap held[s] = {}
    /\ \A u \in Tasks \ {t} :
         task[u].at \notin {"gone", "finished"} => task[u].mem \cap task[t].mem = {}

(* Only a task that is on its last way to vTaskDelete(NULL) can lose the   *)
(* memory it runs on, whatever is loaded, replaced or reclaimed meanwhile. *)
THEOREM MemoryIsKeptByTheLiving == Spec => []OnlyTheFinishedLoseMemory
<1>1. IInv => OnlyTheFinishedLoseMemory
  <2> SUFFICES ASSUME IInv PROVE OnlyTheFinishedLoseMemory
    OBVIOUS
  <2>1. ASSUME NEW t \in Tasks, task[t].at \notin {"gone", "finished"}
        PROVE  /\ task[t].home \in Slots /\ handle[task[t].home] = t
               /\ task[t].mem = held[task[t].home] /\ state[task[t].home] # "EMPTY"
    <3>1. TypeOK /\ HandlesAgree
      BY DEF IInv
    <3>2. PICK s \in Slots : IsCaller(s, t)
      BY <2>1, <3>1, LiveTaskHasASlot
    <3>3. task[t].home = s /\ task[t].mem = held[s] /\ handle[s] = t /\ state[s] # "EMPTY"
      BY <3>1, <3>2, CallerIsHome
    <3> QED BY <3>3
  <2>2. /\ \A s \in Slots : held[s] \cap free = {} /\ (state[s] # "EMPTY" => held[s] # {})
        /\ \A r, s \in Slots : r # s => held[r] \cap held[s] = {}
    BY DEF IInv, ArenaExclusive
  <2> SUFFICES ASSUME NEW t \in Tasks, task[t].at \notin {"gone", "finished"}
               PROVE  /\ task[t].mem # {} /\ task[t].mem \cap free = {}
                      /\ \A s \in Slots : s # task[t].home => task[t].mem \cap held[s] = {}
                      /\ \A u \in Tasks \ {t} :
                           task[u].at \notin {"gone", "finished"} => task[u].mem \cap task[t].mem = {}
    BY DEF OnlyTheFinishedLoseMemory
  <2>3. /\ task[t].mem # {} /\ task[t].mem \cap free = {}
        /\ \A s \in Slots : s # task[t].home => task[t].mem \cap held[s] = {}
    BY <2>1, <2>2
  <2>4. ASSUME NEW u \in Tasks, u # t, task[u].at \notin {"gone", "finished"}
        PROVE  task[u].mem \cap task[t].mem = {}
    <3>1. task[u].home # task[t].home
      BY <2>1, <2>4
    <3> QED
      BY <2>1, <2>2, <2>4, <3>1
  <2> QED
    BY <2>3, <2>4
<1> QED BY <1>1, InvariantIsInductive, PTL

(* No pin has two owners, and none is the host's, after loads and boots.   *)
THEOREM PinsAreExclusive == Spec => []PinsExclusive
<1>1. IInv => PinsExclusive
  BY DEF IInv
<1> QED BY <1>1, InvariantIsInductive, PTL

(* No two resident modules, and no two saved ones, have one name.          *)
THEOREM NamesAreUnique == Spec => []NamesUnique
<1>1. IInv => NamesUnique
  BY DEF IInv
<1> QED BY <1>1, InvariantIsInductive, PTL

(* Memory, wires and names never have two owners.                          *)
THEOREM NothingIsEverShared == Spec => []NothingIsShared
<1>1. IInv => NothingIsShared
  BY DEF IInv, NothingIsShared
<1> QED BY <1>1, InvariantIsInductive, PTL

(* The handlers of frames and of console lines never meet a faulted slot.  *)
THEOREM HandlersNeverSeeAFault == Spec => []HandlersSeeNoFault
<1>1. IInv => HandlersSeeNoFault
  BY DEF IInv
<1> QED BY <1>1, InvariantIsInductive, PTL

(* The shared argument vector serves one console command at a time.        *)
THEOREM CommandsAreSerial == Spec => []OneCommandAtATime
<1>1. IInv => OneCommandAtATime
  BY DEF IInv
<1> QED BY <1>1, InvariantIsInductive, PTL

(* The supervisor never polls a slot whose module has been replaced.       *)
THEOREM WaitsAreOnLiveSlots == Spec => []WaitsOnALiveSlot
<1>1. IInv => WaitsOnALiveSlot
  BY DEF IInv
<1> QED BY <1>1, InvariantIsInductive, PTL

=============================================================================
