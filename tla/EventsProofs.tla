---------------------------- MODULE EventsProofs -----------------------------
(***************************************************************************)
(* The event layer is safe for any number of slots, tasks, lines, UARTs    *)
(* and images: lines and queues change hands with nothing left behind, no  *)
(* module sees another one's events, and no wake-up is lost.               *)
(***************************************************************************)
EXTENDS Events, SequenceTheorems, TLAPS

-----------------------------------------------------------------------------
(* The inductive invariant: what the properties say of the moments between *)
(* two jobs of the supervisor, said of every moment of a job.              *)

Sources(i)       == i.lines \cup i.uarts
Works(s, phases) == sup.slot = s /\ sup.do \in phases
Live(t)          == task[t].at \notin {"gone", "finished"}

\* Without the image: from the moment it is gone to the one it is complete.
Vacant == {"unhook", "disable", "clear", "close", "forget", "create"}

(* A slot that is not EMPTY and whose job does not say otherwise has its   *)
(* image, and the supervisor knows how far it has come.                    *)
PhasesAgree ==
  /\ \A s \in Slots : Works(s, Vacant) => state[s] = "EMPTY"
  /\ \A s \in Slots : Works(s, {"disable", "clear", "close", "forget", "create"}) => hook[s] = NoTask
  /\ \A s \in Slots : state[s] = "EMPTY" /\ ~Works(s, Vacant) => image[s] = NoImage /\ hook[s] = NoTask
  /\ \A s \in Slots : Works(s, {"create"}) => image[s] = NoImage
  /\ \A s \in Slots : Works(s, {"reset", "arm", "map"}) => image[s] = sup.img
  /\ sup.do \in {"arm", "map"} => sup.left \subseteq Sources(sup.img)

(* A slot that runs has one task and its hook; a task that is not about to *)
(* end has a slot that runs.                                               *)
TasksAgree ==
  /\ \A t \in Tasks : Live(t) => state[task[t].home] = "RUNNING"
  /\ \A t, u \in Tasks : Live(t) /\ Live(u) /\ task[t].home = task[u].home => t = u
  /\ \A t \in Tasks : Live(t) /\ ~Works(task[t].home, {"reset"}) => hook[task[t].home] = t
  /\ \A t \in Tasks : Live(t) => ~Works(task[t].home, {"empty"})
  /\ \A s \in Slots : state[s] = "RUNNING" /\ ~Works(s, {"empty", "reset"}) =>
       hook[s] \in Tasks /\ Runs(hook[s], s)
  /\ sup.do = "reset" =>
       /\ state[sup.slot] = "RUNNING" /\ sup.who \in Tasks
       /\ task[sup.who].at = "init" /\ task[sup.who].home = sup.slot

\* No two images share a source, the one that is being loaded included.
SourcesAreApart ==
  /\ \A r, s \in Slots : r # s => Sources(image[r]) \cap Sources(image[s]) = {}
  /\ \A r \in Slots : r # sup.slot => Sources(image[r]) \cap Sources(sup.img) = {}

\* How much of slot s is armed while its job goes on.
Armed(s, x)     == sup.slot = s /\ sup.do \in {"arm", "map"} => x \notin sup.left
IsMapped(s, p)  == p \in image[s].lines /\ Armed(s, p) /\ ~Works(s, {"close", "forget", "reset"})
IsEnabled(s, p) == p \in image[s].lines /\ Armed(s, p) /\ ~Works(s, {"clear", "close", "forget", "reset"})
IsOpen(s, u)    == u \in image[s].uarts /\ Armed(s, u) /\ ~Works(s, {"forget", "reset"})

ArmedAsMapped == \A s \in Slots, p \in Pins : p \in armed[s] <=> IsMapped(s, p)
OwnedAsMapped == \A s \in Slots, p \in Pins : owner[p] = s <=> IsMapped(s, p)
LinesAsEnabled ==
  /\ \A s \in Slots, p \in Pins : IsEnabled(s, p) => p \in lines
  /\ \A p \in lines : (\E s \in Slots : IsEnabled(s, p)) \/ (sup.do = "map" /\ p \in sup.left)
  /\ sup.do = "map" => \A p, q \in lines \cap sup.left : p = q
UartsAsOpen == \A u \in Uarts : u \in open <=> \E s \in Slots : IsOpen(s, u)

LinesAgree == ArmedAsMapped /\ OwnedAsMapped /\ LinesAsEnabled /\ UartsAsOpen

\* What waits is the slot's own, and nothing waits while its image changes.
QueuesAgree ==
  /\ EventsAreOwn
  /\ \A s \in Slots : Works(s, {"close", "forget", "create"}) => pend[s] = <<>>

IInv ==
  /\ TypeOK
  /\ PhasesAgree
  /\ TasksAgree
  /\ SourcesAreApart
  /\ LinesAgree
  /\ QueuesAgree
  /\ NoLostWakeup

-----------------------------------------------------------------------------
(* Sequences as queues. *)

LEMMA AppendAddsOne ==
  ASSUME NEW S, NEW q \in Seq(S), NEW x \in S
  PROVE  ToSet(Append(q, x)) = ToSet(q) \cup {x}
<1> DEFINE r == Append(q, x)
<1>1. /\ Len(r) = Len(q) + 1 /\ r[Len(q) + 1] = x /\ r \in Seq(S)
      /\ \A k \in 1 .. Len(q) : r[k] = q[k]
  OBVIOUS
<1>2. DOMAIN q = 1 .. Len(q) /\ DOMAIN r = 1 .. Len(q) + 1 /\ Len(q) \in Nat
  BY <1>1
<1> HIDE DEF r
<1>3. ToSet(r) = ToSet(q) \cup {x}
  BY <1>1, <1>2 DEF ToSet
<1> QED
  BY <1>3 DEF r

LEMMA TailTakesOne ==
  ASSUME NEW S, NEW q \in Seq(S), q # <<>>
  PROVE  ToSet(q) = ToSet(Tail(q)) \cup {Head(q)}
<1> DEFINE r == Tail(q)
<1>1. /\ Len(q) \in Nat \ {0} /\ Len(r) = Len(q) - 1 /\ r \in Seq(S) /\ Head(q) = q[1]
      /\ \A k \in 1 .. Len(q) - 1 : r[k] = q[k + 1]
  OBVIOUS
<1>2. DOMAIN q = 1 .. Len(q) /\ DOMAIN r = 1 .. Len(q) - 1
  BY <1>1
<1> HIDE DEF r
<1>3. \A k \in 1 .. Len(q) : k = 1 \/ k - 1 \in 1 .. Len(q) - 1
  BY <1>1
<1>4. ToSet(q) \subseteq ToSet(r) \cup {Head(q)}
  <2> SUFFICES ASSUME NEW k \in 1 .. Len(q), k # 1
               PROVE  q[k] \in ToSet(r)
    BY <1>1, <1>2 DEF ToSet
  <2>1. k - 1 \in 1 .. Len(q) - 1 /\ q[k] = r[k - 1]
    BY <1>1, <1>3
  <2> QED
    BY <2>1, <1>2 DEF ToSet
<1>5. ToSet(r) \cup {Head(q)} \subseteq ToSet(q)
  <2>1. \A k \in 1 .. Len(q) - 1 : k + 1 \in 1 .. Len(q) /\ r[k] = q[k + 1]
    BY <1>1
  <2>2. 1 \in 1 .. Len(q)
    BY <1>1
  <2> QED
    BY <2>1, <2>2, <1>1, <1>2 DEF ToSet
<1> QED
  BY <1>4, <1>5 DEF r

LEMMA NothingInIsEmpty ==
  ASSUME NEW S, NEW q \in Seq(S), ToSet(q) = {}
  PROVE  q = <<>>
<1>1. ASSUME Len(q) # 0 PROVE FALSE
  <2>1. 1 \in DOMAIN q
    BY <1>1
  <2> QED
    BY <2>1 DEF ToSet
<1> QED
  BY <1>1

LEMMA NothingIsInNothing == ToSet(<<>>) = {}
  BY DEF ToSet

-----------------------------------------------------------------------------
(* The types of the state a step leaves. *)

LEMMA IdleIsTyped ==
  Idle \in [do : SupPoints, slot : Slots, img : Images \cup {NoImage},
            left : SUBSET (Pins \cup Uarts), who : Tasks \cup {NoTask}]
  BY EventsAssumption DEF Idle, SupPoints, Slots

LEMMA GoneIsTyped == Gone \in [at : TaskPoints, home : Slots]
  BY EventsAssumption DEF Gone, TaskPoints, Slots

\* A step of a task, task by task.
LEMMA OneTaskMoves ==
  ASSUME TypeOK, NEW t \in Tasks, NEW from, NEW to, Moves(t, from, to)
  PROVE  /\ sup.do \in {"idle", "delay"} /\ task[t].at = from /\ task'[t].at = to
         /\ \A u \in Tasks : task'[u].home = task[u].home
         /\ \A u \in Tasks \ {t} : task'[u] = task[u]
  BY DEF TypeOK, Moves

LEMMA MoveIsTyped ==
  ASSUME TypeOK, NEW t \in Tasks, NEW from, NEW to \in TaskPoints, Moves(t, from, to)
  PROVE  task' \in [Tasks -> [at : TaskPoints, home : Slots]]
<1>1. task \in [Tasks -> [at : TaskPoints, home : Slots]] /\ task' = [task EXCEPT ![t].at = to]
  BY DEF TypeOK, Moves
<1>2. [task[t] EXCEPT !.at = to] \in [at : TaskPoints, home : Slots]
  BY <1>1
<1> QED
  BY <1>1, <1>2

LEMMA ImagesAreTyped ==
  ASSUME NEW i \in Images \cup {NoImage}
  PROVE  i.lines \subseteq Pins /\ i.uarts \subseteq Uarts
  BY EventsAssumption DEF NoImage

LEMMA PostAddsOne ==
  ASSUME TypeOK, NEW s \in Slots, NEW x \in Pins \cup Uarts \cup {Console}
  PROVE  ToSet(Append(pend[s], x)) = ToSet(pend[s]) \cup {x}
<1>1. pend[s] \in Seq(Pins \cup Uarts \cup {Console})
  BY DEF TypeOK
<1> QED
  BY <1>1, AppendAddsOne

LEMMA ReclaimBeginsKeepsIInv ==
  ASSUME IInv, NEW s \in Slots, ReclaimBegins(s)
  PROVE  IInv'
<1>1. TypeOK'
  BY IdleIsTyped DEF IInv, TypeOK, ReclaimBegins, hostVars, SupPoints
<1>2. PhasesAgree'
  BY DEF IInv, PhasesAgree, Works, Vacant, ReclaimBegins, hostVars
<1>3. TasksAgree'
  BY DEF IInv, TasksAgree, Works, Live, Runs, ReclaimBegins, hostVars
<1>4. SourcesAreApart'
  BY DEF IInv, SourcesAreApart, Sources, ReclaimBegins, Idle, NoImage
<1>5. LinesAgree'
  BY DEF IInv, LinesAgree, ArmedAsMapped, OwnedAsMapped, LinesAsEnabled, UartsAsOpen,
      IsMapped, IsEnabled, IsOpen, Armed, Works, ReclaimBegins, hostVars, PhasesAgree,
      Sources, NoImage
<1>6. QueuesAgree'
  BY DEF IInv, QueuesAgree, EventsAreOwn, Works, ReclaimBegins
<1>7. NoLostWakeup'
  BY DEF IInv, NoLostWakeup, Runs, ReclaimBegins
<1> QED
  BY <1>1, <1>2, <1>3, <1>4, <1>5, <1>6, <1>7 DEF IInv

LEMMA LoadBeginsKeepsIInv ==
  ASSUME IInv, NEW s \in Slots, NEW i \in Images, LoadBegins(s, i)
  PROVE  IInv'
<1>a. \A r \in Slots : state[r] = "EMPTY" => image[r] = NoImage /\ pend[r] = <<>>
  <2> SUFFICES ASSUME NEW r \in Slots, state[r] = "EMPTY"
               PROVE  image[r] = NoImage /\ pend[r] = <<>>
    OBVIOUS
  <2>1. image[r] = NoImage
    BY DEF IInv, PhasesAgree, Vacant, Works, LoadBegins
  <2>2. ToSet(pend[r]) = {}
    BY <2>1 DEF IInv, QueuesAgree, EventsAreOwn, Raises, NoImage
  <2> QED
    BY <2>1, <2>2, NothingInIsEmpty DEF IInv, TypeOK
<1>1. TypeOK'
  BY IdleIsTyped DEF IInv, TypeOK, LoadBegins, hostVars, SupPoints
<1>2. PhasesAgree'
  BY DEF IInv, PhasesAgree, Works, Vacant, LoadBegins, hostVars
<1>3. TasksAgree'
  BY DEF IInv, TasksAgree, Works, Live, Runs, LoadBegins, hostVars
<1>4. SourcesAreApart'
  BY <1>a DEF IInv, SourcesAreApart, Sources, LoadBegins, Gone, hostVars, NoImage, NoImage
<1>5. LinesAgree'
  BY DEF IInv, LinesAgree, ArmedAsMapped, OwnedAsMapped, LinesAsEnabled, UartsAsOpen,
      IsMapped, IsEnabled, IsOpen, Armed, Works, LoadBegins, hostVars
<1>6. QueuesAgree'
  BY <1>a DEF IInv, QueuesAgree, EventsAreOwn, Works, LoadBegins
<1>7. NoLostWakeup'
  BY DEF IInv, NoLostWakeup, Runs, LoadBegins
<1> QED
  BY <1>1, <1>2, <1>3, <1>4, <1>5, <1>6, <1>7 DEF IInv

LEMMA LoadEndsKeepsIInv ==
  ASSUME IInv, LoadEnds
  PROVE  IInv'
<1>1. TypeOK'
  BY IdleIsTyped DEF IInv, TypeOK, LoadEnds, hostVars
<1>2. PhasesAgree'
  BY DEF IInv, PhasesAgree, Works, Vacant, LoadEnds, Idle, hostVars
<1>3. TasksAgree'
  BY DEF IInv, TasksAgree, Works, Live, Runs, LoadEnds, Idle, hostVars
<1>4. SourcesAreApart'
  BY DEF IInv, SourcesAreApart, Sources, LoadEnds, Idle, NoImage
<1>5. LinesAgree'
  BY DEF IInv, LinesAgree, ArmedAsMapped, OwnedAsMapped, LinesAsEnabled, UartsAsOpen,
      IsMapped, IsEnabled, IsOpen, Armed, Works, LoadEnds, Idle, hostVars
<1>6. QueuesAgree'
  BY DEF IInv, QueuesAgree, EventsAreOwn, Works, LoadEnds, Idle
<1>7. NoLostWakeup'
  BY DEF IInv, NoLostWakeup, Runs, LoadEnds
<1> QED
  BY <1>1, <1>2, <1>3, <1>4, <1>5, <1>6, <1>7 DEF IInv

LEMMA DelayEndsKeepsIInv ==
  ASSUME IInv, DelayEnds
  PROVE  IInv'
<1>1. TypeOK'
  BY IdleIsTyped DEF IInv, TypeOK, DelayEnds, hostVars
<1>2. PhasesAgree'
  BY DEF IInv, PhasesAgree, Works, Vacant, DelayEnds, Idle, hostVars
<1>3. TasksAgree'
  BY DEF IInv, TasksAgree, Works, Live, Runs, DelayEnds, Idle, hostVars
<1>4. SourcesAreApart'
  BY DEF IInv, SourcesAreApart, Sources, DelayEnds, Idle, NoImage
<1>5. LinesAgree'
  BY DEF IInv, LinesAgree, ArmedAsMapped, OwnedAsMapped, LinesAsEnabled, UartsAsOpen,
      IsMapped, IsEnabled, IsOpen, Armed, Works, DelayEnds, Idle, hostVars
<1>6. QueuesAgree'
  BY DEF IInv, QueuesAgree, EventsAreOwn, Works, DelayEnds, Idle
<1>7. NoLostWakeup'
  BY DEF IInv, NoLostWakeup, Runs, DelayEnds
<1> QED
  BY <1>1, <1>2, <1>3, <1>4, <1>5, <1>6, <1>7 DEF IInv

LEMMA DeleteTaskKeepsIInv ==
  ASSUME IInv, DeleteTask
  PROVE  IInv'
<1>1. TypeOK'
  BY GoneIsTyped DEF IInv, TypeOK, DeleteTask, Does, hostVars, SupPoints
<1>2. PhasesAgree'
  BY DEF IInv, PhasesAgree, Works, Vacant, DeleteTask, Does, hostVars
<1>3. TasksAgree'
  BY DEF IInv, TasksAgree, Works, Live, Runs, DeleteTask, Does, Gone, hostVars
<1>4. SourcesAreApart'
  BY DEF IInv, SourcesAreApart, DeleteTask, Does
<1>5. LinesAgree'
  BY DEF IInv, LinesAgree, ArmedAsMapped, OwnedAsMapped, LinesAsEnabled, UartsAsOpen,
      IsMapped, IsEnabled, IsOpen, Armed, Works, DeleteTask, Does, hostVars
<1>6. QueuesAgree'
  BY DEF IInv, QueuesAgree, EventsAreOwn, Works, DeleteTask, Does
<1>7. NoLostWakeup'
  BY DEF IInv, NoLostWakeup, Runs, DeleteTask, Gone
<1> QED
  BY <1>1, <1>2, <1>3, <1>4, <1>5, <1>6, <1>7 DEF IInv

LEMMA MarkEmptyKeepsIInv ==
  ASSUME IInv, MarkEmpty
  PROVE  IInv'
<1>1. TypeOK'
  BY DEF IInv, TypeOK, MarkEmpty, Does, hostVars, SupPoints
<1>2. PhasesAgree'
  BY DEF IInv, TypeOK, PhasesAgree, Works, Vacant, MarkEmpty, Does, hostVars
<1>3. TasksAgree'
  BY DEF IInv, TypeOK, TasksAgree, Works, Live, Runs, MarkEmpty, Does, hostVars
<1>4. SourcesAreApart'
  BY DEF IInv, SourcesAreApart, MarkEmpty, Does
<1>5. LinesAgree'
  BY DEF IInv, LinesAgree, ArmedAsMapped, OwnedAsMapped, LinesAsEnabled, UartsAsOpen,
      IsMapped, IsEnabled, IsOpen, Armed, Works, MarkEmpty, Does, hostVars
<1>6. QueuesAgree'
  BY DEF IInv, QueuesAgree, EventsAreOwn, Works, MarkEmpty, Does
<1>7. NoLostWakeup'
  BY DEF IInv, TypeOK, NoLostWakeup, Runs, MarkEmpty
<1> QED
  BY <1>1, <1>2, <1>3, <1>4, <1>5, <1>6, <1>7 DEF IInv

LEMMA UnhookKeepsIInv ==
  ASSUME IInv, Unhook
  PROVE  IInv'
<1>1. TypeOK'
  BY DEF IInv, TypeOK, Unhook, Does, SupPoints
<1>2. PhasesAgree'
  BY DEF IInv, TypeOK, PhasesAgree, Works, Vacant, Unhook, Does
<1>3. TasksAgree'
  BY DEF IInv, TypeOK, TasksAgree, Works, Live, Runs, Unhook, Does, PhasesAgree, Vacant
<1>4. SourcesAreApart'
  BY DEF IInv, SourcesAreApart, Unhook, Does
<1>5. LinesAgree'
  BY DEF IInv, LinesAgree, ArmedAsMapped, OwnedAsMapped, LinesAsEnabled, UartsAsOpen,
      IsMapped, IsEnabled, IsOpen, Armed, Works, Unhook, Does
<1>6. QueuesAgree'
  BY DEF IInv, QueuesAgree, EventsAreOwn, Works, Unhook, Does
<1>7. NoLostWakeup'
  BY DEF IInv, NoLostWakeup, Runs, Unhook, Does
<1> QED
  BY <1>1, <1>2, <1>3, <1>4, <1>5, <1>6, <1>7 DEF IInv

LEMMA DisableLinesKeepsIInv ==
  ASSUME IInv, DisableLines
  PROVE  IInv'
<1>1. TypeOK'
  BY DEF IInv, TypeOK, DisableLines, Does, SupPoints
<1>2. PhasesAgree'
  BY DEF IInv, PhasesAgree, Works, Vacant, DisableLines, Does
<1>3. TasksAgree'
  BY DEF IInv, TasksAgree, Works, Live, Runs, DisableLines, Does
<1>4. SourcesAreApart'
  BY DEF IInv, SourcesAreApart, DisableLines, Does
<1>5. LinesAgree'
  BY DEF IInv, TypeOK, LinesAgree, ArmedAsMapped, OwnedAsMapped, LinesAsEnabled,
      UartsAsOpen, IsMapped, IsEnabled, IsOpen, Armed, Works, DisableLines, Does
<1>6. QueuesAgree'
  BY DEF IInv, QueuesAgree, EventsAreOwn, Works, DisableLines, Does
<1>7. NoLostWakeup'
  BY DEF IInv, NoLostWakeup, Runs, DisableLines, Does
<1> QED
  BY <1>1, <1>2, <1>3, <1>4, <1>5, <1>6, <1>7 DEF IInv

LEMMA ClearQueueKeepsIInv ==
  ASSUME IInv, ClearQueue
  PROVE  IInv'
<1>1. TypeOK'
  <2>1. pend' \in [Slots -> Seq(Pins \cup Uarts \cup {Console})]
    BY EmptySeq DEF IInv, TypeOK, ClearQueue
  <2>2. \A s \in Slots : Len(pend'[s]) <= Depth
    BY EventsAssumption DEF IInv, TypeOK, ClearQueue
  <2> QED
    BY <2>1, <2>2 DEF IInv, TypeOK, ClearQueue, Does, SupPoints
<1>2. PhasesAgree'
  BY DEF IInv, PhasesAgree, Works, Vacant, ClearQueue, Does
<1>3. TasksAgree'
  BY DEF IInv, TasksAgree, Works, Live, Runs, ClearQueue, Does
<1>4. SourcesAreApart'
  BY DEF IInv, SourcesAreApart, ClearQueue, Does
<1>5. LinesAgree'
  <2>1. ArmedAsMapped'
    BY DEF IInv, TypeOK, LinesAgree, ArmedAsMapped, IsMapped, Armed, Works, ClearQueue, Does
  <2>2. OwnedAsMapped'
    BY EventsAssumption DEF IInv, LinesAgree, OwnedAsMapped, IsMapped, Armed, Works,
        ClearQueue, Does
  <2>3. LinesAsEnabled'
    BY DEF IInv, LinesAgree, LinesAsEnabled, IsEnabled, Armed, Works, ClearQueue, Does
  <2>4. UartsAsOpen'
    BY DEF IInv, LinesAgree, UartsAsOpen, IsOpen, Armed, Works, ClearQueue, Does
  <2> QED
    BY <2>1, <2>2, <2>3, <2>4 DEF LinesAgree
<1>6. QueuesAgree'
  BY NothingIsInNothing DEF IInv, TypeOK, QueuesAgree, EventsAreOwn, Works, ClearQueue, Does
<1>7. NoLostWakeup'
  BY DEF IInv, TypeOK, NoLostWakeup, Runs, ClearQueue
<1> QED
  BY <1>1, <1>2, <1>3, <1>4, <1>5, <1>6, <1>7 DEF IInv

LEMMA CloseUartsKeepsIInv ==
  ASSUME IInv, CloseUarts
  PROVE  IInv'
<1>1. TypeOK'
  BY DEF IInv, TypeOK, CloseUarts, Does, SupPoints
<1>2. PhasesAgree'
  BY DEF IInv, PhasesAgree, Works, Vacant, CloseUarts, Does
<1>3. TasksAgree'
  BY DEF IInv, TasksAgree, Works, Live, Runs, CloseUarts, Does
<1>4. SourcesAreApart'
  BY DEF IInv, SourcesAreApart, CloseUarts, Does
<1>5. LinesAgree'
  <2>1. ArmedAsMapped'
    BY DEF IInv, LinesAgree, ArmedAsMapped, IsMapped, Armed, Works, CloseUarts, Does
  <2>2. OwnedAsMapped'
    BY DEF IInv, LinesAgree, OwnedAsMapped, IsMapped, Armed, Works, CloseUarts, Does
  <2>3. LinesAsEnabled'
    BY DEF IInv, LinesAgree, LinesAsEnabled, IsEnabled, Armed, Works, CloseUarts, Does
  <2>4. UartsAsOpen'
    BY DEF IInv, TypeOK, LinesAgree, UartsAsOpen, IsOpen, Armed, Works, CloseUarts, Does,
        SourcesAreApart, Sources
  <2> QED
    BY <2>1, <2>2, <2>3, <2>4 DEF LinesAgree
<1>6. QueuesAgree'
  BY DEF IInv, QueuesAgree, EventsAreOwn, Works, CloseUarts, Does
<1>7. NoLostWakeup'
  BY DEF IInv, NoLostWakeup, Runs, CloseUarts, Does
<1> QED
  BY <1>1, <1>2, <1>3, <1>4, <1>5, <1>6, <1>7 DEF IInv

LEMMA ForgetImageKeepsIInv ==
  ASSUME IInv, ForgetImage
  PROVE  IInv'
<1>1. TypeOK'
  BY IdleIsTyped DEF IInv, TypeOK, ForgetImage, hostVars, SupPoints
<1>2. PhasesAgree'
  BY DEF IInv, TypeOK, PhasesAgree, Works, Vacant, ForgetImage, Idle, hostVars
<1>3. TasksAgree'
  BY DEF IInv, TasksAgree, Works, Live, Runs, ForgetImage, Idle, hostVars
<1>4. SourcesAreApart'
  BY DEF IInv, SourcesAreApart, Sources, ForgetImage, Idle, NoImage
<1>5. LinesAgree'
  <2>1. ArmedAsMapped'
    BY DEF IInv, TypeOK, LinesAgree, ArmedAsMapped, IsMapped, Armed, Works, ForgetImage,
        Idle, hostVars, NoImage
  <2>2. OwnedAsMapped'
    BY DEF IInv, TypeOK, LinesAgree, OwnedAsMapped, IsMapped, Armed, Works, ForgetImage,
        Idle, hostVars, NoImage
  <2>3. LinesAsEnabled'
    BY DEF IInv, TypeOK, LinesAgree, LinesAsEnabled, IsEnabled, Armed, Works, ForgetImage,
        Idle, hostVars, NoImage
  <2>4. UartsAsOpen'
    BY DEF IInv, TypeOK, LinesAgree, UartsAsOpen, IsOpen, Armed, Works, ForgetImage, Idle,
        hostVars, NoImage
  <2> QED
    BY <2>1, <2>2, <2>3, <2>4 DEF LinesAgree
<1>6. QueuesAgree'
  BY NothingIsInNothing DEF IInv, QueuesAgree, EventsAreOwn, Works, ForgetImage, Idle
<1>7. NoLostWakeup'
  BY DEF IInv, NoLostWakeup, Runs, ForgetImage
<1> QED
  BY <1>1, <1>2, <1>3, <1>4, <1>5, <1>6, <1>7 DEF IInv

LEMMA CreateTaskKeepsIInv ==
  ASSUME IInv, NEW t \in Tasks, CreateTask(t)
  PROVE  IInv'
<1>a. /\ sup.slot \in Slots /\ state[sup.slot] = "EMPTY" /\ image[sup.slot] = NoImage
      /\ pend[sup.slot] = <<>>
  BY DEF IInv, TypeOK, PhasesAgree, QueuesAgree, Vacant, Works, CreateTask
<1>1. TypeOK'
  BY DEF IInv, TypeOK, CreateTask, hostVars, SupPoints, TaskPoints
<1>2. PhasesAgree'
  BY DEF IInv, TypeOK, PhasesAgree, Works, Vacant, CreateTask, hostVars
<1>3. TasksAgree'
  BY <1>a DEF IInv, TypeOK, TasksAgree, Works, Live, Runs, CreateTask, Gone, hostVars
<1>4. SourcesAreApart'
  BY DEF IInv, SourcesAreApart, CreateTask
<1>5. LinesAgree'
  <2>1. \A s \in Slots, p \in Pins :
          IsMapped(s, p)' <=> IsMapped(s, p)
    BY <1>a DEF IsMapped, Armed, Works, CreateTask, NoImage
  <2>2. \A s \in Slots, p \in Pins :
          IsEnabled(s, p)' <=> IsEnabled(s, p)
    BY <1>a DEF IsEnabled, Armed, Works, CreateTask, NoImage
  <2>3. \A s \in Slots, u \in Uarts :
          IsOpen(s, u)' <=> IsOpen(s, u)
    BY <1>a DEF IsOpen, Armed, Works, CreateTask, NoImage
  <2>4. (ArmedAsMapped /\ OwnedAsMapped)'
    BY <2>1 DEF IInv, LinesAgree, ArmedAsMapped, OwnedAsMapped, CreateTask, hostVars
  <2>5. LinesAsEnabled'
    BY <2>2 DEF IInv, TypeOK, LinesAgree, LinesAsEnabled, CreateTask, hostVars
  <2>6. UartsAsOpen'
    BY <2>3 DEF IInv, LinesAgree, UartsAsOpen, CreateTask, hostVars
  <2> QED
    BY <2>4, <2>5, <2>6 DEF LinesAgree
<1>6. QueuesAgree'
  BY <1>a, NothingIsInNothing DEF IInv, QueuesAgree, EventsAreOwn, Works, CreateTask
<1>7. NoLostWakeup'
  BY <1>a DEF IInv, NoLostWakeup, Runs, CreateTask
<1> QED
  BY <1>1, <1>2, <1>3, <1>4, <1>5, <1>6, <1>7 DEF IInv

LEMMA ResetQueueKeepsIInv ==
  ASSUME IInv, ResetQueue
  PROVE  IInv'
<1>1. TypeOK'
  <2>1. pend' \in [Slots -> Seq(Pins \cup Uarts \cup {Console})]
    BY EmptySeq DEF IInv, TypeOK, ResetQueue
  <2>2. \A s \in Slots : Len(pend'[s]) <= Depth
    BY EventsAssumption DEF IInv, TypeOK, ResetQueue
  <2> QED
    BY <2>1, <2>2, ImagesAreTyped DEF IInv, TypeOK, ResetQueue, SupPoints
<1>2. PhasesAgree'
  BY DEF IInv, PhasesAgree, Works, Vacant, Sources, ResetQueue, TasksAgree
<1>3. TasksAgree'
  BY DEF IInv, TypeOK, TasksAgree, Works, Live, Runs, ResetQueue
<1>4. SourcesAreApart'
  BY DEF IInv, TypeOK, SourcesAreApart, ResetQueue
<1>5. LinesAgree'
  <2>1. ArmedAsMapped'
    BY DEF IInv, LinesAgree, ArmedAsMapped, IsMapped, Armed, Works, ResetQueue, PhasesAgree
  <2>2. OwnedAsMapped'
    BY DEF IInv, LinesAgree, OwnedAsMapped, IsMapped, Armed, Works, ResetQueue, PhasesAgree
  <2>3. LinesAsEnabled'
    BY DEF IInv, LinesAgree, LinesAsEnabled, IsEnabled, Armed, Works, ResetQueue,
        PhasesAgree
  <2>4. UartsAsOpen'
    BY DEF IInv, LinesAgree, UartsAsOpen, IsOpen, Armed, Works, ResetQueue, PhasesAgree
  <2> QED
    BY <2>1, <2>2, <2>3, <2>4 DEF LinesAgree
<1>6. QueuesAgree'
  BY NothingIsInNothing DEF IInv, QueuesAgree, EventsAreOwn, Works, ResetQueue
<1>7. NoLostWakeup'
  BY DEF IInv, NoLostWakeup, Runs, ResetQueue
<1> QED
  BY <1>1, <1>2, <1>3, <1>4, <1>5, <1>6, <1>7 DEF IInv

LEMMA EnableLineKeepsIInv ==
  ASSUME IInv, NEW p \in Pins, EnableLine(p)
  PROVE  IInv'
<1>a. /\ sup.slot \in Slots /\ image[sup.slot] = sup.img /\ p \notin Uarts
      /\ \A s \in Slots, q \in sup.left : q \in image[s].lines => s = sup.slot
  BY EventsAssumption DEF IInv, TypeOK, PhasesAgree, SourcesAreApart, Sources, Works,
      EnableLine, Does
<1>1. TypeOK'
  BY DEF IInv, TypeOK, EnableLine, Does, SupPoints
<1>2. PhasesAgree'
  BY DEF IInv, PhasesAgree, Works, Vacant, EnableLine, Does
<1>3. TasksAgree'
  BY DEF IInv, TasksAgree, Works, Live, Runs, EnableLine, Does
<1>4. SourcesAreApart'
  BY DEF IInv, SourcesAreApart, EnableLine, Does
<1>5. LinesAgree'
  <2>1. ArmedAsMapped'
    BY DEF IInv, LinesAgree, ArmedAsMapped, IsMapped, Armed, Works, EnableLine, Does
  <2>2. OwnedAsMapped'
    BY DEF IInv, LinesAgree, OwnedAsMapped, IsMapped, Armed, Works, EnableLine, Does
  <2>3. LinesAsEnabled'
    BY <1>a DEF IInv, LinesAgree, LinesAsEnabled, IsEnabled, Armed, Works, EnableLine, Does
  <2>4. UartsAsOpen'
    BY DEF IInv, LinesAgree, UartsAsOpen, IsOpen, Armed, Works, EnableLine, Does
  <2> QED
    BY <2>1, <2>2, <2>3, <2>4 DEF LinesAgree
<1>6. QueuesAgree'
  BY DEF IInv, QueuesAgree, EventsAreOwn, Works, EnableLine, Does
<1>7. NoLostWakeup'
  BY DEF IInv, NoLostWakeup, Runs, EnableLine, Does
<1> QED
  BY <1>1, <1>2, <1>3, <1>4, <1>5, <1>6, <1>7 DEF IInv

LEMMA MapLineKeepsIInv ==
  ASSUME IInv, NEW p \in Pins, MapLine(p)
  PROVE  IInv'
<1>a. /\ sup.slot \in Slots /\ image[sup.slot] = sup.img /\ p \in sup.img.lines /\ p \notin Uarts
      /\ \A s \in Slots : p \in image[s].lines => s = sup.slot
  BY EventsAssumption, ImagesAreTyped DEF IInv, TypeOK, PhasesAgree, SourcesAreApart,
      Sources, Works, MapLine
<1>1. TypeOK'
  BY DEF IInv, TypeOK, MapLine, SupPoints
<1>2. PhasesAgree'
  BY DEF IInv, PhasesAgree, Works, Vacant, MapLine
<1>3. TasksAgree'
  BY DEF IInv, TasksAgree, Works, Live, Runs, MapLine
<1>4. SourcesAreApart'
  BY DEF IInv, SourcesAreApart, MapLine
<1>5. LinesAgree'
  <2>1. ArmedAsMapped'
    BY <1>a DEF IInv, TypeOK, LinesAgree, ArmedAsMapped, IsMapped, Armed, Works, MapLine
  <2>2. OwnedAsMapped'
    BY <1>a DEF IInv, TypeOK, LinesAgree, OwnedAsMapped, IsMapped, Armed, Works, MapLine
  <2>3. LinesAsEnabled'
    BY <1>a DEF IInv, LinesAgree, LinesAsEnabled, IsEnabled, Armed, Works, MapLine
  <2>4. UartsAsOpen'
    BY <1>a DEF IInv, LinesAgree, UartsAsOpen, IsOpen, Armed, Works, MapLine
  <2> QED
    BY <2>1, <2>2, <2>3, <2>4 DEF LinesAgree
<1>6. QueuesAgree'
  BY DEF IInv, QueuesAgree, EventsAreOwn, Works, MapLine
<1>7. NoLostWakeup'
  BY DEF IInv, NoLostWakeup, Runs, MapLine
<1> QED
  BY <1>1, <1>2, <1>3, <1>4, <1>5, <1>6, <1>7 DEF IInv

LEMMA OpenUartKeepsIInv ==
  ASSUME IInv, NEW u \in Uarts, OpenUart(u)
  PROVE  IInv'
<1>1. TypeOK'
  BY DEF IInv, TypeOK, OpenUart
<1>2. PhasesAgree'
  BY DEF IInv, PhasesAgree, Works, OpenUart
<1>3. TasksAgree'
  BY DEF IInv, TasksAgree, Works, Live, Runs, OpenUart
<1>4. SourcesAreApart'
  BY DEF IInv, SourcesAreApart, OpenUart
<1>5. LinesAgree'
  <2>1. ArmedAsMapped'
    BY EventsAssumption DEF IInv, LinesAgree, ArmedAsMapped, IsMapped, Armed, Works,
        OpenUart
  <2>2. OwnedAsMapped'
    BY EventsAssumption DEF IInv, LinesAgree, OwnedAsMapped, IsMapped, Armed, Works,
        OpenUart
  <2>3. LinesAsEnabled'
    BY EventsAssumption DEF IInv, LinesAgree, LinesAsEnabled, IsEnabled, Armed, Works,
        OpenUart
  <2>4. UartsAsOpen'
    BY EventsAssumption DEF IInv, TypeOK, LinesAgree, UartsAsOpen, IsOpen, Armed, Works,
        OpenUart, PhasesAgree, Sources, NoImage
  <2> QED
    BY <2>1, <2>2, <2>3, <2>4 DEF LinesAgree
<1>6. QueuesAgree'
  BY DEF IInv, QueuesAgree, EventsAreOwn, Works, OpenUart
<1>7. NoLostWakeup'
  BY DEF IInv, NoLostWakeup, Runs, OpenUart
<1> QED
  BY <1>1, <1>2, <1>3, <1>4, <1>5, <1>6, <1>7 DEF IInv

LEMMA PostConsoleKeepsIInv ==
  ASSUME IInv, NEW s \in Slots, PostConsole(s)
  PROVE  IInv'
<1>1. TypeOK'
  <2>1. pend' \in [Slots -> Seq(Pins \cup Uarts \cup {Console})]
    BY AppendProperties DEF IInv, TypeOK, PostConsole
  <2>2. \A r \in Slots : Len(pend'[r]) <= Depth
    BY EventsAssumption DEF IInv, TypeOK, PostConsole
  <2> QED
    BY <2>1, <2>2, IdleIsTyped DEF IInv, TypeOK, PostConsole, hostVars, SupPoints
<1>2. PhasesAgree'
  BY DEF IInv, PhasesAgree, Works, Vacant, PostConsole, hostVars
<1>3. TasksAgree'
  BY DEF IInv, TasksAgree, Works, Live, Runs, PostConsole, hostVars
<1>4. SourcesAreApart'
  BY DEF IInv, SourcesAreApart, Sources, PostConsole, Idle, NoImage
<1>5. LinesAgree'
  BY DEF IInv, LinesAgree, ArmedAsMapped, OwnedAsMapped, LinesAsEnabled, UartsAsOpen,
      IsMapped, IsEnabled, IsOpen, Armed, Works, PostConsole, hostVars
<1>6. QueuesAgree'
  <2>1. pend'[s] = Append(pend[s], Console) /\ \A r \in Slots \ {s} : pend'[r] = pend[r]
    BY DEF IInv, TypeOK, PostConsole
  <2>2. ToSet(pend'[s]) = ToSet(pend[s]) \cup {Console}
    BY <2>1, PostAddsOne DEF IInv
  <2>3. Console \in Raises(image[s])
    BY DEF PostConsole, Raises
  <2>4. EventsAreOwn'
    BY <2>1, <2>2, <2>3 DEF IInv, QueuesAgree, EventsAreOwn, PostConsole
  <2> QED
    BY <2>4 DEF QueuesAgree, Works, PostConsole
<1>7. NoLostWakeup'
  BY DEF IInv, NoLostWakeup, Runs, PostConsole, Idle
<1> QED
  BY <1>1, <1>2, <1>3, <1>4, <1>5, <1>6, <1>7 DEF IInv

LEMMA GiveKeepsIInv ==
  ASSUME IInv, Give
  PROVE  IInv'
<1>1. TypeOK'
  BY DEF IInv, TypeOK, Give, Does, Wake, hostVars, SupPoints
<1>2. PhasesAgree'
  BY DEF IInv, PhasesAgree, Works, Vacant, Give, Does, hostVars
<1>3. TasksAgree'
  BY DEF IInv, TasksAgree, Works, Live, Runs, Give, Does, hostVars
<1>4. SourcesAreApart'
  BY DEF IInv, SourcesAreApart, Give, Does
<1>5. LinesAgree'
  BY DEF IInv, LinesAgree, ArmedAsMapped, OwnedAsMapped, LinesAsEnabled, UartsAsOpen,
      IsMapped, IsEnabled, IsOpen, Armed, Works, Give, Does, hostVars
<1>6. QueuesAgree'
  BY DEF IInv, QueuesAgree, EventsAreOwn, Works, Give, Does
<1>7. NoLostWakeup'
  <2> SUFFICES ASSUME NEW t \in Tasks, NEW s \in Slots,
                      Runs(t, s), task[t].at \in {"parking", "wait"}, pend[s] # <<>>
               PROVE  t \in notified'
    BY DEF NoLostWakeup, Runs, Give
  <2>1. CASE t \in notified
    BY <2>1 DEF Give, Wake
  <2>2. CASE sup.slot = s
    <3>1. hook[s] = t
      BY <2>2 DEF IInv, TasksAgree, Works, Live, Runs
    <3> QED
      BY <2>2, <3>1 DEF Give, Wake
  <2> QED
    BY <2>1, <2>2 DEF IInv, NoLostWakeup
<1> QED
  BY <1>1, <1>2, <1>3, <1>4, <1>5, <1>6, <1>7 DEF IInv

LEMMA InitReturnsKeepsIInv ==
  ASSUME IInv, NEW t \in Tasks, InitReturns(t)
  PROVE  IInv'
<1>0. PICK to \in {"drain", "finished"} :
         /\ Moves(t, "init", to)
         /\ state' = [state EXCEPT ![task[t].home] = IF to = "drain" THEN @ ELSE "LOADED"]
  BY DEF InitReturns, Own
<1>a. /\ sup.do \in {"idle", "delay"} /\ task[t].at = "init"
      /\ task'[t].at = to
      /\ \A u \in Tasks : task'[u].home = task[u].home
      /\ \A u \in Tasks \ {t} : task'[u] = task[u]
      /\ task' \in [Tasks -> [at : TaskPoints, home : Slots]]
  BY <1>0, OneTaskMoves, MoveIsTyped DEF IInv, TaskPoints
<1>1. TypeOK'
  <2>1. state' \in [Slots -> {"EMPTY", "LOADED", "RUNNING"}]
    BY DEF IInv, TypeOK, InitReturns, Own
  <2> QED
    BY <1>a, <2>1 DEF IInv, TypeOK, InitReturns, hostVars
<1>2. PhasesAgree'
  BY DEF IInv, PhasesAgree, Works, Vacant, InitReturns, Moves, hostVars
<1>3. TasksAgree'
  <2>1. /\ Live(t) /\ task[t].home \in Slots
        /\ state \in [Slots -> {"EMPTY", "LOADED", "RUNNING"}]
        /\ UNCHANGED <<hook, sup, image>>
    BY <1>a DEF Live, IInv, TypeOK, InitReturns, hostVars
  <2>2. CASE to = "drain"
    <3>1. state' = state
      BY <1>0, <2>1, <2>2
    <3>2. \A u \in Tasks : Live(u)' <=> Live(u)
      BY <1>a, <2>2 DEF Live
    <3>3. \A u \in Tasks, s \in Slots : Runs(u, s)' <=> Runs(u, s)
      BY <1>a, <2>2, <3>1 DEF Runs
    <3> QED
      BY <1>a, <2>1, <3>1, <3>2, <3>3 DEF IInv, TasksAgree, Works
  <2>3. CASE to = "finished"
    <3>1. /\ state'[task[t].home] = "LOADED"
          /\ \A s \in Slots \ {task[t].home} : state'[s] = state[s]
      BY <1>0, <2>1, <2>3
    <3>2. \A u \in Tasks : Live(u)' => Live(u) /\ u # t
      BY <1>a, <2>3 DEF Live
    <3>3. \A u \in Tasks : Live(u)' => task[u].home # task[t].home
      BY <2>1, <3>2 DEF IInv, TasksAgree
    <3>4. \A u \in Tasks, s \in Slots \ {task[t].home} : Runs(u, s) => Runs(u, s)'
      BY <1>a, <3>1 DEF Runs
    <3>5. \A u \in Tasks : task[u].home \in Slots
      BY DEF IInv, TypeOK
    <3> QED
      BY <1>a, <2>1, <3>1, <3>2, <3>3, <3>4, <3>5 DEF IInv, TasksAgree, Works
  <2> QED
    BY <2>2, <2>3
<1>4. SourcesAreApart'
  BY DEF IInv, SourcesAreApart, InitReturns
<1>5. LinesAgree'
  BY DEF IInv, LinesAgree, ArmedAsMapped, OwnedAsMapped, LinesAsEnabled, UartsAsOpen,
      IsMapped, IsEnabled, IsOpen, Armed, Works, InitReturns, hostVars
<1>6. QueuesAgree'
  BY DEF IInv, QueuesAgree, EventsAreOwn, Works, InitReturns
<1>7. NoLostWakeup'
  BY <1>a DEF IInv, NoLostWakeup, Runs, InitReturns, Moves
<1> QED
  BY <1>1, <1>2, <1>3, <1>4, <1>5, <1>6, <1>7 DEF IInv

LEMMA DeleteSelfKeepsIInv ==
  ASSUME IInv, NEW t \in Tasks, DeleteSelf(t)
  PROVE  IInv'
<1>1. TypeOK'
  BY GoneIsTyped DEF IInv, TypeOK, DeleteSelf, hostVars
<1>2. PhasesAgree'
  BY DEF IInv, PhasesAgree, Works, DeleteSelf, hostVars
<1>3. TasksAgree'
  BY DEF IInv, TasksAgree, Works, Live, Runs, DeleteSelf, Gone, hostVars
<1>4. SourcesAreApart'
  BY DEF IInv, SourcesAreApart, DeleteSelf
<1>5. LinesAgree'
  BY DEF IInv, LinesAgree, ArmedAsMapped, OwnedAsMapped, LinesAsEnabled, UartsAsOpen,
      IsMapped, IsEnabled, IsOpen, Armed, Works, DeleteSelf, hostVars
<1>6. QueuesAgree'
  BY DEF IInv, QueuesAgree, EventsAreOwn, Works, DeleteSelf
<1>7. NoLostWakeup'
  BY DEF IInv, NoLostWakeup, Runs, DeleteSelf, Gone
<1> QED
  BY <1>1, <1>2, <1>3, <1>4, <1>5, <1>6, <1>7 DEF IInv

LEMMA TakeKeepsIInv ==
  ASSUME IInv, NEW t \in Tasks, Take(t)
  PROVE  IInv'
<1>a. PICK to \in {"cmd", "evt", "drain"} : Moves(t, "drain", to)
  BY DEF Take, HandledAt
<1>b. /\ sup.do \in {"idle", "delay"} /\ task[t].at = "drain" /\ task'[t].at = to
      /\ \A u \in Tasks : task'[u].home = task[u].home
      /\ \A u \in Tasks \ {t} : task'[u] = task[u]
  BY <1>a, OneTaskMoves DEF IInv
<1>c. UNCHANGED <<state, image, hostVars, notified, sup>>
  BY DEF Take
<1>1. TypeOK'
  <2>1. pend' \in [Slots -> Seq(Pins \cup Uarts \cup {Console})]
    BY HeadTailProperties DEF IInv, TypeOK, Take
  <2>2. \A s \in Slots : Len(pend'[s]) <= Depth
    BY EventsAssumption DEF IInv, TypeOK, Take
  <2>3. task' \in [Tasks -> [at : TaskPoints, home : Slots]]
    BY <1>a, MoveIsTyped DEF IInv, TaskPoints
  <2>4. UNCHANGED sup
    BY <1>c
  <2> QED
    BY <1>c, <2>1, <2>2, <2>3, <2>4 DEF IInv, TypeOK, hostVars
<1>2. PhasesAgree'
  BY DEF IInv, PhasesAgree, Works, Take, hostVars
<1>3. TasksAgree'
  BY DEF IInv, TasksAgree, Works, Live, Runs, Take, Moves, HandledAt, hostVars
<1>4. SourcesAreApart'
  BY DEF IInv, SourcesAreApart, Take
<1>5. LinesAgree'
  BY DEF IInv, LinesAgree, ArmedAsMapped, OwnedAsMapped, LinesAsEnabled, UartsAsOpen,
      IsMapped, IsEnabled, IsOpen, Armed, Works, Take, hostVars
<1>6. QueuesAgree'
  BY TailTakesOne, NothingIsInNothing DEF IInv, TypeOK, QueuesAgree, EventsAreOwn, Works,
      Take
<1>7. NoLostWakeup'
  BY <1>b DEF IInv, NoLostWakeup, Runs, Take, Own, hostVars
<1> QED
  BY <1>1, <1>2, <1>3, <1>4, <1>5, <1>6, <1>7 DEF IInv

LEMMA HandlerReturnsKeepsIInv ==
  ASSUME IInv, NEW t \in Tasks, HandlerReturns(t)
  PROVE  IInv'
<1>a. PICK from \in {"evt", "cmd"} : Moves(t, from, "drain")
  BY DEF HandlerReturns
<1>b. /\ sup.do \in {"idle", "delay"} /\ task[t].at \in {"evt", "cmd"} /\ task'[t].at = "drain"
      /\ \A u \in Tasks : task'[u].home = task[u].home
      /\ \A u \in Tasks \ {t} : task'[u] = task[u]
  BY <1>a, OneTaskMoves DEF IInv
<1>c. UNCHANGED <<state, image, pend, hostVars, notified, sup>>
  BY DEF HandlerReturns
<1>1. TypeOK'
  <2>1. task' \in [Tasks -> [at : TaskPoints, home : Slots]]
    BY <1>a, MoveIsTyped DEF IInv, TaskPoints
  <2> QED
    BY <1>b, <1>c, <2>1 DEF IInv, TypeOK, hostVars
<1>2. PhasesAgree'
  BY DEF IInv, PhasesAgree, Works, HandlerReturns, hostVars
<1>3. TasksAgree'
  <2>1. \A u \in Tasks : Live(u)' <=> Live(u)
    BY <1>b DEF Live
  <2>2. \A u \in Tasks, s \in Slots : Runs(u, s)' <=> Runs(u, s)
    BY <1>b, <1>c DEF Runs
  <2> QED
    BY <1>b, <1>c, <2>1, <2>2 DEF IInv, TasksAgree, Works, hostVars
<1>4. SourcesAreApart'
  BY DEF IInv, SourcesAreApart, HandlerReturns
<1>5. LinesAgree'
  BY DEF IInv, LinesAgree, ArmedAsMapped, OwnedAsMapped, LinesAsEnabled, UartsAsOpen,
      IsMapped, IsEnabled, IsOpen, Armed, Works, HandlerReturns, hostVars
<1>6. QueuesAgree'
  BY DEF IInv, QueuesAgree, EventsAreOwn, Works, HandlerReturns
<1>7. NoLostWakeup'
  BY <1>b, <1>c DEF IInv, NoLostWakeup, Runs, hostVars
<1> QED
  BY <1>1, <1>2, <1>3, <1>4, <1>5, <1>6, <1>7 DEF IInv

LEMMA DrainedKeepsIInv ==
  ASSUME IInv, NEW t \in Tasks, Drained(t)
  PROVE  IInv'
<1>1. TypeOK'
  <2>1. task' \in [Tasks -> [at : TaskPoints, home : Slots]]
    BY MoveIsTyped DEF IInv, TaskPoints, Drained
  <2> QED
    BY <2>1 DEF IInv, TypeOK, Drained, hostVars
<1>2. PhasesAgree'
  BY DEF IInv, PhasesAgree, Works, Drained, hostVars
<1>3. TasksAgree'
  BY DEF IInv, TasksAgree, Works, Live, Runs, Drained, Moves, hostVars
<1>4. SourcesAreApart'
  BY DEF IInv, SourcesAreApart, Drained
<1>5. LinesAgree'
  BY DEF IInv, LinesAgree, ArmedAsMapped, OwnedAsMapped, LinesAsEnabled, UartsAsOpen,
      IsMapped, IsEnabled, IsOpen, Armed, Works, Drained, hostVars
<1>6. QueuesAgree'
  BY NothingIsInNothing DEF IInv, QueuesAgree, EventsAreOwn, Works, Drained
<1>7. NoLostWakeup'
  BY DEF IInv, NoLostWakeup, Runs, Drained, Moves, Own, hostVars
<1> QED
  BY <1>1, <1>2, <1>3, <1>4, <1>5, <1>6, <1>7 DEF IInv

LEMMA NotifyTakeKeepsIInv ==
  ASSUME IInv, NEW t \in Tasks, NotifyTake(t)
  PROVE  IInv'
<1>a. PICK to \in {"drain", "wait"} : Moves(t, "parking", to) /\ (to = "wait" => t \notin notified)
  BY DEF NotifyTake
<1>b. /\ task[t].at = "parking" /\ task'[t].at = to
      /\ \A u \in Tasks : task'[u].home = task[u].home /\ (u # t => task'[u].at = task[u].at)
      /\ task' \in [Tasks -> [at : TaskPoints, home : Slots]]
  BY <1>a, OneTaskMoves, MoveIsTyped DEF IInv, TaskPoints
<1>1. TypeOK'
  <2>1. notified' \subseteq Tasks
    BY DEF IInv, TypeOK, NotifyTake
  <2> QED
    BY <1>b, <2>1 DEF IInv, TypeOK, NotifyTake, hostVars
<1>2. PhasesAgree'
  BY DEF IInv, PhasesAgree, Works, NotifyTake, hostVars
<1>3. TasksAgree'
  BY DEF IInv, TasksAgree, Works, Live, Runs, NotifyTake, Moves, hostVars
<1>4. SourcesAreApart'
  BY DEF IInv, SourcesAreApart, NotifyTake
<1>5. LinesAgree'
  BY DEF IInv, LinesAgree, ArmedAsMapped, OwnedAsMapped, LinesAsEnabled, UartsAsOpen,
      IsMapped, IsEnabled, IsOpen, Armed, Works, NotifyTake, hostVars
<1>6. QueuesAgree'
  BY DEF IInv, QueuesAgree, EventsAreOwn, Works, NotifyTake
<1>7. NoLostWakeup'
  BY <1>a, <1>b DEF IInv, NoLostWakeup, Runs, NotifyTake
<1> QED
  BY <1>1, <1>2, <1>3, <1>4, <1>5, <1>6, <1>7 DEF IInv

LEMMA WokenKeepsIInv ==
  ASSUME IInv, NEW t \in Tasks, Woken(t)
  PROVE  IInv'
<1>b. /\ task[t].at = "wait" /\ task'[t].at = "drain"
      /\ \A u \in Tasks : task'[u].home = task[u].home /\ (u # t => task'[u].at = task[u].at)
      /\ task' \in [Tasks -> [at : TaskPoints, home : Slots]]
  BY OneTaskMoves, MoveIsTyped DEF IInv, TaskPoints, Woken
<1>1. TypeOK'
  <2>1. notified' \subseteq Tasks
    BY DEF IInv, TypeOK, Woken
  <2> QED
    BY <1>b, <2>1 DEF IInv, TypeOK, Woken, hostVars
<1>2. PhasesAgree'
  BY DEF IInv, PhasesAgree, Works, Woken, hostVars
<1>3. TasksAgree'
  BY DEF IInv, TasksAgree, Works, Live, Runs, Woken, Moves, hostVars
<1>4. SourcesAreApart'
  BY DEF IInv, SourcesAreApart, Woken
<1>5. LinesAgree'
  BY DEF IInv, LinesAgree, ArmedAsMapped, OwnedAsMapped, LinesAsEnabled, UartsAsOpen,
      IsMapped, IsEnabled, IsOpen, Armed, Works, Woken, hostVars
<1>6. QueuesAgree'
  BY DEF IInv, QueuesAgree, EventsAreOwn, Works, Woken
<1>7. NoLostWakeup'
  BY <1>b DEF IInv, NoLostWakeup, Runs, Woken
<1> QED
  BY <1>1, <1>2, <1>3, <1>4, <1>5, <1>6, <1>7 DEF IInv

LEMMA TimesOutKeepsIInv ==
  ASSUME IInv, NEW t \in Tasks, TimesOut(t)
  PROVE  IInv'
<1>1. TypeOK'
  <2>1. task' \in [Tasks -> [at : TaskPoints, home : Slots]]
    BY MoveIsTyped DEF IInv, TaskPoints, TimesOut
  <2> QED
    BY <2>1 DEF IInv, TypeOK, TimesOut, hostVars
<1>2. PhasesAgree'
  BY DEF IInv, PhasesAgree, Works, TimesOut, hostVars
<1>3. TasksAgree'
  BY DEF IInv, TasksAgree, Works, Live, Runs, TimesOut, Moves, hostVars
<1>4. SourcesAreApart'
  BY DEF IInv, SourcesAreApart, TimesOut
<1>5. LinesAgree'
  BY DEF IInv, LinesAgree, ArmedAsMapped, OwnedAsMapped, LinesAsEnabled, UartsAsOpen,
      IsMapped, IsEnabled, IsOpen, Armed, Works, TimesOut, hostVars
<1>6. QueuesAgree'
  BY DEF IInv, QueuesAgree, EventsAreOwn, Works, TimesOut
<1>7. NoLostWakeup'
  BY DEF IInv, NoLostWakeup, Runs, TimesOut, Moves, hostVars
<1> QED
  BY <1>1, <1>2, <1>3, <1>4, <1>5, <1>6, <1>7 DEF IInv

-----------------------------------------------------------------------------
(* The interrupts. *)

LEMMA PostKeepsIInv ==
  ASSUME IInv, NEW s \in Slots, NEW x \in Pins \cup Uarts, x \in Raises(image[s]),
         ~Works(s, {"close", "forget", "create"}), Posted(s, x), Wake(s),
         UNCHANGED <<state, image, hostVars, task, sup>>
  PROVE  IInv'
<1>a. \A r \in Slots \ {s} : pend'[r] = pend[r]
  BY DEF Posted
<1>1. TypeOK'
  <2>1. /\ pend' \in [Slots -> Seq(Pins \cup Uarts \cup {Console})]
        /\ \A r \in Slots : Len(pend'[r]) <= Depth
    BY EventsAssumption, AppendProperties DEF IInv, TypeOK, Posted
  <2> QED
    BY <2>1 DEF IInv, TypeOK, Wake, hostVars
<1>2. PhasesAgree'
  BY DEF IInv, PhasesAgree, Works, hostVars
<1>3. TasksAgree'
  BY DEF IInv, TasksAgree, Works, Live, Runs, hostVars
<1>4. SourcesAreApart'
  BY DEF IInv, SourcesAreApart
<1>5. LinesAgree'
  BY DEF IInv, LinesAgree, ArmedAsMapped, OwnedAsMapped, LinesAsEnabled, UartsAsOpen,
      IsMapped, IsEnabled, IsOpen, Armed, Works, hostVars
<1>6. QueuesAgree'
  <2>1. ToSet(pend'[s]) \subseteq ToSet(pend[s]) \cup {x}
    BY PostAddsOne DEF IInv, TypeOK, Posted
  <2>2. EventsAreOwn'
    BY <1>a, <2>1 DEF IInv, QueuesAgree, EventsAreOwn
  <2> QED
    BY <1>a, <2>2 DEF IInv, QueuesAgree, Works
<1>7. NoLostWakeup'
  <2> SUFFICES ASSUME NEW t \in Tasks, NEW r \in Slots,
                      Runs(t, r), task[t].at \in {"parking", "wait"}, pend'[r] # <<>>
               PROVE  t \in notified' \/ (sup.do = "give" /\ sup.slot = r)
    BY DEF NoLostWakeup, Runs
  <2>1. CASE r = s
    <3>1. ~Works(s, {"reset"})
      BY <2>1 DEF IInv, TasksAgree, Live, Runs, Works
    <3>2. hook[s] = t
      BY <2>1, <3>1 DEF IInv, TasksAgree, Live, Runs
    <3> QED
      BY <3>2 DEF Wake
  <2>2. CASE r # s
    BY <1>a, <2>2 DEF IInv, NoLostWakeup, Wake
  <2> QED
    BY <2>1, <2>2
<1> QED
  BY <1>1, <1>2, <1>3, <1>4, <1>5, <1>6, <1>7 DEF IInv

\* A line whose owner is recorded belongs to an image that is complete.
LEMMA EdgeKeepsIInv ==
  ASSUME IInv, NEW p \in Pins, Edge(p)
  PROVE  IInv'
<1>1. PICK s \in Slots : /\ p \in lines /\ owner[p] = s /\ Posted(s, p) /\ Wake(s)
                         /\ UNCHANGED <<state, image, hostVars, task, sup>>
  BY DEF Edge
<1>2. p \in image[s].lines /\ ~Works(s, {"close", "forget"})
  BY <1>1 DEF IInv, LinesAgree, OwnedAsMapped, IsMapped, Works
<1>3. ~Works(s, {"create"})
  BY <1>2 DEF IInv, PhasesAgree, NoImage
<1> QED
  BY <1>1, <1>2, <1>3, PostKeepsIInv DEF Works, Raises

LEMMA ByteKeepsIInv ==
  ASSUME IInv, NEW u \in Uarts, Byte(u)
  PROVE  IInv'
<1>1. PICK s \in Slots : /\ state[s] # "EMPTY" /\ u \in image[s].uarts /\ Posted(s, u) /\ Wake(s)
                         /\ UNCHANGED <<state, image, hostVars, task, sup>>
  BY DEF Byte
<1>2. ~Works(s, {"close", "forget", "create"})
  BY <1>1 DEF IInv, PhasesAgree, Works, Vacant
<1> QED
  BY <1>1, <1>2, PostKeepsIInv DEF Raises

-----------------------------------------------------------------------------
(* All steps. *)

LEMMA InitIInv == Init => IInv
<1> SUFFICES ASSUME Init PROVE IInv
  OBVIOUS
<1>1. TypeOK
  BY EventsAssumption, IdleIsTyped, GoneIsTyped, EmptySeq DEF Init, TypeOK
<1>2. PhasesAgree /\ TasksAgree /\ SourcesAreApart /\ NoLostWakeup
  BY DEF Init, Idle, Gone, NoImage, PhasesAgree, TasksAgree, Live, SourcesAreApart, Sources,
      NoLostWakeup
<1>3. LinesAgree
  BY EventsAssumption DEF Init, NoImage, LinesAgree, ArmedAsMapped, OwnedAsMapped,
      LinesAsEnabled, UartsAsOpen, IsMapped, IsEnabled, IsOpen
<1>4. QueuesAgree
  BY NothingIsInNothing DEF Init, QueuesAgree, EventsAreOwn
<1> QED
  BY <1>1, <1>2, <1>3, <1>4 DEF IInv

LEMMA StutterKeepsIInv ==
  ASSUME IInv, UNCHANGED vars
  PROVE  IInv'
BY DEF IInv, vars, hostVars, TypeOK, PhasesAgree, Works, TasksAgree, Live, Runs,
    SourcesAreApart, LinesAgree, ArmedAsMapped, OwnedAsMapped, LinesAsEnabled, UartsAsOpen,
    IsMapped, IsEnabled, IsOpen, Armed, QueuesAgree, EventsAreOwn, NoLostWakeup

LEMMA NextKeepsIInv ==
  ASSUME IInv, [Next]_vars
  PROVE  IInv'
<1>1. ASSUME NEW s \in Slots, NEW i \in Images, LoadBegins(s, i)
      PROVE  IInv'
  BY <1>1, LoadBeginsKeepsIInv
<1>2. CASE Busy
  <2>1. ASSUME NEW t \in Tasks, CreateTask(t) PROVE IInv'
    BY <2>1, CreateTaskKeepsIInv
  <2>2. ASSUME NEW p \in Pins, EnableLine(p) \/ MapLine(p) PROVE IInv'
    BY <2>2, EnableLineKeepsIInv, MapLineKeepsIInv
  <2>3. ASSUME NEW u \in Uarts, OpenUart(u) PROVE IInv'
    BY <2>3, OpenUartKeepsIInv
  <2> QED
    BY <1>2, <2>1, <2>2, <2>3, DeleteTaskKeepsIInv, MarkEmptyKeepsIInv, UnhookKeepsIInv,
        DisableLinesKeepsIInv, ClearQueueKeepsIInv, CloseUartsKeepsIInv,
        ForgetImageKeepsIInv, ResetQueueKeepsIInv, LoadEndsKeepsIInv, GiveKeepsIInv,
        DelayEndsKeepsIInv DEF Busy
<1>3. ASSUME NEW t \in Tasks, Trampoline(t) \/ ModuleCode(t) \/ TimesOut(t)
      PROVE  IInv'
  BY <1>3, DeleteSelfKeepsIInv, TakeKeepsIInv, DrainedKeepsIInv, NotifyTakeKeepsIInv,
      WokenKeepsIInv, InitReturnsKeepsIInv, HandlerReturnsKeepsIInv, TimesOutKeepsIInv
      DEF Trampoline, ModuleCode
<1>4. ASSUME NEW s \in Slots, ReclaimBegins(s) \/ PostConsole(s)
      PROVE  IInv'
  BY <1>4, ReclaimBeginsKeepsIInv, PostConsoleKeepsIInv
<1> QED
  BY <1>1, <1>2, <1>3, <1>4, EdgeKeepsIInv, ByteKeepsIInv, StutterKeepsIInv DEF Next

LEMMA LinesFollow == IInv => LinesFollowTheSlots
<1> SUFFICES ASSUME IInv PROVE LinesFollowTheSlots
  OBVIOUS
<1>1. ArmingAgrees
  <2> SUFFICES ASSUME sup.do \in {"idle", "delay"} PROVE ArmingAgrees
    BY DEF ArmingAgrees
  <2>1. \A s \in Slots : \A x :
          /\ IsMapped(s, x) <=> x \in image[s].lines
          /\ IsEnabled(s, x) <=> x \in image[s].lines
          /\ IsOpen(s, x) <=> x \in image[s].uarts
    BY DEF IsMapped, IsEnabled, IsOpen, Armed, Works
  <2>2. \A s \in Slots : image[s].lines \subseteq Pins /\ image[s].uarts \subseteq Uarts
    BY ImagesAreTyped DEF IInv, TypeOK
  <2>3. \A s \in Slots : armed[s] = image[s].lines
    <3> SUFFICES ASSUME NEW s \in Slots PROVE armed[s] = image[s].lines
      OBVIOUS
    <3>1. armed[s] \subseteq Pins /\ image[s].lines \subseteq Pins
      BY <2>2 DEF IInv, TypeOK
    <3>2. \A p \in Pins : p \in armed[s] <=> p \in image[s].lines
      BY <2>1 DEF IInv, LinesAgree, ArmedAsMapped
    <3> QED
      BY <3>1, <3>2
  <2>4. \A p \in Pins, s \in Slots : owner[p] = s <=> p \in image[s].lines
    BY <2>1 DEF IInv, LinesAgree, OwnedAsMapped
  <2>5. lines = UNION {image[s].lines : s \in Slots}
    <3>1. \A p \in lines : \E s \in Slots : p \in image[s].lines
      <4>1. sup.do # "map"
        OBVIOUS
      <4>2. \A p \in lines : \E s \in Slots : IsEnabled(s, p)
        BY <4>1 DEF IInv, LinesAgree, LinesAsEnabled
      <4> QED
        BY <2>1, <4>2
    <3>2. \A s \in Slots : \A p \in image[s].lines : p \in lines
      BY <2>1, <2>2 DEF IInv, LinesAgree, LinesAsEnabled
    <3> QED
      BY <3>1, <3>2
  <2>6. open = UNION {image[s].uarts : s \in Slots}
    <3>1. open \subseteq Uarts
      BY DEF IInv, TypeOK
    <3>2. \A u \in Uarts : u \in open <=> \E s \in Slots : u \in image[s].uarts
      BY <2>1 DEF IInv, LinesAgree, UartsAsOpen
    <3> QED
      BY <2>2, <3>1, <3>2
  <2>7. /\ \A s \in Slots : state[s] = "EMPTY" => image[s] = NoImage /\ hook[s] = NoTask
        /\ \A s \in Slots : state[s] = "RUNNING" => hook[s] \in Tasks /\ Runs(hook[s], s)
    BY DEF IInv, PhasesAgree, TasksAgree, Works, Vacant
  <2> QED
    BY <2>3, <2>4, <2>5, <2>6, <2>7 DEF ArmingAgrees
<1>2. QueueIsQuiet
  <2> SUFFICES ASSUME sup.do \in {"clear", "reset"}
               PROVE  /\ \A p \in lines : owner[p] # sup.slot
                      /\ state[sup.slot] # "EMPTY" => image[sup.slot].uarts \cap open = {}
    BY DEF QueueIsQuiet
  <2>1. \A r \in Slots \ {sup.slot} : Sources(image[r]) \cap Sources(image[sup.slot]) = {}
    BY DEF IInv, TypeOK, SourcesAreApart
  <2>2. ASSUME NEW p \in lines, owner[p] = sup.slot PROVE FALSE
    <3>1. p \in image[sup.slot].lines
      BY <2>2 DEF IInv, TypeOK, LinesAgree, OwnedAsMapped, IsMapped
    <3>2. \E s \in Slots \ {sup.slot} : p \in image[s].lines
      BY DEF IInv, LinesAgree, LinesAsEnabled, IsEnabled, Works
    <3> QED
      BY <2>1, <3>1, <3>2 DEF Sources
  <2>3. ASSUME NEW u \in image[sup.slot].uarts, u \in open, state[sup.slot] # "EMPTY"
        PROVE  FALSE
    <3>1. sup.do = "reset"
      BY <2>3 DEF IInv, TypeOK, PhasesAgree, Works, Vacant
    <3>2. \E s \in Slots \ {sup.slot} : u \in image[s].uarts
      BY <2>3, <3>1 DEF IInv, TypeOK, LinesAgree, UartsAsOpen, IsOpen, Works
    <3> QED
      BY <2>1, <2>3, <3>2 DEF Sources
  <2> QED
    BY <2>2, <2>3
<1> QED
  BY <1>1, <1>2 DEF LinesFollowTheSlots

-----------------------------------------------------------------------------
(* The theorems. *)

(* The invariant of host_events.c and supervisor.c:72-160 holds at every   *)
(* step of a load, of a reclaim and of the tasks.                          *)
THEOREM EventLayerInvariant == Spec => []IInv
<1>1. IInv /\ [Next]_vars => IInv'
  BY NextKeepsIInv
<1> QED
  BY InitIInv, <1>1, PTL DEF Spec

(* The variables keep their types; no queue is ever longer than its depth. *)
THEOREM EventsTypeCorrect == Spec => []TypeOK
<1>1. IInv => TypeOK
  BY DEF IInv
<1> QED
  BY <1>1, EventLayerInvariant, PTL

(* host_events.c:273-356: between two jobs of the supervisor exactly the   *)
(* declared lines and UARTs are live and each knows its slot, and none of  *)
(* a slot is live while its queue is rewritten.                            *)
THEOREM LinesAlwaysFollowTheSlots == Spec => []LinesFollowTheSlots
  BY LinesFollow, EventLayerInvariant, PTL

(* host_events.c, supervisor.c:148-151: no module ever handles an event of *)
(* its predecessor in the slot or of a neighbour.                          *)
THEOREM EventsStayOwn == Spec => []EventsAreOwn
<1>1. IInv => EventsAreOwn
  BY DEF IInv, QueuesAgree
<1> QED
  BY <1>1, EventLayerInvariant, PTL

(* How far a late edge reaches (supervisor.c:116-151): the task that a live *)
(* source of a slot notifies is a living task of that slot, but from the   *)
(* deletion of the task to mdl_events_disarm_slot(), and after the task of *)
(* a module without handlers has ended by itself.                          *)
LateEdgesAreConfined ==
  \A s \in Slots :
    hook[s] \in Tasks /\ (armed[s] \cap lines # {} \/ (state[s] # "EMPTY" /\ image[s].uarts \cap open # {}))
      => \/ Runs(hook[s], s)
         \/ state[s] = "LOADED"
         \/ Works(s, {"empty", "unhook"})

(* An interrupt can meet a task that is gone, or one of another module,    *)
(* in the two windows that LateEdgesAreConfined names and nowhere else.    *)
THEOREM LateEdgesStayConfined == Spec => []LateEdgesAreConfined
<1>1. IInv => LateEdgesAreConfined
  <2> SUFFICES ASSUME IInv, NEW s \in Slots, hook[s] \in Tasks,
                      armed[s] \cap lines # {} \/ (state[s] # "EMPTY" /\ image[s].uarts \cap open # {}),
                      state[s] # "LOADED", ~ Works(s, {"empty", "unhook"})
               PROVE  Runs(hook[s], s)
    BY DEF LateEdgesAreConfined
  <2>1. TypeOK /\ PhasesAgree /\ TasksAgree /\ SourcesAreApart /\ LinesAgree
    BY DEF IInv
  <2>2. state[s] = "EMPTY" \/ state[s] = "RUNNING"
    BY <2>1 DEF TypeOK
  <2>3. state[s] # "EMPTY"
    <3>1. state[s] = "EMPTY" /\ ~ Works(s, Vacant) => hook[s] = NoTask
      BY <2>1 DEF PhasesAgree
    <3>2. Works(s, Vacant) => Works(s, {"disable", "clear", "close", "forget", "create"})
      BY DEF Works, Vacant
    <3>3. Works(s, {"disable", "clear", "close", "forget", "create"}) => hook[s] = NoTask
      BY <2>1 DEF PhasesAgree
    <3> QED
      BY <3>1, <3>2, <3>3, EventsAssumption
  <2>4. ~ Works(s, {"reset"})
    <3> SUFFICES ASSUME Works(s, {"reset"}) PROVE FALSE
      OBVIOUS
    <3>1. armed[s] = {}
      BY <2>1 DEF LinesAgree, ArmedAsMapped, IsMapped, TypeOK, Works
    <3>2. PICK u \in image[s].uarts \cap open : TRUE
      BY <3>1
    <3>3. PICK r \in Slots : IsOpen(r, u)
      BY <2>1, <3>2 DEF LinesAgree, UartsAsOpen, TypeOK
    <3>4. r # s
      BY <3>3 DEF IsOpen, Works
    <3>5. u \in Sources(image[r]) \cap Sources(image[s])
      BY <3>2, <3>3 DEF IsOpen, Sources
    <3> QED
      BY <2>1, <3>4, <3>5 DEF SourcesAreApart
  <2>5. ~ Works(s, {"empty", "reset"})
    BY <2>4 DEF Works
  <2> QED
    BY <2>1, <2>2, <2>3, <2>5 DEF TasksAgree
<1> QED
  BY <1>1, EventLayerInvariant, PTL

(* module_task.c:168-188: a task that is about to block, or blocks, has a  *)
(* notification for every record that waits.                               *)
THEOREM NoWakeupIsLost == Spec => []NoLostWakeup
<1>1. IInv => NoLostWakeup
  BY DEF IInv
<1> QED
  BY <1>1, EventLayerInvariant, PTL

=============================================================================
