-------------------------- MODULE EventQueueProofs ---------------------------
(***************************************************************************)
(* The ring of one slot keeps its records apart and its numbers in         *)
(* agreement, and implements the stream of events (EventStream), for any   *)
(* sources, any ring and any range of the counters.                        *)
(***************************************************************************)
EXTENDS EventQueue, SequenceTheorems, TLAPS

\* The four invariants of the queue prove each other.
IInv == TypeOK /\ IndicesAgree /\ OneRecordPerSource /\ NothingIsUncounted

-----------------------------------------------------------------------------
(* Remainders *)

\* Division leaves a quotient and a remainder.
LEMMA Division ==
  ASSUME NEW n \in Nat \ {0}, NEW x \in Nat
  PROVE  x % n \in 0 .. n - 1 /\ x \div n \in Nat /\ x = n * (x \div n) + (x % n)
  OBVIOUS

LEMMA MultiplesAreApart ==
  ASSUME NEW n \in Nat \ {0}, NEW x \in Int, NEW y \in Int, x < y
  PROVE  n * x + n <= n * y
  OBVIOUS

\* Quotient and remainder are unique.
LEMMA DivisionIsUnique ==
  ASSUME NEW n \in Nat \ {0}, NEW x \in Int, NEW y \in Int,
         NEW r \in 0 .. n - 1, NEW s \in 0 .. n - 1, n * x + r = n * y + s
  PROVE  x = y /\ r = s
  <1>1. ~ (x < y)
    BY MultiplesAreApart
  <1>2. ~ (y < x)
    BY MultiplesAreApart
  <1> QED BY <1>1, <1>2

\* A sum may be reduced before it is complete.
LEMMA SumOfRemainder ==
  ASSUME NEW n \in Nat \ {0}, NEW x \in Nat, NEW y \in Nat
  PROVE  (x + (y % n)) % n = (x + y) % n
  <1> DEFINE qy == y \div n
             ql == (x + (y % n)) \div n
             qr == (x + y) \div n
             rl == (x + (y % n)) % n
             rr == (x + y) % n
             both == qy + ql
  <1>1. y = n * qy + (y % n) /\ qy \in Nat /\ y % n \in 0 .. n - 1
    BY Division
  <1>2. x + (y % n) \in Nat /\ x + y \in Nat
    BY <1>1
  <1>3. x + (y % n) = n * ql + rl /\ ql \in Nat /\ rl \in 0 .. n - 1
    BY <1>2, Division
  <1>4. x + y = n * qr + rr /\ qr \in Nat /\ rr \in 0 .. n - 1
    BY <1>2, Division
  <1>5. n * both = n * qy + n * ql /\ both \in Int /\ qr \in Int
    BY <1>1, <1>3, <1>4
  <1>6. n * both + rl = n * qr + rr
    BY <1>1, <1>3, <1>4, <1>5
  <1>7. both \in Int /\ qr \in Int /\ rl \in 0 .. n - 1 /\ rr \in 0 .. n - 1
    BY <1>3, <1>4, <1>5
  <1>8. rl = rr
    <2> HIDE DEF both, rl, rr, qr
    <2> QED BY <1>6, <1>7, DivisionIsUnique
  <1> QED BY <1>8

\* Counters stay in their range, and nested sums are sums.
LEMMA PlusIsCounter ==
  ASSUME NEW x \in Nat, NEW k \in Nat
  PROVE  Plus(x, k) \in Counter /\ Counter \subseteq Nat
  BY QueueAssumption, Division DEF Plus, Counter

LEMMA PlusOfPlus ==
  ASSUME NEW x \in Nat, NEW y \in Nat, NEW z \in Nat
  PROVE  Plus(x, Plus(y, z)) = Plus(x + y, z)
  <1>1. Wrap \in Nat \ {0} /\ y + z \in Nat
    BY QueueAssumption
  <1>2. (x + ((y + z) % Wrap)) % Wrap = (x + (y + z)) % Wrap
    BY <1>1, SumOfRemainder
  <1> QED BY <1>2 DEF Plus

LEMMA PlusCommutes ==
  ASSUME NEW x \in Nat, NEW y \in Nat
  PROVE  Plus(x, y) = Plus(y, x)
  BY DEF Plus

-----------------------------------------------------------------------------
(* The ring *)

\* An index on the ring is reached by one subtraction at most.
LEMMA OnTheRing ==
  ASSUME NEW i \in Indices, NEW k \in 0 .. QueueMax
  PROVE  (i + k) % QueueMax = IF i + k < QueueMax THEN i + k ELSE i + k - QueueMax
  BY QueueAssumption DEF Indices

\* The records that wait lie at different indices.
LEMMA SlotsDiffer ==
  ASSUME TypeOK, NEW j \in 1 .. QueueMax, NEW k \in 1 .. QueueMax
  PROVE  Slot(k) \in Indices /\ (Slot(j) = Slot(k) => j = k)
  BY QueueAssumption DEF TypeOK, Indices, Slot

\* The tail is where the next record goes.
LEMMA TailIsFree ==
  ASSUME TypeOK, IndicesAgree, count < QueueMax
  PROVE  tail = Slot(count + 1) /\ \A k \in 1 .. count : Slot(k) # tail
  <1>1. count \in Nat /\ head \in Indices /\ QueueMax \in Nat \ {0}
    BY QueueAssumption DEF TypeOK
  <1>2. tail = Slot(count + 1)
    BY <1>1, OnTheRing DEF IndicesAgree, Slot, Indices
  <1> QED BY <1>1, <1>2, SlotsDiffer

\* A function on 1 .. n is a sequence.
LEMMA FunctionIsSequence ==
  ASSUME NEW S, NEW n \in Nat, NEW f \in [1 .. n -> S]
  PROVE  f \in Seq(S) /\ Len(f) = n
  OBVIOUS

-----------------------------------------------------------------------------
(* Every operation keeps the invariant *)

\* The bookkeeping of occurrences as one sum.
LEMMA UncountedAsSum ==
  ASSUME NEW d \in Nat, NEW c \in Nat, NEW m \in Nat, NEW l \in Nat
  PROVE  Plus(d, Plus(c, Plus(m, l))) = (d + c + m + l) % Wrap
  <1>1. Plus(c, Plus(m, l)) = Plus(c + m, l)
    BY PlusOfPlus
  <1>2. Plus(d, Plus(c + m, l)) = Plus(d + (c + m), l)
    BY PlusOfPlus
  <1>3. d + (c + m) = d + c + m
    OBVIOUS
  <1> QED BY <1>1, <1>2, <1>3 DEF Plus

\* One occurrence more on both sides: what came in, and each of the places
\* where it may have gone.
LEMMA OneAfterAll ==
  ASSUME NEW x \in Nat, NEW y \in Nat
  PROVE  Plus(y, 1) \in Nat /\ (x + Plus(y, 1)) % Wrap = (x + y + 1) % Wrap
  <1>0. Wrap \in Nat \ {0} /\ y + 1 \in Nat /\ x + (y + 1) = x + y + 1
    BY QueueAssumption
  <1>1. (x + ((y + 1) % Wrap)) % Wrap = (x + (y + 1)) % Wrap
    BY <1>0, SumOfRemainder
  <1>2. (y + 1) % Wrap \in Nat
    BY <1>0, Division
  <1> QED BY <1>0, <1>1, <1>2 DEF Plus

LEMMA OneRaised ==
  ASSUME NEW x \in Nat
  PROVE  Plus(x % Wrap, 1) = (x + 1) % Wrap
  <1>0. Wrap \in Nat \ {0} /\ x % Wrap \in Nat
    BY QueueAssumption, Division
  <1>1. (1 + (x % Wrap)) % Wrap = (1 + x) % Wrap
    BY <1>0, SumOfRemainder
  <1>2. 1 + (x % Wrap) = (x % Wrap) + 1 /\ 1 + x = x + 1
    BY <1>0
  <1> QED BY <1>1, <1>2 DEF Plus

LEMMA OneLost ==
  ASSUME NEW d \in Nat, NEW c \in Nat, NEW m \in Nat, NEW l \in Nat
  PROVE  (d + c + m + Plus(l, 1)) % Wrap = (d + c + m + l + 1) % Wrap
  <1>1. d + c + m \in Nat
    OBVIOUS
  <1> QED BY <1>1, OneAfterAll

LEMMA OneMerged ==
  ASSUME NEW d \in Nat, NEW c \in Nat, NEW m \in Nat, NEW l \in Nat
  PROVE  (d + c + Plus(m, 1) + l) % Wrap = (d + c + m + l + 1) % Wrap
  <1>1. d + c + Plus(m, 1) + l = (d + c + l) + Plus(m, 1) /\ d + c + l \in Nat
    BY OneAfterAll
  <1>2. d + c + l + m + 1 = d + c + m + l + 1
    OBVIOUS
  <1> QED BY <1>1, <1>2, OneAfterAll

LEMMA OneDelivered ==
  ASSUME NEW d \in Nat, NEW c \in Nat, NEW m \in Nat, NEW l \in Nat
  PROVE  (Plus(d, 1) + c + m + l) % Wrap = (d + c + m + l + 1) % Wrap
  <1>0. Plus(d, 1) \in Nat
    BY PlusIsCounter
  <1>1. Plus(d, 1) + c + m + l = (c + m + l) + Plus(d, 1) /\ c + m + l \in Nat
    BY <1>0
  <1>2. c + m + l + d + 1 = d + c + m + l + 1
    OBVIOUS
  <1> QED BY <1>1, <1>2, OneAfterAll

\* An empty queue agrees with itself, whatever the ring still holds.
LEMMA EmptyQueue ==
  ASSUME head = 0, tail = 0, count = 0
  PROVE  IndicesAgree /\ OneRecordPerSource
  BY QueueAssumption DEF IndicesAgree, OneRecordPerSource

LEMMA InitIInv == Init => IInv
  <1> SUFFICES ASSUME Init PROVE IInv
    OBVIOUS
  <1>1. TypeOK
    BY QueueAssumption DEF Init, TypeOK, Indices, Record, Counter
  <1>2. IndicesAgree /\ OneRecordPerSource
    BY EmptyQueue DEF Init
  <1>3. NothingIsUncounted
    <2>1. (0 + 0 + 0 + 0) % Wrap = 0
      BY QueueAssumption
    <2> QED BY <2>1, UncountedAsSum DEF Init, NothingIsUncounted
  <1> QED BY <1>1, <1>2, <1>3 DEF IInv

LEMMA ResetKeepsIInv ==
  ASSUME IInv, NEW d \in 0 .. QueueMax, Reset(d)
  PROVE  IInv'
  <1>1. TypeOK'
    BY QueueAssumption DEF IInv, TypeOK, Reset, Counter, Indices
  <1>2. (IndicesAgree /\ OneRecordPerSource)'
    BY QueueAssumption DEF Reset, IndicesAgree, OneRecordPerSource
  <1>3. NothingIsUncounted'
    <2>1. Plus(0, Plus(0, Plus(0, 0))) = 0
      BY QueueAssumption DEF Plus
    <2> QED BY <2>1 DEF Reset, NothingIsUncounted
  <1> QED BY <1>1, <1>2, <1>3 DEF IInv

LEMMA DisarmKeepsIInv ==
  ASSUME IInv, Disarm
  PROVE  IInv'
  <1>1. TypeOK'
    <2>1. delivered \in Nat /\ Plus(lost, coalesced) \in Nat
      BY PlusIsCounter, QueueAssumption DEF IInv, TypeOK, Counter
    <2>2. raised' \in Counter
      BY <2>1, PlusIsCounter DEF Disarm
    <2> QED BY <2>2, QueueAssumption DEF IInv, TypeOK, Disarm, Indices
  <1>2. (IndicesAgree /\ OneRecordPerSource)'
    BY QueueAssumption DEF Disarm, IndicesAgree, OneRecordPerSource
  <1>3. NothingIsUncounted'
    <2>1. delivered \in Nat /\ coalesced \in Nat /\ lost \in Nat
      BY QueueAssumption DEF IInv, TypeOK, Counter
    <2>2. Plus(0, Plus(coalesced, lost)) = Plus(lost, coalesced)
      <3>1. Plus(0, Plus(coalesced, lost)) = Plus(0 + coalesced, lost)
        BY <2>1, PlusOfPlus
      <3> QED BY <2>1, <3>1, PlusCommutes
    <2> QED BY <2>2 DEF Disarm, NothingIsUncounted
  <1> QED BY <1>1, <1>2, <1>3 DEF IInv

\* What every counter is, as the sums above need it.
LEMMA CountersAreNumbers ==
  ASSUME TypeOK
  PROVE  /\ delivered \in Nat /\ count \in Nat /\ coalesced \in Nat /\ lost \in Nat
         /\ \A x \in {delivered, coalesced, lost, raised} : Plus(x, 1) \in Counter
  <1>1. /\ delivered \in Nat /\ count \in Nat /\ coalesced \in Nat /\ lost \in Nat
        /\ raised \in Nat
    BY QueueAssumption DEF TypeOK, Counter
  <1> QED BY <1>1, PlusIsCounter

\* A record that is written at the tail has a slot of its own.
LEMMA PushKeepsTheRing ==
  ASSUME IInv, NEW src \in Sources \cup {Console}, NEW v \in Values, count < depth,
         src \in Sources => Holding(src) = {}, Push(src, v)
  PROVE  /\ q' \in [Indices -> Record] /\ head' \in Indices /\ tail' \in Indices
         /\ depth' \in 1 .. QueueMax /\ count' \in 0 .. depth' /\ count' = count + 1
         /\ IndicesAgree' /\ OneRecordPerSource'
         /\ \A k \in 1 .. count :
              Slot(k)' = Slot(k) /\ Slot(k) \in Indices /\ q'[Slot(k)] = q[Slot(k)]
         /\ \A k : k = count + 1 => Slot(k)' = tail
         /\ q'[tail] = [src |-> src, n |-> 1, val |-> v]
  <1>0. /\ count \in Nat /\ depth \in 1 .. QueueMax /\ count < QueueMax
        /\ QueueMax \in Nat \ {0} /\ head \in Indices /\ tail \in Indices
        /\ q \in [Indices -> Record] /\ count' = count + 1 /\ head' = head /\ depth' = depth
    BY QueueAssumption DEF IInv, TypeOK, Push
  <1>1. [src |-> src, n |-> 1, val |-> v] \in Record
    BY QueueAssumption DEF Record
  <1>2. \A k : Slot(k)' = Slot(k)
    BY <1>0 DEF Slot
  <1>3. tail = Slot(count + 1) /\ \A k \in 1 .. count : Slot(k) # tail
    BY <1>0, TailIsFree DEF IInv
  <1>4. \A k \in 1 .. count : Slot(k) \in Indices
    BY <1>0, SlotsDiffer DEF IInv
  <1>5. \A k \in 1 .. count : q'[Slot(k)] = q[Slot(k)]
    BY <1>0, <1>3, <1>4 DEF Push
  <1>6. q'[tail] = [src |-> src, n |-> 1, val |-> v]
    BY <1>0 DEF Push
  <1>7. q' \in [Indices -> Record]
    BY <1>0, <1>1 DEF Push
  <1>8. tail' \in Indices
    BY <1>0 DEF Push, Up, Indices
  <1>9. IndicesAgree'
    <2>1. tail' = Up(tail)
      BY DEF Push
    <2>2. count \in 0 .. QueueMax /\ count + 1 \in 0 .. QueueMax
      BY <1>0
    <2>3. tail = (head + count) % QueueMax
      BY DEF IInv, IndicesAgree
    <2>4. Up(tail) = (head + (count + 1)) % QueueMax
      <3>1. tail = IF head + count < QueueMax THEN head + count ELSE head + count - QueueMax
        BY <1>0, <2>2, <2>3, OnTheRing
      <3>2. (head + (count + 1)) % QueueMax =
              IF head + (count + 1) < QueueMax THEN head + (count + 1)
              ELSE head + (count + 1) - QueueMax
        BY <1>0, <2>2, OnTheRing
      <3> QED BY <1>0, <3>1, <3>2 DEF Up, Indices
    <2> QED BY <1>0, <2>1, <2>4 DEF IndicesAgree
  <1>10. OneRecordPerSource'
    <2> SUFFICES ASSUME NEW j \in 1 .. count + 1, NEW k \in 1 .. count + 1,
                        q'[Slot(j)].src = q'[Slot(k)].src, q'[Slot(j)].src \in Sources
                 PROVE  j = k
      BY <1>0, <1>2 DEF OneRecordPerSource
    <2>1. CASE j \in 1 .. count /\ k \in 1 .. count
      BY <1>5, <2>1 DEF IInv, OneRecordPerSource
    <2>2. ASSUME NEW m \in 1 .. count, q'[Slot(m)].src = src, src \in Sources
          PROVE  FALSE
      BY <1>4, <1>5, <2>2 DEF Holding
    <2>3. q'[Slot(count + 1)].src = src
      BY <1>3, <1>6
    <2>4. j \in 1 .. count \/ j = count + 1
      BY <1>0
    <2>5. k \in 1 .. count \/ k = count + 1
      BY <1>0
    <2> QED BY <2>1, <2>2, <2>3, <2>4, <2>5
  <1>11. count' \in 0 .. depth'
    BY <1>0
  <1> QED BY <1>0, <1>2, <1>3, <1>4, <1>5, <1>6, <1>7, <1>8, <1>9, <1>10, <1>11

\* An occurrence that is queued, merged or lost is counted once.
LEMMA RaiseIsCounted ==
  ASSUME IInv, raised' = Plus(raised, 1), delivered' = delivered,
         \/ count' = count + 1 /\ coalesced' = coalesced /\ lost' = lost
         \/ count' = count /\ coalesced' = Plus(coalesced, 1) /\ lost' = lost
         \/ count' = count /\ coalesced' = coalesced /\ lost' = Plus(lost, 1)
  PROVE  NothingIsUncounted'
  <1> DEFINE sum == delivered + count + coalesced + lost
  <1>0. /\ delivered \in Nat /\ count \in Nat /\ coalesced \in Nat /\ lost \in Nat
        /\ Plus(coalesced, 1) \in Nat /\ Plus(lost, 1) \in Nat
    BY CountersAreNumbers, PlusIsCounter DEF IInv
  <1>1. raised = sum % Wrap
    BY <1>0, UncountedAsSum DEF IInv, NothingIsUncounted
  <1>2. raised' = (sum + 1) % Wrap
    BY <1>0, <1>1, OneRaised
  <1>3. (delivered + count + Plus(coalesced, 1) + lost) % Wrap = (sum + 1) % Wrap
    BY <1>0, OneMerged
  <1>4. (delivered + count + coalesced + Plus(lost, 1)) % Wrap = (sum + 1) % Wrap
    BY <1>0, OneLost
  <1>5. delivered + (count + 1) + coalesced + lost = sum + 1
    BY <1>0
  <1>6. (delivered' + count' + coalesced' + lost') % Wrap = (sum + 1) % Wrap
    BY <1>3, <1>4, <1>5
  <1>7. delivered' \in Nat /\ count' \in Nat /\ coalesced' \in Nat /\ lost' \in Nat
    BY <1>0
  <1>8. Plus(delivered, Plus(count, Plus(coalesced, lost)))' =
          (delivered' + count' + coalesced' + lost') % Wrap
    BY <1>7, UncountedAsSum
  <1> QED BY <1>2, <1>6, <1>8 DEF NothingIsUncounted

LEMMA AddKeepsIInv ==
  ASSUME IInv, NEW src \in Sources, NEW v \in Values, Add(src, v)
  PROVE  IInv'
  <1>0. /\ Push(src, v) /\ Holding(src) = {} /\ count < depth
        /\ raised' = Plus(raised, 1) /\ newest' = [newest EXCEPT ![src] = v]
        /\ UNCHANGED <<delivered, lost, coalesced>>
    BY DEF Add, Raise
  <1>1. TypeOK'
    BY <1>0, PushKeepsTheRing, CountersAreNumbers DEF IInv, TypeOK
  <1>2. (IndicesAgree /\ OneRecordPerSource)'
    BY <1>0, PushKeepsTheRing
  <1>3. NothingIsUncounted'
    BY <1>0, RaiseIsCounted DEF Push
  <1> QED BY <1>1, <1>2, <1>3 DEF IInv

LEMMA PostConsoleKeepsIInv ==
  ASSUME IInv, PostConsole
  PROVE  IInv'
  <1>0. /\ Push(Console, 0) /\ count < depth /\ 0 \in Values /\ Console \notin Sources
        /\ raised' = Plus(raised, 1)
        /\ UNCHANGED <<newest, delivered, lost, coalesced>>
    BY QueueAssumption DEF PostConsole
  <1>1. TypeOK'
    BY <1>0, PushKeepsTheRing, CountersAreNumbers DEF IInv, TypeOK
  <1>2. (IndicesAgree /\ OneRecordPerSource)'
    BY <1>0, PushKeepsTheRing
  <1>3. NothingIsUncounted'
    BY <1>0, RaiseIsCounted DEF Push
  <1> QED BY <1>1, <1>2, <1>3 DEF IInv

LEMMA LoseKeepsIInv ==
  ASSUME IInv, NEW src \in Sources, NEW v \in Values, Lose(src, v)
  PROVE  IInv'
  <1>1. TypeOK'
    BY CountersAreNumbers DEF IInv, TypeOK, Lose, Raise
  <1>2. (IndicesAgree /\ OneRecordPerSource)'
    <2>1. \A k : Slot(k)' = Slot(k)
      BY DEF Lose, Slot
    <2> QED BY <2>1 DEF IInv, IndicesAgree, OneRecordPerSource, Lose
  <1>3. NothingIsUncounted'
    BY RaiseIsCounted DEF Lose, Raise
  <1> QED BY <1>1, <1>2, <1>3 DEF IInv

\* A merge changes one record and keeps its source.
LEMMA MergeChangesOneRecord ==
  ASSUME IInv, NEW src \in Sources, NEW v \in Values, Merge(src, v)
  PROVE  \E m \in 1 .. count :
           /\ q[Slot(m)].src = src
           /\ q' = [q EXCEPT ![Slot(m)] = Again(@, v)]
           /\ q' \in [Indices -> Record]
           /\ \A i \in Indices : q'[i].src = q[i].src
  <1>1. PICK i \in Holding(src) : q' = [q EXCEPT ![i] = Again(@, v)]
    BY DEF Merge
  <1>2. PICK m \in 1 .. count : i = Slot(m) /\ q[Slot(m)].src = src
    BY <1>1 DEF Holding
  <1>3. q \in [Indices -> Record] /\ i \in Indices
    BY <1>2, SlotsDiffer, QueueAssumption DEF IInv, TypeOK
  <1>4. ASSUME NEW r \in Record
        PROVE  Again(r, v) \in Record /\ Again(r, v).src = r.src
    BY QueueAssumption DEF Record, Again
  <1>5. q' \in [Indices -> Record] /\ \A j \in Indices : q'[j].src = q[j].src
    BY <1>1, <1>3, <1>4
  <1> QED BY <1>1, <1>2, <1>5

LEMMA MergeKeepsIInv ==
  ASSUME IInv, NEW src \in Sources, NEW v \in Values, Merge(src, v)
  PROVE  IInv'
  <1>0. q' \in [Indices -> Record] /\ \A i \in Indices : q'[i].src = q[i].src
    BY MergeChangesOneRecord
  <1>1. TypeOK'
    BY <1>0, CountersAreNumbers DEF IInv, TypeOK, Merge, Raise
  <1>2. IndicesAgree'
    BY DEF IInv, IndicesAgree, Merge
  <1>3. OneRecordPerSource'
    <2>1. \A k : Slot(k)' = Slot(k)
      BY DEF Merge, Slot
    <2>2. \A k \in 1 .. count : Slot(k) \in Indices
      BY SlotsDiffer, QueueAssumption DEF IInv, TypeOK
    <2>3. count' = count
      BY DEF Merge
    <2> QED BY <1>0, <2>1, <2>2, <2>3 DEF IInv, OneRecordPerSource
  <1>4. NothingIsUncounted'
    BY RaiseIsCounted DEF Merge, Raise
  <1> QED BY <1>1, <1>2, <1>3, <1>4 DEF IInv

\* Taking the head moves every record one place forward.
LEMMA TakeMovesUp ==
  ASSUME IInv, Take
  PROVE  /\ count \in 1 .. QueueMax /\ count' = count - 1 /\ count' \in Nat
         /\ head' \in Indices
         /\ \A k \in 1 .. count' : Slot(k)' = Slot(k + 1) /\ k + 1 \in 1 .. count
  <1>1. /\ count \in 1 .. QueueMax /\ count' = count - 1 /\ head \in Indices
        /\ QueueMax \in Nat \ {0} /\ head' = Up(head)
    BY QueueAssumption DEF IInv, TypeOK, Take
  <1>2. ASSUME NEW k \in 1 .. count'
        PROVE  Slot(k)' = Slot(k + 1)
    BY <1>1 DEF Slot, Up, Indices
  <1>3. head' \in Indices
    BY <1>1 DEF Up, Indices
  <1> QED BY <1>1, <1>2, <1>3

LEMMA TakeKeepsIInv ==
  ASSUME IInv, Take
  PROVE  IInv'
  <1>0. /\ count \in 1 .. QueueMax /\ count' = count - 1 /\ count' \in Nat
        /\ head' \in Indices
        /\ head \in Indices /\ QueueMax \in Nat \ {0}
    BY TakeMovesUp, QueueAssumption DEF IInv, TypeOK
  <1>1. TypeOK'
    BY <1>0, CountersAreNumbers DEF IInv, TypeOK, Take
  <1>2. IndicesAgree'
    <2>1. count \in 0 .. QueueMax /\ count' \in 0 .. QueueMax
      BY <1>0
    <2>2. (head + count) % QueueMax =
            IF head + count < QueueMax THEN head + count ELSE head + count - QueueMax
      BY <1>0, <2>1, OnTheRing
    <2>3. (head' + count') % QueueMax =
            IF head' + count' < QueueMax THEN head' + count' ELSE head' + count' - QueueMax
      BY <1>0, <2>1, OnTheRing
    <2>4. tail = (head + count) % QueueMax /\ tail' = tail /\ head' = Up(head)
      BY DEF IInv, IndicesAgree, Take
    <2>5. (head + count) % QueueMax = (head' + count') % QueueMax
      BY <1>0, <2>2, <2>3, <2>4 DEF Up, Indices
    <2> QED BY <2>4, <2>5 DEF IndicesAgree
  <1>3. OneRecordPerSource'
    <2> SUFFICES ASSUME NEW j \in 1 .. count', NEW k \in 1 .. count',
                        q[Slot(j + 1)].src = q[Slot(k + 1)].src, q[Slot(j + 1)].src \in Sources
                 PROVE  j = k
      BY TakeMovesUp DEF Take, OneRecordPerSource
    <2>1. j + 1 \in 1 .. count /\ k + 1 \in 1 .. count
      BY TakeMovesUp
    <2>2. j + 1 = k + 1
      BY <2>1 DEF IInv, OneRecordPerSource
    <2> QED BY <1>0, <2>2
  <1>4. NothingIsUncounted'
    <2>0. delivered \in Nat /\ coalesced \in Nat /\ lost \in Nat /\ Plus(delivered, 1) \in Nat
      BY CountersAreNumbers, PlusIsCounter DEF IInv
    <2>1. raised = (delivered + count + coalesced + lost) % Wrap
      BY <1>0, <2>0, UncountedAsSum DEF IInv, NothingIsUncounted
    <2>2. (Plus(delivered, 1) + count' + coalesced + lost) % Wrap =
            (delivered + count' + coalesced + lost + 1) % Wrap
      BY <1>0, <2>0, OneDelivered
    <2>3. delivered + count' + coalesced + lost + 1 = delivered + count + coalesced + lost
      BY <1>0, <2>0
    <2>4. /\ raised' = raised /\ delivered' = Plus(delivered, 1)
          /\ coalesced' = coalesced /\ lost' = lost
      BY DEF Take
    <2>5. Plus(Plus(delivered, 1), Plus(count', Plus(coalesced, lost))) =
            (Plus(delivered, 1) + count' + coalesced + lost) % Wrap
      <3>1. ASSUME NEW d \in Nat
            PROVE  Plus(d, Plus(count', Plus(coalesced, lost))) =
                     (d + count' + coalesced + lost) % Wrap
        BY <1>0, <2>0, UncountedAsSum
      <3> QED BY <2>0, <3>1
    <2> QED BY <2>1, <2>2, <2>3, <2>4, <2>5 DEF NothingIsUncounted
  <1> QED BY <1>1, <1>2, <1>3, <1>4 DEF IInv

LEMMA NextKeepsIInv == IInv /\ [Next]_vars => IInv'
  <1> SUFFICES ASSUME IInv, [Next]_vars PROVE IInv'
    OBVIOUS
  <1>1. CASE UNCHANGED vars
    BY <1>1 DEF vars, stats, IInv, TypeOK, IndicesAgree, OneRecordPerSource, Slot,
                NothingIsUncounted
  <1>2. ASSUME NEW d \in 0 .. QueueMax, Reset(d) PROVE IInv'
    BY <1>2, ResetKeepsIInv
  <1>3. ASSUME NEW s \in Sources, NEW v \in Values, Merge(s, v) \/ Lose(s, v) \/ Add(s, v)
        PROVE  IInv'
    BY <1>3, MergeKeepsIInv, LoseKeepsIInv, AddKeepsIInv
  <1>4. CASE PostConsole
    BY <1>4, PostConsoleKeepsIInv
  <1>5. CASE Take
    BY <1>5, TakeKeepsIInv
  <1>6. CASE Disarm
    BY <1>6, DisarmKeepsIInv
  <1> QED BY <1>1, <1>2, <1>3, <1>4, <1>5, <1>6 DEF Next

-----------------------------------------------------------------------------
(* The invariants *)

\* The numbers of the ring, its records and its statistics agree in every
\* reachable state (host_events.c).
THEOREM QueueInvariant == Spec => []IInv
  BY InitIInv, NextKeepsIInv, PTL DEF Spec

\* Every variable of the queue keeps its type: no more records than the depth
\* the slot asked for.
THEOREM QueueTypes == Spec => []TypeOK
  BY QueueInvariant, PTL DEF IInv

\* Head, tail and count describe one ring.
THEOREM IndicesAlwaysAgree == Spec => []IndicesAgree
  BY QueueInvariant, PTL DEF IInv

\* A source never takes two records.
THEOREM SourcesStaySingle == Spec => []OneRecordPerSource
  BY QueueInvariant, PTL DEF IInv

\* What came in is delivered, waits, was merged or was counted as lost.
THEOREM NothingGoesUncounted == Spec => []NothingIsUncounted
  BY QueueInvariant, PTL DEF IInv

-----------------------------------------------------------------------------
(* The ring implements the stream *)

\* The stream as the ring holds it.
Pending == [k \in 1 .. count |-> q[Slot(k)]]
Seen    == <<Pending, depth, lost, newest>>

\* What waits is a sequence of records.
LEMMA PendingIsSequence ==
  TypeOK => /\ Pending \in [1 .. count -> Record]
            /\ Pending \in Seq(Record) /\ Len(Pending) = count /\ count \in Nat
            /\ \A k \in 1 .. count : Pending[k] = q[Slot(k)] /\ Slot(k) \in Indices
  <1> SUFFICES ASSUME TypeOK
               PROVE  /\ Pending \in [1 .. count -> Record]
                      /\ Pending \in Seq(Record) /\ Len(Pending) = count /\ count \in Nat
                      /\ \A k \in 1 .. count : Pending[k] = q[Slot(k)] /\ Slot(k) \in Indices
    OBVIOUS
  <1>1. count \in Nat /\ count <= QueueMax /\ q \in [Indices -> Record]
    BY QueueAssumption DEF TypeOK
  <1>2. ASSUME NEW k \in 1 .. count
        PROVE  Slot(k) \in Indices
    <2>1. k \in 1 .. QueueMax
      BY <1>1, QueueAssumption
    <2> QED BY <2>1, SlotsDiffer
  <1>3. Pending \in [1 .. count -> Record] /\ \A k \in 1 .. count : Pending[k] = q[Slot(k)]
    BY <1>1, <1>2 DEF Pending
  <1> QED BY <1>1, <1>2, <1>3, FunctionIsSequence

LEMMA PendingStaysSequence ==
  ASSUME IInv, [Next]_vars
  PROVE  /\ Pending' \in [1 .. count' -> Record]
         /\ Pending' \in Seq(Record) /\ Len(Pending') = count' /\ count' \in Nat
         /\ \A k \in 1 .. count' : Pending'[k] = q'[Slot(k)']
  <1>1. TypeOK'
    BY NextKeepsIInv DEF IInv
  <1>2. (TypeOK => /\ Pending \in [1 .. count -> Record]
                   /\ Pending \in Seq(Record) /\ Len(Pending) = count /\ count \in Nat)'
    BY PendingIsSequence, PTL
  <1>3. \A k \in 1 .. count' : Pending'[k] = q'[Slot(k)']
    BY DEF Pending
  <1> QED BY <1>1, <1>2, <1>3

\* A record at the tail is appended to the stream.
LEMMA PushAppends ==
  ASSUME IInv, [Next]_vars, NEW src \in Sources \cup {Console}, NEW v \in Values, count < depth,
         src \in Sources => Holding(src) = {}, Push(src, v)
  PROVE  Pending' = Append(Pending, [src |-> src, n |-> 1, val |-> v]) /\ Len(Pending) < depth
  <1> DEFINE e == [src |-> src, n |-> 1, val |-> v]
  <1>1. /\ Pending \in Seq(Record) /\ Len(Pending) = count /\ count \in Nat
        /\ \A k \in 1 .. count : Pending[k] = q[Slot(k)]
    BY PendingIsSequence DEF IInv
  <1>2. /\ Pending' \in Seq(Record) /\ Len(Pending') = count'
        /\ \A k \in 1 .. count' : Pending'[k] = q'[Slot(k)']
    BY PendingStaysSequence
  <1>3. /\ count' = count + 1 /\ q'[tail] = e
        /\ \A k \in 1 .. count : Slot(k)' = Slot(k) /\ q'[Slot(k)] = q[Slot(k)]
        /\ \A k : k = count + 1 => Slot(k)' = tail
    BY PushKeepsTheRing
  <1>4. e \in Record
    BY QueueAssumption DEF Record
  <1> HIDE DEF e
  <1>5. /\ Append(Pending, e) \in Seq(Record) /\ Len(Append(Pending, e)) = count + 1
        /\ \A k \in 1 .. count : Append(Pending, e)[k] = Pending[k]
        /\ Append(Pending, e)[count + 1] = e
    BY <1>1, <1>4, AppendProperties
  <1>6. ASSUME NEW k \in 1 .. count + 1
        PROVE  Pending'[k] = Append(Pending, e)[k]
    <2>1. CASE k \in 1 .. count
      BY <1>1, <1>2, <1>3, <1>5, <2>1
    <2>2. CASE k = count + 1
      BY <1>2, <1>3, <1>5, <2>2
    <2> QED BY <1>1, <2>1, <2>2
  <1>7. Pending' = Append(Pending, e)
    BY <1>2, <1>3, <1>5, <1>6, SeqEqual
  <1> QED BY <1>1, <1>7 DEF e

\* A source waits in the stream exactly if the ring holds a record of it.
LEMMA HoldingIsWaiting ==
  ASSUME IInv, NEW src
  PROVE  Holding(src) = {} <=> ~Stream!Waits(src)
  <1>1. Len(Pending) = count /\ \A k \in 1 .. count : Pending[k] = q[Slot(k)]
    BY PendingIsSequence DEF IInv
  <1>2. Stream!Waits(src) <=> \E k \in 1 .. count : q[Slot(k)].src = src
    BY <1>1 DEF Stream!Waits, Pending
  <1> QED BY <1>2 DEF Holding

LEMMA AddIsPromised ==
  ASSUME IInv, [Next]_vars, NEW src \in Sources, NEW v \in Values, Add(src, v)
  PROVE  Stream!Occurs(src, v)
  <1>1. /\ Push(src, v) /\ Holding(src) = {} /\ count < depth
        /\ newest' = [newest EXCEPT ![src] = v] /\ lost' = lost /\ depth' = depth
    BY DEF Add, Raise, Push
  <1>2. Pending' = Append(Pending, [src |-> src, n |-> 1, val |-> v]) /\ Len(Pending) < depth
    BY <1>1, PushAppends
  <1>3. ~Stream!Waits(src)
    BY <1>1, HoldingIsWaiting
  <1> QED BY <1>1, <1>2, <1>3 DEF Stream!Occurs, Stream!Fresh, Pending

LEMMA PostConsoleIsPromised ==
  ASSUME IInv, [Next]_vars, PostConsole
  PROVE  Stream!Command(0)
  <1>1. /\ Push(Console, 0) /\ count < depth /\ 0 \in Values /\ Console \notin Sources
        /\ UNCHANGED <<depth, newest, lost>>
    BY QueueAssumption DEF PostConsole, Push
  <1>2. Pending' = Append(Pending, [src |-> Console, n |-> 1, val |-> 0]) /\ Len(Pending) < depth
    BY <1>1, PushAppends
  <1> QED BY <1>1, <1>2 DEF Stream!Command, Stream!Fresh, Pending

LEMMA LoseIsPromised ==
  ASSUME IInv, NEW src \in Sources, NEW v \in Values, Lose(src, v)
  PROVE  Stream!Occurs(src, v)
  <1>1. /\ Holding(src) = {} /\ count >= depth /\ lost' = (lost + 1) % Wrap
        /\ newest' = [newest EXCEPT ![src] = v]
        /\ q' = q /\ head' = head /\ count' = count /\ depth' = depth
    BY DEF Lose, Raise, Plus
  <1>2. Pending' = Pending
    BY <1>1 DEF Pending, Slot
  <1>3. ~Stream!Waits(src) /\ Len(Pending) >= depth
    BY <1>1, HoldingIsWaiting, PendingIsSequence DEF IInv
  <1> QED BY <1>1, <1>2, <1>3 DEF Stream!Occurs, Pending

LEMMA MergeIsPromised ==
  ASSUME IInv, [Next]_vars, NEW src \in Sources, NEW v \in Values, Merge(src, v)
  PROVE  Stream!Occurs(src, v)
  <1>1. PICK m \in 1 .. count :
          q[Slot(m)].src = src /\ q' = [q EXCEPT ![Slot(m)] = Again(@, v)]
    BY MergeChangesOneRecord
  <1>2. /\ newest' = [newest EXCEPT ![src] = v] /\ lost' = lost /\ depth' = depth
        /\ head' = head /\ count' = count
    BY DEF Merge, Raise
  <1>3. /\ Pending \in [1 .. count -> Record] /\ Len(Pending) = count /\ count \in Nat
        /\ count <= QueueMax /\ q \in [Indices -> Record]
        /\ \A k \in 1 .. count : Pending[k] = q[Slot(k)] /\ Slot(k) \in Indices
    BY PendingIsSequence, QueueAssumption DEF IInv, TypeOK
  <1>4. /\ Pending' \in [1 .. count -> Record]
        /\ \A k \in 1 .. count : Pending'[k] = q'[Slot(k)]
    BY <1>2, PendingStaysSequence DEF Slot
  <1>5. ASSUME NEW k \in 1 .. count, Slot(k) = Slot(m)
        PROVE  k = m
    <2>1. k \in 1 .. QueueMax /\ m \in 1 .. QueueMax
      BY <1>3, QueueAssumption
    <2> QED BY <1>5, <2>1, SlotsDiffer DEF IInv
  <1>6. Again(Pending[m], v) = Stream!Merged(Pending[m], v)
    <2>1. Pending[m].n \in 0 .. MaxMerged
      BY <1>3 DEF Record
    <2> QED BY <2>1, QueueAssumption DEF Again, Stream!Merged
  <1>7. Pending' = [Pending EXCEPT ![m] = Again(@, v)]
    BY <1>1, <1>3, <1>4, <1>5
  <1>8. /\ m \in 1 .. Len(Pending) /\ Pending[m].src = src
        /\ Pending' = [Pending EXCEPT ![m] = Stream!Merged(@, v)]
    BY <1>1, <1>3, <1>6, <1>7
  <1> QED BY <1>2, <1>8 DEF Stream!Occurs, Pending

LEMMA TakeIsPromised ==
  ASSUME IInv, [Next]_vars, Take
  PROVE  Stream!Take
  <1>1. /\ Pending \in Seq(Record) /\ Len(Pending) = count /\ count \in Nat
        /\ \A k \in 1 .. count : Pending[k] = q[Slot(k)]
    BY PendingIsSequence DEF IInv
  <1>2. /\ Pending' \in Seq(Record) /\ Len(Pending') = count'
        /\ \A k \in 1 .. count' : Pending'[k] = q'[Slot(k)']
    BY PendingStaysSequence
  <1>3. /\ count \in 1 .. QueueMax /\ count' = count - 1
        /\ \A k \in 1 .. count' : Slot(k)' = Slot(k + 1) /\ k + 1 \in 1 .. count
        /\ q' = q /\ depth' = depth /\ lost' = lost /\ newest' = newest
    BY TakeMovesUp DEF Take
  <1>4. Pending # <<>>
    BY <1>1, <1>3
  <1>5. /\ Tail(Pending) \in Seq(Record) /\ Len(Tail(Pending)) = count - 1
        /\ \A k \in 1 .. count - 1 : Tail(Pending)[k] = Pending[k + 1]
    BY <1>1, <1>4, HeadTailProperties
  <1>6. \A k \in 1 .. count - 1 : Pending'[k] = Tail(Pending)[k]
    BY <1>1, <1>2, <1>3, <1>5
  <1>7. Pending' = Tail(Pending)
    BY <1>2, <1>3, <1>5, <1>6, SeqEqual
  <1> QED BY <1>3, <1>4, <1>7 DEF Stream!Take, Pending

\* Every step of the ring is a step of the stream, or shows nothing of it.
LEMMA StepIsPromised ==
  ASSUME IInv, [Next]_vars
  PROVE  [Stream!Next]_Seen
  <1>1. CASE UNCHANGED vars
    <2>1. q' = q /\ head' = head /\ count' = count
      BY <1>1 DEF vars
    <2>2. Pending' = Pending
      BY <2>1 DEF Pending, Slot
    <2> QED BY <1>1, <2>2 DEF Seen, vars, stats
  <1>2. ASSUME NEW d \in 0 .. QueueMax, Reset(d) PROVE Stream!Next
    <2>1. depth' \in Nat /\ count' = 0 /\ lost' = 0 /\ newest' = newest
      BY <1>2, QueueAssumption DEF Reset
    <2>2. Pending' = <<>>
      BY <2>1 DEF Pending
    <2> QED BY <2>1, <2>2 DEF Stream!Next, Stream!Begin, Pending
  <1>3. ASSUME NEW s \in Sources, NEW v \in Values, Merge(s, v) \/ Lose(s, v) \/ Add(s, v)
        PROVE  Stream!Next
    <2>1. Stream!Occurs(s, v)
      BY <1>3, MergeIsPromised, LoseIsPromised, AddIsPromised
    <2> QED BY <2>1 DEF Stream!Next
  <1>4. CASE PostConsole
    <2>1. Stream!Command(0) /\ 0 \in Values
      BY <1>4, PostConsoleIsPromised, QueueAssumption
    <2> QED BY <2>1 DEF Stream!Next
  <1>5. CASE Take
    BY <1>5, TakeIsPromised DEF Stream!Next
  <1>6. CASE Disarm
    <2>1. count' = 0 /\ UNCHANGED <<depth, lost, newest>>
      BY <1>6 DEF Disarm
    <2>2. Pending' = <<>>
      BY <2>1 DEF Pending
    <2> QED BY <2>1, <2>2 DEF Stream!Next, Stream!End, Pending
  <1> QED BY <1>1, <1>2, <1>3, <1>4, <1>5, <1>6 DEF Next

\* The ring implements the stream of events: records come in the order in
\* which their sources raised them, one per source, with the newest payload.
THEOREM RingDeliversTheStream == Spec => DeliversTheStream
  <1>1. Init => Stream!Init
    <2>1. ASSUME Init PROVE Pending = <<>> /\ depth \in Nat /\ newest \in [Sources -> Values] /\ lost = 0
      BY <2>1, QueueAssumption DEF Init, Pending
    <2> QED BY <2>1 DEF Stream!Init, Pending
  <1>2. ASSUME IInv, [Next]_vars PROVE [Stream!Next]_Seen
    BY <1>2, StepIsPromised
  <1> QED BY <1>1, <1>2, QueueInvariant, PTL
      DEF Spec, DeliversTheStream, Stream!Spec, Seen, Pending

=============================================================================
