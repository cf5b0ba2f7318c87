--------------------------- MODULE HostCallsProofs ---------------------------
(***************************************************************************)
(* The two parts of a slot that its module's host calls change.  The       *)
(* clock: the supervisor takes the hung modules and only those, for any    *)
(* period of the tick counter, any timeout and any delays.  The pool: it   *)
(* is tiled by its blocks, for any sizes and any requests.                 *)
(***************************************************************************)
EXTENDS Watchdog, Heap, FiniteSetTheorems, WellFoundedInduction, TLAPS

-----------------------------------------------------------------------------
(* The clock: its inductive invariant. *)

TypesAgree ==
  /\ now \in Ticks /\ running \in BOOLEAN
  /\ sup \in {"works", "waits", "stuck"} /\ due \in Nat
  /\ active \in Ticks /\ parked \in Ticks
  /\ at \in {"runs", "parks", "sleeps", "waits", "wakes", "unparked"}
  /\ left \in Nat /\ ahead \in Nat /\ quiet \in 0 .. Cap /\ slipped \in 0 .. Cap

\* Only a call that blocks has a deadline, and only a module that runs makes
\* it.  A sleep is never longer than the delay asked for.
PlacesAgree ==
  /\ ~ running => at = "runs"
  /\ at \in {"runs", "unparked"} => parked = 0
  /\ at = "waits" => parked = Forever
  /\ at \in {"parks", "sleeps"} => left <= ahead
  /\ at = "sleeps" => left > 0

\* Before it blocks, the difference of the ticks is the time that passed, as
\* long as it fits.
ActiveAgrees ==
  running /\ at \in {"runs", "parks"} /\ quiet < Cap => Minus(now, active) = quiet

\* A deadline is where the delay asked for ends, but for the ticks the task
\* did not run before or after its sleep.
DeadlineAgrees ==
  at \in {"parks", "sleeps", "wakes"} /\ parked # Forever /\ slipped < Cap
    => Later(parked, slipped) = Later(now, ahead + 1)

\* A module that runs was not overdue at the last scan.
SeenRecently ==
  /\ sup = "works" => due <= Turn
  /\ sup = "waits" => due <= Poll
  /\ running /\ at = "runs" /\ sup = "works" => quiet + due <= Timeout + Turn
  /\ running /\ at = "runs" /\ sup = "waits" => quiet + due <= Timeout + Turn + Poll

IInv == TypesAgree /\ PlacesAgree /\ ActiveAgrees /\ DeadlineAgrees /\ SeenRecently

-----------------------------------------------------------------------------
(* The tick counter *)

LEMMA TicksAssumed ==
  /\ TickMod \in Nat \ {0} /\ Half \in Nat \ {0} /\ TickMod = 2 * Half
  /\ Timeout \in Nat /\ Poll \in Nat \ {0} /\ Turn \in Nat /\ Rate \in Nat \ {0}
  /\ Timeout + Turn + Poll < Half
  BY WatchdogAssumption DEF Half

\* Two times half a period apart at most: the difference is what passed.
LEMMA Remainder ==
  ASSUME NEW n \in Nat \ {0}, NEW x \in Int
  PROVE  /\ x % n \in 0 .. n - 1
         /\ x \in 0 .. n - 1 => x % n = x
         /\ x \in -n .. -1 => x % n = x + n
  OBVIOUS

LEMMA RemainderAbove ==
  ASSUME NEW n \in Nat \ {0}, NEW x \in Int, n <= x, x < n + n
  PROVE  x % n = x - n
  OBVIOUS

LEMMA MultiplesAreApart ==
  ASSUME NEW n \in Nat \ {0}, NEW x \in Int, NEW y \in Int, x < y
  PROVE  n * x + n <= n * y
  OBVIOUS

LEMMA DivisionIsUnique ==
  ASSUME NEW n \in Nat \ {0}, NEW x \in Int, NEW y \in Int,
         NEW r \in 0 .. n - 1, NEW s \in 0 .. n - 1, n * x + r = n * y + s
  PROVE  x = y /\ r = s
<1>1. ~ (x < y)
  BY MultiplesAreApart
<1>2. ~ (y < x)
  BY MultiplesAreApart
<1> QED
  BY <1>1, <1>2

LEMMA PlusStays ==
  ASSUME NEW x \in Nat, NEW k \in Nat
  PROVE  Later(x, k) \in Ticks
  BY TicksAssumed, Remainder DEF Later, Ticks

LEMMA PlusInTicks ==
  ASSUME NEW x \in Ticks, NEW k \in 0 .. TickMod
  PROVE  Later(x, k) = IF x + k < TickMod THEN x + k ELSE x + k - TickMod
<1>1. x + k \in Int /\ x \in 0 .. TickMod - 1 /\ TickMod \in Nat \ {0}
  BY TicksAssumed DEF Ticks
<1>2. CASE x + k < TickMod
  <2>1. x + k \in 0 .. TickMod - 1
    BY <1>1, <1>2
  <2> QED
    BY <1>1, <1>2, <2>1, Remainder DEF Later
<1>3. CASE ~ (x + k < TickMod)
  <2> DEFINE sum == x + k
  <2>1. /\ sum \in Int /\ TickMod <= sum /\ sum < TickMod + TickMod
        /\ TickMod \in Nat \ {0}
    BY <1>1, <1>3
  <2> HIDE DEF sum
  <2>2. sum % TickMod = sum - TickMod
    BY <2>1, RemainderAbove
  <2> USE DEF sum
  <2> QED
    BY <1>1, <1>3, <2>2 DEF Later
<1> QED
  BY <1>2, <1>3

LEMMA MinusInTicks ==
  ASSUME NEW x \in Ticks, NEW y \in Ticks
  PROVE  Minus(x, y) = IF y <= x THEN x - y ELSE x - y + TickMod
<1>1. x - y \in Int /\ x \in 0 .. TickMod - 1 /\ y \in 0 .. TickMod - 1 /\ TickMod \in Nat \ {0}
  BY TicksAssumed DEF Ticks
<1>2. CASE y <= x
  <2>1. x - y \in 0 .. TickMod - 1
    BY <1>1, <1>2
  <2> QED
    BY <1>1, <1>2, <2>1, Remainder DEF Minus
<1>3. CASE ~ (y <= x)
  <2>1. x - y \in -TickMod .. -1
    BY <1>1, <1>3
  <2> QED
    BY <1>1, <1>3, <2>1, Remainder DEF Minus
<1> QED
  BY <1>2, <1>3

\* A sum may be reduced before it is complete.
LEMMA SumOfRemainder ==
  ASSUME NEW n \in Nat \ {0}, NEW x \in Nat, NEW y \in Nat
  PROVE  ((x % n) + y) % n = (x + y) % n
<1> DEFINE qx == x \div n
           rx == x % n
           ql == (rx + y) \div n
           rl == (rx + y) % n
           qr == (x + y) \div n
           rr == (x + y) % n
           both == qx + ql
<1>1. qx \in Int /\ x = n * qx + rx /\ rx \in 0 .. n - 1
  OBVIOUS
<1>2. ql \in Int /\ rx + y = n * ql + rl /\ rl \in 0 .. n - 1
  BY <1>1
<1>3. qr \in Int /\ x + y = n * qr + rr /\ rr \in 0 .. n - 1
  OBVIOUS
<1>4. n * both = n * qx + n * ql /\ both \in Int
  BY <1>1, <1>2
<1>5. n * both + rl = n * qr + rr
  BY <1>1, <1>2, <1>3, <1>4
<1>6. both \in Int /\ qr \in Int /\ rl \in 0 .. n - 1 /\ rr \in 0 .. n - 1
  BY <1>2, <1>3, <1>4
<1>7. rl = rr
  <2> HIDE DEF both, rl, rr, qr
  <2> QED
    BY <1>5, <1>6, DivisionIsUnique
<1> QED
  BY <1>7

LEMMA PlusOfPlus ==
  ASSUME NEW x \in Nat, NEW y \in Nat, NEW z \in Nat
  PROVE  Later(Later(x, y), z) = Later(x, y + z)
<1>1. x + y \in Nat /\ TickMod \in Nat \ {0} /\ (x + y) + z = x + (y + z)
  BY TicksAssumed
<1>2. (((x + y) % TickMod) + z) % TickMod = ((x + y) + z) % TickMod
  BY <1>1, SumOfRemainder
<1> QED
  BY <1>1, <1>2 DEF Later

-----------------------------------------------------------------------------
(* The invariant *)

LEMMA ZeroFits == 0 \in Ticks /\ 0 \in 0 .. Cap /\ 0 \in Nat
  BY TicksAssumed DEF Ticks, Cap

LEMMA InitIInv == WatchdogInit => IInv
<1> SUFFICES ASSUME WatchdogInit PROVE IInv
  OBVIOUS
<1>1. TypesAgree
  BY ZeroFits, TicksAssumed DEF WatchdogInit, TypesAgree
<1>2. SeenRecently
  BY TicksAssumed DEF WatchdogInit, SeenRecently
<1> QED
  BY <1>1, <1>2 DEF IInv, WatchdogInit, PlacesAgree, ActiveAgrees, DeadlineAgrees

LEMMA TickKeepsIInv ==
  ASSUME IInv, Tick
  PROVE  IInv'
<1>1. /\ now \in Ticks /\ active \in Ticks /\ parked \in Nat /\ now \in Nat
      /\ now' = (IF now = TickMod - 1 THEN 0 ELSE now + 1) /\ now' \in Ticks
  BY TicksAssumed, PlusInTicks DEF IInv, TypesAgree, Tick, Ticks
<1>2. TypesAgree'
  BY <1>1, TicksAssumed DEF IInv, TypesAgree, Tick, UpTo, DownTo, Cap, slotVars
<1>3. PlacesAgree'
  BY DEF IInv, TypesAgree, PlacesAgree, Tick, DownTo, Blocked, slotVars
<1>4. ActiveAgrees'
  <2> SUFFICES ASSUME running, at \in {"runs", "parks"}, quiet + 1 < Cap
               PROVE  Minus(now', active) = quiet + 1
    BY DEF IInv, TypesAgree, ActiveAgrees, Tick, UpTo, Blocked, slotVars
  <2>1. Minus(now, active) = quiet
    BY TicksAssumed DEF IInv, TypesAgree, ActiveAgrees, Cap
  <2> QED
    BY <1>1, <2>1, MinusInTicks, TicksAssumed DEF Cap, Ticks
<1>5. DeadlineAgrees'
  <2> SUFFICES ASSUME at' \in {"parks", "sleeps", "wakes"}, parked # Forever, slipped' < Cap
               PROVE  Later(parked, slipped') = Later(now', ahead' + 1)
    BY DEF DeadlineAgrees, Tick, slotVars
  <2>1. /\ at \in {"parks", "sleeps", "wakes"} /\ slipped \in Nat /\ ahead \in Nat
        /\ slipped < Cap /\ now' = Later(now, 1)
    BY TicksAssumed DEF IInv, TypesAgree, PlacesAgree, Tick, UpTo, Blocked, Cap
  <2>2. Later(parked, slipped) = Later(now, ahead + 1)
    BY <2>1 DEF IInv, DeadlineAgrees
  <2>3. CASE at \in {"parks", "wakes"}
    <3>1. slipped' = slipped + 1 /\ ahead' = ahead
      BY <2>1, <2>3 DEF Tick, UpTo, Blocked
    <3>2. Later(parked, slipped + 1) = Later(Later(parked, slipped), 1)
      BY <1>1, <2>1, PlusOfPlus
    <3>3. Later(Later(now, ahead + 1), 1) = Later(now, (ahead + 1) + 1)
      BY <1>1, <2>1, PlusOfPlus
    <3>4. Later(Later(now, 1), ahead + 1) = Later(now, 1 + (ahead + 1))
      BY <1>1, <2>1, PlusOfPlus
    <3> QED
      BY <2>1, <2>2, <3>1, <3>2, <3>3, <3>4
  <2>4. CASE at = "sleeps"
    <3>1. slipped' = slipped /\ ahead' = ahead - 1 /\ ahead - 1 \in Nat
      BY <2>1, <2>4 DEF IInv, TypesAgree, PlacesAgree, Tick, DownTo, Blocked
    <3>2. Later(Later(now, 1), ahead) = Later(now, 1 + ahead)
      BY <1>1, <2>1, PlusOfPlus
    <3> QED
      BY <2>1, <2>2, <3>1, <3>2
  <2> QED
    BY <2>1, <2>3, <2>4
<1>6. SeenRecently'
  BY TicksAssumed DEF IInv, TypesAgree, SeenRecently, Tick, UpTo, DownTo, Blocked, Cap, slotVars
<1> QED
  BY <1>2, <1>3, <1>4, <1>5, <1>6 DEF IInv

LEMMA StartKeepsIInv ==
  ASSUME IInv, Start
  PROVE  IInv'
<1>1. Minus(now, now) = 0
  BY MinusInTicks DEF IInv, TypesAgree, Ticks
<1> QED
  BY <1>1, TicksAssumed DEF IInv, TypesAgree, PlacesAgree, ActiveAgrees, DeadlineAgrees,
      SeenRecently, Start, Cap

LEMMA ReclaimsKeepsIInv ==
  ASSUME IInv, Reclaims, now' = now,
         \/ sup' = sup /\ due' = due
         \/ sup' = "works" /\ due' = Turn
  PROVE  IInv'
<1>1. /\ running' = FALSE /\ active' = 0 /\ parked' = 0 /\ at' = "runs" /\ left' = 0
      /\ ahead' = 0 /\ quiet' = 0 /\ slipped' = 0
  BY DEF Reclaims
<1>2. /\ sup' \in {"works", "waits", "stuck"} /\ due' \in Nat
      /\ sup' = "works" => due' <= Turn
      /\ sup' = "waits" => due' <= Poll
  BY TicksAssumed DEF IInv, TypesAgree, SeenRecently
<1>3. TypesAgree'
  BY <1>1, <1>2, ZeroFits DEF IInv, TypesAgree
<1> QED
  BY <1>1, <1>2, <1>3 DEF IInv, PlacesAgree, ActiveAgrees, DeadlineAgrees, SeenRecently

LEMMA FeedKeepsIInv ==
  ASSUME IInv, Feed
  PROVE  IInv'
<1>1. Minus(now, now) = 0
  BY MinusInTicks DEF IInv, TypesAgree, Ticks
<1> QED
  BY <1>1, TicksAssumed DEF IInv, TypesAgree, PlacesAgree, ActiveAgrees, DeadlineAgrees,
      SeenRecently, Feed, Feeds, Runs, Cap

\* The division undoes the product unless the product wraps.
LEMMA SleepIsNoLonger ==
  ASSUME NEW ms \in Nat
  PROVE  InTicks(ms) \in 0 .. ms
<1> DEFINE product == ms * Rate
           kept    == product % TickMod
           ticks   == kept \div Rate
<1>1. product \in Nat /\ Rate \in Nat \ {0} /\ TickMod \in Nat \ {0}
  BY TicksAssumed
<1>2. kept \in 0 .. product
  <2> HIDE DEF product
  <2> QED
    BY <1>1
<1>3. ticks \in Nat /\ Rate * ticks <= kept
  <2> HIDE DEF kept
  <2> QED
    BY <1>1, <1>2
<1>4. Rate * ticks <= Rate * ms
  BY <1>1, <1>2, <1>3
<1>5. ~ (ms < ticks)
  <2> HIDE DEF ticks
  <2> QED
    BY <1>1, <1>3, <1>4, MultiplesAreApart
<1> QED
  BY <1>3, <1>5 DEF InTicks

LEMMA DelayKeepsIInv ==
  ASSUME IInv, NEW ms \in Delays, Delay_Parks(ms)
  PROVE  IInv'
<1>1. now \in Nat /\ ms \in Nat /\ ms + 1 \in Nat
  BY WatchdogAssumption, TicksAssumed DEF IInv, TypesAgree, Ticks
<1>2. Later(now, ms + 1) \in Ticks
  BY <1>1, PlusStays
<1>3. Later(Later(now, ms + 1), 0) = Later(now, (ms + 1) + 0)
  BY <1>1, PlusOfPlus
<1>4. InTicks(ms) \in 0 .. ms
  BY <1>1, SleepIsNoLonger
<1> QED
  BY <1>1, <1>2, <1>3, <1>4, TicksAssumed DEF IInv, TypesAgree, PlacesAgree, ActiveAgrees,
      DeadlineAgrees, SeenRecently, Delay_Parks, Runs, Cap

LEMMA SleepsKeepsIInv ==
  ASSUME IInv, Delay_Sleeps
  PROVE  IInv'
BY DEF IInv, TypesAgree, PlacesAgree, ActiveAgrees, DeadlineAgrees, SeenRecently, Delay_Sleeps, Runs

LEMMA WaitKeepsIInv ==
  ASSUME IInv, Wait \/ Notified
  PROVE  IInv'
BY WatchdogAssumption, TicksAssumed DEF IInv, TypesAgree, PlacesAgree, ActiveAgrees,
    DeadlineAgrees, SeenRecently, Wait, Notified, Runs, Forever, Ticks

LEMMA ReturnKeepsIInv ==
  ASSUME IInv, Return_Unparks \/ Return_Feeds
  PROVE  IInv'
<1>1. Minus(now, now) = 0
  BY MinusInTicks DEF IInv, TypesAgree, Ticks
<1>2. CASE Return_Unparks
  BY <1>2, TicksAssumed DEF IInv, TypesAgree, PlacesAgree, ActiveAgrees, DeadlineAgrees,
      SeenRecently, Return_Unparks, Runs, Ticks
<1>3. CASE Return_Feeds
  BY <1>1, <1>3, TicksAssumed DEF IInv, TypesAgree, PlacesAgree, ActiveAgrees, DeadlineAgrees,
      SeenRecently, Return_Feeds, Feeds, Runs, Cap
<1> QED
  BY <1>2, <1>3

LEMMA LoopKeepsIInv ==
  ASSUME IInv, Waits \/ Sticks
  PROVE  IInv'
<1>1. UNCHANGED <<now, running, active, parked, at, left, ahead, quiet, slipped>>
  BY DEF Waits, Sticks, slotVars, taskVars
<1>2. SeenRecently'
  BY <1>1, TicksAssumed DEF IInv, TypesAgree, SeenRecently, Waits, Sticks, Cap
<1> QED
  BY <1>1, <1>2, TicksAssumed DEF IInv, TypesAgree, PlacesAgree, ActiveAgrees, DeadlineAgrees,
      Waits, Sticks

\* A module that runs has no deadline, so the scan that spares it has seen
\* it make progress within the timeout.
LEMMA ScanKeepsIInv ==
  ASSUME IInv, Scan
  PROVE  IInv'
<1>1. CASE running /\ IsOverdue
  BY <1>1, ReclaimsKeepsIInv DEF Scan
<1>2. CASE ~ (running /\ IsOverdue)
  <2>1. /\ UNCHANGED <<now, running, active, parked, at, left, ahead, quiet, slipped>>
        /\ sup' = "works" /\ due' = Turn
    BY <1>2 DEF Scan, slotVars, taskVars
  <2>2. SeenRecently'
    <3> SUFFICES ASSUME running, at = "runs"
                 PROVE  quiet <= Timeout
      BY <2>1, TicksAssumed DEF SeenRecently, IInv, TypesAgree
    <3>1. ~ IsParked
      BY TicksAssumed DEF IInv, PlacesAgree, IsParked, Forever
    <3>2. quiet < Cap
      BY TicksAssumed DEF IInv, TypesAgree, SeenRecently, Scan, Cap
    <3> QED
      BY <1>2, <3>1, <3>2, TicksAssumed DEF IInv, TypesAgree, ActiveAgrees, IsOverdue
  <2> QED
    BY <2>1, <2>2, TicksAssumed DEF IInv, TypesAgree, PlacesAgree, ActiveAgrees, DeadlineAgrees
<1> QED
  BY <1>1, <1>2

LEMMA NextKeepsIInv == IInv /\ [WatchdogNext]_wdVars => IInv'
<1> SUFFICES ASSUME IInv, [WatchdogNext]_wdVars PROVE IInv'
  OBVIOUS
<1>1. CASE Unload
  BY <1>1, ReclaimsKeepsIInv DEF Unload
<1>2. CASE UNCHANGED wdVars
  BY <1>2 DEF wdVars, slotVars, taskVars, IInv, TypesAgree, PlacesAgree, ActiveAgrees,
      DeadlineAgrees, SeenRecently
<1> QED
  BY <1>1, <1>2, TickKeepsIInv, StartKeepsIInv, ScanKeepsIInv, LoopKeepsIInv, FeedKeepsIInv,
      WaitKeepsIInv, DelayKeepsIInv, SleepsKeepsIInv, ReturnKeepsIInv DEF WatchdogNext

-----------------------------------------------------------------------------

\* The tick fields of a slot agree with what its task does.
THEOREM WatchdogInvariant == WatchdogSpec => []IInv
  BY InitIInv, NextKeepsIInv, PTL DEF WatchdogSpec

(* supervisor.c:531-542, 571-591: a module that computes without a word to *)
(* the host is gone after the timeout, a turn of the loop and one poll,    *)
(* unless the supervisor is stuck in a send.                               *)
THEOREM HungAreReclaimed == WatchdogSpec => []HungIsReclaimed
<1>1. IInv => HungIsReclaimed
  BY TicksAssumed DEF IInv, TypesAgree, SeenRecently, HungIsReclaimed
<1> QED
  BY <1>1, WatchdogInvariant, PTL

\* A deadline at most half a period ahead reads as one that is still to come.
LEMMA SleeperIsParked ==
  ASSUME IInv, at \in {"sleeps", "wakes"}, ~ Misread, slipped <= 1, slipped <= ahead
  PROVE  IsParked
<1>1. CASE parked = Forever
  BY <1>1 DEF IsParked
<1>2. CASE parked # Forever
  <2>1. /\ now \in Ticks /\ parked \in Ticks /\ ahead \in Nat /\ ahead < Half
        /\ slipped \in {0, 1} /\ Later(parked, slipped) = Later(now, ahead + 1)
    BY <1>2, TicksAssumed DEF IInv, TypesAgree, DeadlineAgrees, Misread, Cap
  <2> DEFINE off == ahead + 1 - slipped
  <2>2. off \in 1 .. Half
    BY <2>1, TicksAssumed
  <2>3. parked = now + off \/ parked = now + off - TickMod
    <3>1. /\ Later(parked, slipped) = IF parked + slipped < TickMod
                                     THEN parked + slipped ELSE parked + slipped - TickMod
          /\ Later(now, ahead + 1) = IF now + (ahead + 1) < TickMod
                                    THEN now + (ahead + 1) ELSE now + (ahead + 1) - TickMod
      BY <2>1, PlusInTicks, TicksAssumed
    <3> QED
      BY <2>1, <3>1, TicksAssumed DEF Ticks
  <2>4. Minus(now, parked) = TickMod - off
    BY <2>1, <2>2, <2>3, MinusInTicks, TicksAssumed DEF Ticks
  <2> QED
    BY <2>2, <2>4, TicksAssumed DEF IsParked, Before, Misread
<1> QED
  BY <1>1, <1>2

LEMMA KilledIsOverdue == Killed => IsOverdue
  BY Zenon DEF Killed, Scan, slotVars

(* registry.h:50-65, 82-89: no scan takes out a module that was not blocked *)
(* for as long as the timeout since its last progress, but in the cases the *)
(* property names.                                                          *)
THEOREM NoneIsKilledEarly == WatchdogSpec => OnlyTheHungAreKilled
<1>1. ASSUME IInv, Killed, at # "unparked",
             at \in {"sleeps", "wakes"} => ~ Misread /\ slipped = 0
      PROVE  quiet > Timeout
  <2>1. IsOverdue /\ running
    BY <1>1, KilledIsOverdue DEF Killed
  <2>2. at \notin {"sleeps", "wakes"}
    BY <1>1, <2>1, SleeperIsParked DEF IsOverdue, IInv, TypesAgree
  <2>3. at # "waits"
    BY <1>1, <2>1 DEF IInv, PlacesAgree, IsParked, IsOverdue
  <2>4. at \in {"runs", "parks"}
    BY <1>1, <2>2, <2>3 DEF IInv, TypesAgree
  <2> QED
    BY <1>1, <2>1, <2>4, TicksAssumed DEF IInv, TypesAgree, ActiveAgrees, IsOverdue, Cap
<1> DEFINE Hung == \/ quiet > Timeout
                   \/ at = "unparked"
                   \/ at \in {"sleeps", "wakes"} /\ (Misread \/ slipped > 0)
<1>2. IInv /\ [WatchdogNext]_wdVars => [Killed => Hung]_wdVars
  BY <1>1 DEF IInv, TypesAgree
<1>3. [][Killed => Hung]_wdVars => OnlyTheHungAreKilled
  BY PTL DEF OnlyTheHungAreKilled
<1> QED
  BY <1>2, <1>3, WatchdogInvariant, PTL DEF WatchdogSpec

(* registry.h:82-89: no scan takes out a module that sleeps or waits, but  *)
(* in the cases that the property names.                                   *)
THEOREM SleepersLive == WatchdogSpec => SleepersAreSpared
<1>1. ASSUME IInv, Killed, Blocked
      PROVE  Misread \/ slipped > 1
  <2>1. ~ IsParked
    BY <1>1, KilledIsOverdue DEF IsOverdue
  <2>2. at = "sleeps"
    BY <1>1, <2>1 DEF IInv, PlacesAgree, IsParked, Blocked
  <2>3. ahead \in Nat \ {0} /\ slipped \in Nat
    BY <1>1, <2>2 DEF IInv, TypesAgree, PlacesAgree
  <2> QED
    BY <1>1, <2>1, <2>2, <2>3, SleeperIsParked
<1>2. IInv /\ [WatchdogNext]_wdVars => [Killed /\ Blocked => Misread \/ slipped > 1]_wdVars
  BY <1>1
<1> QED
  BY <1>2, WatchdogInvariant, PTL DEF WatchdogSpec, SleepersAreSpared

-----------------------------------------------------------------------------
(* The pool: its inductive invariant. *)

\* Where host_free() finds a header to accept.
Headers == {b \in Cells : b + Header <= HeapSize}
Places  == Headers \cup {None}

PoolTyped ==
  /\ top \in Cells /\ list \in Places
  /\ hdr \in [Cells -> [next : Places, size : Int]]
  /\ owned \in [Cells -> Nat]
  /\ \A b \in Cells : owned[b] > 0 => b \in Headers

\* The list is l[1], l[2] .. l[n].
FromList(l, n, i) == IF i > n THEN None ELSE l[i]

Chains(l, n) ==
  /\ n \in Nat /\ l \in [1 .. n -> Headers]
  /\ \A i, j \in 1 .. n : l[i] = l[j] => i = j
  /\ list = FromList(l, n, 1)
  /\ \A i \in 1 .. n : hdr[l[i]].next = FromList(l, n, i + 1)

Linked(l, n) == {l[i] : i \in 1 .. n}

Tiles(B) ==
  /\ \A b \in B : /\ b \in Cells /\ ArgSize <= b /\ hdr[b].size \in Nat
                  /\ End(b) <= top /\ (End(b) = top \/ End(b) \in B)
  /\ \A b, c \in B : b < c => End(b) <= c
  /\ ArgSize = top \/ ArgSize \in B

Tidy ==
  /\ \A b \in Cells : owned[b] <= 1
  /\ \E n \in Nat : \E l \in [1 .. n -> Headers] :
       /\ Chains(l, n)
       /\ \A b \in Linked(l, n) : owned[b] = 0
       /\ Tiles(Linked(l, n) \cup Owned)

\* Whatever was a header keeps its place: blocks that were cut do not overlap.
Laid ==
  /\ ~ astray /\ ArgSize <= top
  /\ \A b \in WasHeader : ArgSize <= b /\ hdr[b].size \in Nat /\ End(b) <= top
  /\ \A b, c \in WasHeader : b < c => End(b) <= c
  /\ \A b \in Cells : owned[b] > 0 => b \in WasHeader

PoolInv ==
  /\ wrapped \in BOOLEAN /\ misused \in Nat /\ (misused = 0 => loose = {})
  /\ ~ wrapped /\ loose = {} => PoolTyped /\ Laid /\ (misused = 0 => Tidy)

-----------------------------------------------------------------------------
(* The list as a function of the place, and its length. *)

LEMMA HeapAssumed ==
  /\ Header \in Nat \ {0} /\ ArgSize \in Nat /\ HeapSize \in Nat /\ SizeMod \in Nat \ {0}
  /\ ArgSize < HeapSize /\ HeapSize + Header < SizeMod
  /\ ArgSize % Header = 0 /\ HeapSize % Header = 0 /\ SizeMod % Header = 0
  /\ Requests \subseteq 0 .. SizeMod - 1 /\ Garbage \subseteq 0 .. SizeMod - 1
  /\ MaxMisuse \in Nat /\ MaxOwners \in Nat \ {0}
  BY HeapAssumption

LEMMA CellsAreFinite ==
  /\ Cells \subseteq Nat /\ \A b \in Cells : b <= HeapSize /\ b # None
  /\ IsFiniteSet(Cells) /\ Cardinality(Cells) \in Nat
<1>1. Cells \subseteq 0 .. HeapSize
  BY DEF Cells
<1>2. IsFiniteSet(0 .. HeapSize)
  BY HeapAssumed, FS_Interval
<1>3. IsFiniteSet(Cells)
  BY <1>1, <1>2, FS_Subset
<1> QED
  BY <1>1, <1>3, HeapAssumed, FS_CardinalityType DEF None

\* The smallest of a set of numbers.
LEMMA SmallestOf ==
  ASSUME NEW T \in SUBSET Nat, T # {}
  PROVE  \E m \in T : \A n \in T : m <= n
<1> DEFINE R == {ss \in Nat \X Nat : ss[1] < ss[2]}
<1>1. IsWellFoundedOn(R, Nat)
  BY NatLessThanWellFounded, Zenon DEF OpToRel
<1>2. \A m, n \in Nat : n < m => <<n, m>> \in R
  OBVIOUS
<1> HIDE DEF R
<1>3. PICK m \in T : \A n \in T : ~ (<<n, m>> \in R)
  BY <1>1, WFMin
<1>4. \A n \in T : ~ (n < m)
  BY <1>2, <1>3
<1> QED
  BY <1>4

\* The first blocks of the list, to the n-th.
FirstOf(n, g) ==
  [k \in 0 .. n |-> IF k = 0 THEN list ELSE After(g[k - 1])]

LEMMA ListExists == \A n \in Nat : \E g : g = FirstOf(n, g)
<1> DEFINE T == {n \in Nat : ~ \E g : g = FirstOf(n, g)}
<1> SUFFICES ASSUME T # {} PROVE FALSE
  OBVIOUS
<1>1. PICK m \in T : \A n \in T : m <= n
  BY SmallestOf
<1>2. CASE m = 0
  <2> DEFINE g == [k \in 0 .. 0 |-> list]
  <2>1. g = FirstOf(0, g)
    BY DEF FirstOf
  <2> QED
    BY <1>1, <1>2, <2>1
<1>3. CASE m # 0
  <2>1. m - 1 \in Nat /\ m - 1 \notin T
    BY <1>1, <1>3
  <2>2. PICK f : f = FirstOf(m - 1, f)
    BY <2>1
  <2> DEFINE last == After(f[m - 1])
             g == [k \in 0 .. m |-> IF k = m THEN last ELSE f[k]]
  <2>3. \A k \in 0 .. m : g[k] = IF k = 0 THEN list ELSE After(g[k - 1])
    <3> SUFFICES ASSUME NEW k \in 0 .. m
                 PROVE  g[k] = IF k = 0 THEN list ELSE After(g[k - 1])
      OBVIOUS
    <3>1. CASE k = m
      <4>1. g[k] = last /\ g[k - 1] = f[m - 1] /\ k # 0
        BY <1>1, <1>3, <3>1
      <4> QED
        BY <3>1, <4>1
    <3>2. CASE k # m
      <4>1. k \in 0 .. m - 1 /\ (k # 0 => k - 1 \in 0 .. m - 1 /\ k - 1 # m)
        BY <1>1, <3>2
      <4>2. g[k] = f[k] /\ (k # 0 => g[k - 1] = f[k - 1])
        BY <1>1, <3>2, <4>1
      <4>3. f[k] = IF k = 0 THEN list ELSE After(f[k - 1])
        BY <2>2, <4>1 DEF FirstOf
      <4> QED
        BY <4>2, <4>3
    <3> QED
      BY <3>1, <3>2
  <2>4. g = [k \in 0 .. m |-> g[k]]
    OBVIOUS
  <2> HIDE DEF g
  <2>5. g = FirstOf(m, g)
    BY <2>3, <2>4 DEF FirstOf
  <2> QED
    BY <1>1, <2>5
<1> QED
  BY <1>2, <1>3

LEMMA ListIs ==
  /\ DOMAIN Nth = 0 .. Cardinality(Cells) /\ Nth[0] = list
  /\ \A k \in 1 .. Cardinality(Cells) : Nth[k] = After(Nth[k - 1])
<1>1. PICK N \in Nat : N = Cardinality(Cells)
  BY CellsAreFinite
<1>2. \E g : g = FirstOf(N, g)
  BY ListExists
<1>3. Nth = CHOOSE g : g = FirstOf(N, g)
  BY <1>1 DEF Nth, FirstOf
<1>4. Nth = FirstOf(N, Nth)
  BY <1>2, <1>3
<1> HIDE DEF Nth
<1> DEFINE f == Nth
<1>5. f = FirstOf(N, f)
  BY <1>4
<1> HIDE DEF f
<1>6. /\ DOMAIN f = 0 .. N /\ f[0] = list
      /\ \A k \in 1 .. N : f[k] = After(f[k - 1])
  BY <1>5 DEF FirstOf
<1> QED
  BY <1>1, <1>6 DEF f

\* Nothing but headers that host_free() accepted is on the list.
LEMMA ListInPlaces ==
  ASSUME PoolTyped, NEW k \in DOMAIN Nth
  PROVE  Nth[k] \in Places
<1>1. PICK N \in Nat : N = Cardinality(Cells)
  BY CellsAreFinite
<1> DEFINE T == {j \in 0 .. N : Nth[j] \notin Places}
<1> SUFFICES ASSUME T # {} PROVE FALSE
  BY <1>1, ListIs
<1>2. PICK m \in T : \A n \in T : m <= n
  <2>1. T \in SUBSET Nat
    OBVIOUS
  <2> QED
    BY <2>1, SmallestOf
<1>3. m # 0
  BY <1>2, ListIs DEF PoolTyped
<1>4. m \in 1 .. N /\ m - 1 \in 0 .. N /\ m - 1 \notin T
  BY <1>1, <1>2, <1>3
<1>5. Nth[m - 1] \in Places
  BY <1>4
<1>6. Nth[m] = After(Nth[m - 1])
  BY <1>1, <1>4, ListIs
<1>7. After(Nth[m - 1]) \in Places
  BY <1>5 DEF PoolTyped, Places, Headers, After
<1> QED
  BY <1>2, <1>6, <1>7

LEMMA ChainIsShort ==
  ASSUME NEW n, NEW l, Chains(l, n)
  PROVE  n \in Nat /\ n <= Cardinality(Cells)
<1>1. n \in Nat /\ l \in [1 .. n -> Cells] /\ \A i, j \in 1 .. n : l[i] = l[j] => i = j
  BY DEF Chains, Headers
<1>2. l \in Injection(1 .. n, Cells)
  BY <1>1 DEF Injection, IsInjective
<1>3. Cardinality(1 .. n) <= Cardinality(Cells)
  BY <1>2, CellsAreFinite, FS_Injection
<1>4. Cardinality(1 .. n) = n
  BY <1>1, FS_Interval
<1> QED
  BY <1>1, <1>3, <1>4

\* The places of the list are those of the chain, and none past its end.
LEMMA ListIsChain ==
  ASSUME NEW n, NEW l, Chains(l, n), NEW k \in DOMAIN Nth
  PROVE  Nth[k] = FromList(l, n, k + 1)
<1>1. PICK N \in Nat : N = Cardinality(Cells)
  BY CellsAreFinite
<1> DEFINE T == {j \in 0 .. N : Nth[j] # FromList(l, n, j + 1)}
<1> SUFFICES ASSUME T # {} PROVE FALSE
  BY <1>1, ListIs
<1>2. PICK m \in T : \A i \in T : m <= i
  <2>1. T \in SUBSET Nat
    OBVIOUS
  <2> QED
    BY <2>1, SmallestOf
<1>3. m # 0
  BY <1>2, ListIs DEF Chains
<1>4. m \in 1 .. N /\ m - 1 \in 0 .. N /\ m - 1 \notin T
  BY <1>1, <1>2, <1>3
<1>5. Nth[m - 1] = FromList(l, n, m)
  BY <1>4
<1>6. Nth[m] = After(Nth[m - 1]) /\ After(None) = None
  BY <1>1, <1>4, ListIs, CellsAreFinite DEF After
<1>7. n \in Nat /\ \A i \in 1 .. n : After(l[i]) = FromList(l, n, i + 1)
  BY CellsAreFinite DEF Chains, Headers, After
<1>8. CASE m > n
  BY <1>2, <1>4, <1>5, <1>6, <1>7, <1>8 DEF FromList
<1>9. CASE m <= n
  <2>1. m \in 1 .. n
    BY <1>4, <1>7, <1>9
  <2>2. FromList(l, n, m) = l[m]
    BY <1>4, <1>7, <1>9 DEF FromList
  <2> QED
    BY <1>2, <1>5, <1>6, <1>7, <2>1, <2>2
<1> QED
  BY <1>4, <1>7, <1>8, <1>9

-----------------------------------------------------------------------------
(* Sizes are multiples of the header, and sums that do not wrap are sums. *)

LEMMA TimesIsMultiple ==
  ASSUME NEW m \in Nat \ {0}, NEW q \in Int
  PROVE  (m * q) % m = 0
  BY Z3

LEMMA QuotientExists ==
  ASSUME NEW n \in Nat \ {0}, NEW x \in Nat
  PROVE  \E q \in Int : x = n * q + (x % n)
<1> DEFINE d == x \div n
           r == x % n
<1>1. d \in Int /\ x = n * d + r /\ r \in 0 .. n - 1
  OBVIOUS
<1> QED
  BY <1>1

LEMMA RemainderIs ==
  ASSUME NEW n \in Nat \ {0}, NEW x \in Nat
  PROVE  x % n \in 0 .. n - 1 /\ x % n \in Nat /\ x % n <= x
  OBVIOUS

LEMMA MultiplesAdd ==
  ASSUME NEW m \in Nat \ {0}, NEW a \in Nat, NEW b \in Nat, a % m = 0, b % m = 0
  PROVE  (a + b) % m = 0
<1>1. PICK q \in Int : a = m * q + (a % m)
  BY QuotientExists
<1>2. PICK r \in Int : b = m * r + (b % m)
  BY QuotientExists
<1>3. a = m * q /\ b = m * r
  BY <1>1, <1>2
<1>4. a + b = m * (q + r) /\ q + r \in Int
  BY <1>3, Z3
<1> QED
  BY <1>4, TimesIsMultiple

LEMMA SizesAreRounded ==
  ASSUME NEW n \in Nat
  PROVE  Rounded(n) \in Nat /\ Rounded(n) % Header = 0
<1>1. PICK r : r = Sum(n, Header - 1)
  OBVIOUS
<1>2. n + (Header - 1) \in Int /\ SizeMod \in Nat \ {0} /\ Header \in Nat \ {0}
  BY HeapAssumed
<1>3. r \in Nat
  <2> DEFINE x == n + (Header - 1)
  <2>1. x \in Nat /\ r = x % SizeMod
    BY <1>1, <1>2 DEF Sum
  <2> HIDE DEF x
  <2>2. x % SizeMod \in 0 .. SizeMod - 1
    BY <1>2, <2>1, RemainderIs
  <2> QED
    BY <1>2, <2>1, <2>2
<1>4. PICK q \in Int : r - (r % Header) = Header * q
  <2>1. PICK q \in Int : r = Header * q + (r % Header)
    BY <1>2, <1>3, QuotientExists
  <2> DEFINE x == r % Header  y == Header * q
  <2>2. y \in Int /\ x \in Nat /\ r = y + x
    BY <1>2, <1>3, <2>1, RemainderIs
  <2> HIDE DEF x, y
  <2>3. r - x = y
    BY <1>3, <2>2
  <2> QED
    BY <2>3 DEF x, y
<1>5. (r - (r % Header)) % Header = 0
  BY <1>2, <1>4, TimesIsMultiple
<1>6. r - (r % Header) \in Nat
  <2>2. r % Header \in Nat /\ r % Header <= r
    BY <1>2, <1>3, RemainderIs
  <2> QED
    BY <1>3, <2>2
<1> QED
  BY <1>1, <1>5, <1>6 DEF Rounded

\* A fresh block ends in the pool, unless its size wrapped.
LEMMA FreshFits ==
  ASSUME NEW n \in Nat, top \in Cells, Room(n), ~ (Rounded(n) + Header >= SizeMod)
  PROVE  /\ Sum(Rounded(n), Header) = Rounded(n) + Header
         /\ top \in Headers /\ top + Sum(Rounded(n), Header) \in Cells
<1>1. PICK r \in Nat : r = Rounded(n) /\ r % Header = 0
  BY SizesAreRounded
<1>2. /\ Header \in Nat \ {0} /\ HeapSize \in Nat /\ SizeMod \in Nat \ {0}
      /\ top \in 0 .. HeapSize /\ top % Header = 0
  BY HeapAssumed DEF Cells
<1>3. Sum(r, Header) = r + Header
  <2>1. r + Header \in 0 .. SizeMod - 1
    BY <1>1, <1>2
  <2>2. \A x \in 0 .. SizeMod - 1 : x % SizeMod = x
    BY <1>2
  <2> QED
    BY <2>1, <2>2 DEF Sum
<1>4. HeapSize - top >= r + Header
  BY <1>1, <1>3 DEF Room
<1>5. top + (r + Header) \in 0 .. HeapSize /\ top + Header <= HeapSize
  BY <1>1, <1>2, <1>4
<1>6. (top + (r + Header)) % Header = 0
  <2>1. (Header * 1) % Header = 0
    BY <1>2, TimesIsMultiple
  <2>2. Header % Header = 0
    BY <1>2, <2>1
  <2>3. (r + Header) % Header = 0
    BY <1>1, <1>2, <2>2, MultiplesAdd
  <2> QED
    BY <1>1, <1>2, <2>3, MultiplesAdd
<1> QED
  BY <1>1, <1>2, <1>3, <1>5, <1>6 DEF Cells, Headers

-----------------------------------------------------------------------------
(* The steps. *)

LEMMA HeapInitInv == HeapInit => PoolInv
<1> SUFFICES ASSUME HeapInit PROVE PoolInv
  OBVIOUS
<1>1. /\ top = ArgSize /\ list = None /\ hdr = [a \in Cells |-> Unused] /\ owned = [a \in Cells |-> 0]
      /\ misused = 0 /\ wrapped = FALSE /\ loose = {} /\ ~ astray
  BY DEF HeapInit
<1>2. PoolTyped
  BY <1>1, HeapAssumed DEF PoolTyped, Places, Unused, None, Cells
<1>2a. Laid
  <2>1. WasHeader = {}
    BY <1>1 DEF WasHeader, Unused
  <2> QED
    BY <1>1, <2>1, HeapAssumed DEF Laid
<1>3. Tidy
  <2> DEFINE l == [i \in 1 .. 0 |-> 0]
  <2>1. 1 .. 0 = {} /\ l \in [1 .. 0 -> Headers]
    OBVIOUS
  <2>2. Chains(l, 0)
    BY <1>1, <2>1 DEF Chains, FromList
  <2>3. Linked(l, 0) = {} /\ Owned = {}
    BY <1>1, <2>1 DEF Linked, Owned
  <2>4. Tiles(Linked(l, 0) \cup Owned)
    BY <1>1, <2>3 DEF Tiles
  <2>5. \A b \in Cells : owned[b] <= 1
    BY <1>1
  <2>6. \A b \in Linked(l, 0) : owned[b] = 0
    BY <2>3
  <2> HIDE DEF l
  <2> QED
    BY <2>1, <2>2, <2>4, <2>5, <2>6 DEF Tidy
<1> QED
  BY <1>1, <1>2, <1>2a, <1>3 DEF PoolInv

LEMMA ResetKeepsPool == HeapReset => PoolInv'
<1>1. (HeapInit => PoolInv)'
  BY HeapInitInv, PTL
<1>2. HeapReset => HeapInit'
  BY DEF HeapReset, HeapInit
<1> QED
  BY <1>1, <1>2

\* The same blocks with the same sizes tile the same pool.
LEMMA TilesStay ==
  ASSUME NEW B, Tiles(B), top' = top, \A b \in B : hdr'[b].size = hdr[b].size
  PROVE  Tiles(B)'
<1>1. B' = B
  OBVIOUS
<1> QED
  BY DEF Tiles, End

\* What a block of the list is, and the one before it.
LEMMA FirstFitIs ==
  ASSUME PoolTyped, NEW k \in DOMAIN Nth, NEW n, IsFirstFit(k, n)
  PROVE  /\ Nth[k] \in Headers /\ Nth[k] \in Cells /\ k \in Nat
         /\ k = 0 => Nth[k] = list
         /\ k # 0 => k - 1 \in DOMAIN Nth /\ Nth[k - 1] \in Headers /\ Nth[k - 1] \in Cells
<1>1. Cardinality(Cells) \in Nat /\ k \in 0 .. Cardinality(Cells)
  BY ListIs, CellsAreFinite
<1>2. Nth[k] # None
  BY CellsAreFinite DEF IsFirstFit, Fits
<1>3. Nth[k] \in Headers
  BY <1>2, ListInPlaces DEF Places
<1>4. ASSUME k # 0
      PROVE  k - 1 \in DOMAIN Nth /\ Nth[k - 1] \in Headers
  <2>1. k \in 1 .. Cardinality(Cells) /\ k - 1 \in 0 .. Cardinality(Cells)
    BY <1>1, <1>4
  <2>2. k - 1 \in DOMAIN Nth /\ Nth[k - 1] # None
    BY <1>2, <2>1, ListIs, CellsAreFinite DEF After
  <2> QED
    BY <2>2, ListInPlaces DEF Places
<1> QED
  BY <1>1, <1>3, <1>4, ListIs DEF Headers

LEMMA PlacesAreCells == Headers \subseteq Cells /\ None \in Places /\ Headers \subseteq Places
  BY DEF Headers, Places

LEMMA FromListKeepsTyped ==
  ASSUME PoolTyped, NEW n, Alloc_FromList(n)
  PROVE  PoolTyped'
<1>1. PICK k \in DOMAIN Nth :
        /\ IsFirstFit(k, Rounded(n))
        /\ IF k = 0
           THEN list' = hdr[list].next /\ hdr' = hdr
           ELSE hdr' = [hdr EXCEPT ![Nth[k - 1]].next = hdr[Nth[k]].next] /\ list' = list
        /\ Gives(Nth[k])
  BY DEF Alloc_FromList
<1>2. top' = top
  BY DEF Alloc_FromList
<1>3. PICK b : b = Nth[k]
  OBVIOUS
<1>4. PICK p : p = Nth[k - 1]
  OBVIOUS
<1>5. b \in Headers /\ b \in Cells /\ (k = 0 => b = list) /\ (k # 0 => p \in Cells)
  BY <1>1, <1>3, <1>4, FirstFitIs
<1>6. owned' = [owned EXCEPT ![b] = owned[b] + 1]
  BY <1>1, <1>3 DEF Gives
<1>7. owned' \in [Cells -> Nat] /\ \A c \in Cells : owned'[c] > 0 => c \in Headers
  BY <1>5, <1>6 DEF PoolTyped
<1>8. list' \in Places
  BY <1>1, <1>5 DEF PoolTyped
<1>9. hdr' \in [Cells -> [next : Places, size : Int]]
  <2>1. CASE k = 0
    BY <1>1, <2>1 DEF PoolTyped
  <2>2. CASE k # 0
    <3>1. hdr' = [hdr EXCEPT ![p] = [hdr[p] EXCEPT !.next = hdr[b].next]]
      BY <1>1, <1>3, <1>4, <2>2
    <3>2. [hdr[p] EXCEPT !.next = hdr[b].next] \in [next : Places, size : Int]
      BY <1>5, <2>2 DEF PoolTyped
    <3> QED
      BY <1>5, <2>2, <3>1, <3>2 DEF PoolTyped
  <2> QED
    BY <2>1, <2>2
<1> QED
  BY <1>2, <1>7, <1>8, <1>9 DEF PoolTyped

LEMMA FreshKeepsTyped ==
  ASSUME PoolTyped, NEW n \in Nat, Alloc_Fresh(n), ~ (Rounded(n) + Header >= SizeMod)
  PROVE  PoolTyped'
<1>1. /\ Room(n) /\ hdr' = [hdr EXCEPT ![top] = [next |-> None, size |-> Rounded(n)]]
      /\ top' = top + Sum(Rounded(n), Header) /\ list' = list
      /\ owned' = [owned EXCEPT ![top] = owned[top] + 1]
  BY DEF Alloc_Fresh, Gives
<1>2. top \in Cells /\ top \in Headers /\ top' \in Cells
  BY <1>1, FreshFits DEF PoolTyped
<1>3. [next |-> None, size |-> Rounded(n)] \in [next : Places, size : Int]
  BY SizesAreRounded, PlacesAreCells
<1>4. hdr' \in [Cells -> [next : Places, size : Int]]
  BY <1>1, <1>2, <1>3 DEF PoolTyped
<1>5. owned' \in [Cells -> Nat] /\ \A c \in Cells : owned'[c] > 0 => c \in Headers
  BY <1>1, <1>2 DEF PoolTyped
<1> QED
  BY <1>1, <1>2, <1>4, <1>5 DEF PoolTyped

LEMMA AcceptedIs ==
  ASSUME NEW b \in Cells, IsAccepted(b)
  PROVE  b \in Headers
  BY HeapAssumed DEF IsAccepted, Headers, Cells

LEMMA PushKeepsTyped ==
  ASSUME PoolTyped, NEW b \in Headers, NEW size \in Int, Pushes(b, size)
  PROVE  list' \in Places /\ hdr' \in [Cells -> [next : Places, size : Int]]
<1>1. [next |-> list, size |-> size] \in [next : Places, size : Int] /\ b \in Cells
  BY PlacesAreCells DEF PoolTyped
<1> QED
  BY <1>1, PlacesAreCells DEF Pushes, PoolTyped

LEMMA FreeKeepsTyped ==
  ASSUME PoolTyped, NEW b \in Cells, Free(b)
  PROVE  PoolTyped'
<1>1. b \in Headers /\ hdr[b].size \in Int
  BY AcceptedIs DEF Free, PoolTyped
<1>2. list' \in Places /\ hdr' \in [Cells -> [next : Places, size : Int]]
  BY <1>1, PushKeepsTyped DEF Free
<1>3. owned' = [owned EXCEPT ![b] = IF owned[b] > 0 THEN owned[b] - 1 ELSE 0] /\ top' = top
  BY DEF Free
<1>4. owned' \in [Cells -> Nat] /\ \A c \in Cells : owned'[c] > 0 => c \in Headers
  BY <1>1, <1>3 DEF PoolTyped
<1> QED
  BY <1>2, <1>3, <1>4 DEF PoolTyped

\* Headers that keep their sizes stay where they are.
LEMMA LaidStays ==
  ASSUME Laid, UNCHANGED <<top, astray>>, \A b \in Cells : hdr'[b].size = hdr[b].size,
         \A b \in Cells : owned'[b] > 0 => b \in WasHeader
  PROVE  Laid'
<1>1. WasHeader' = WasHeader /\ WasHeader \subseteq Cells
  BY DEF WasHeader
<1>2. \A b \in WasHeader : End(b)' = End(b)
  BY <1>1 DEF End
<1> QED
  BY <1>1, <1>2 DEF Laid

LEMMA FromListKeepsLaid ==
  ASSUME PoolTyped, Laid, NEW n \in Nat, Alloc_FromList(n)
  PROVE  Laid'
<1>1. PICK k \in DOMAIN Nth :
        /\ IsFirstFit(k, Rounded(n))
        /\ IF k = 0
           THEN list' = hdr[list].next /\ hdr' = hdr
           ELSE hdr' = [hdr EXCEPT ![Nth[k - 1]].next = hdr[Nth[k]].next] /\ list' = list
        /\ Gives(Nth[k])
  BY DEF Alloc_FromList
<1>2. PICK b : b = Nth[k]
  OBVIOUS
<1>3. PICK p : p = Nth[k - 1]
  OBVIOUS
<1>4. b \in Cells /\ (k # 0 => p \in Cells)
  BY <1>1, <1>2, <1>3, FirstFitIs
<1>5. b \in WasHeader
  <2>1. Rounded(n) \in Nat /\ hdr[b].size \in Int /\ hdr[b].size >= Rounded(n)
    BY <1>1, <1>2, <1>4, SizesAreRounded DEF IsFirstFit, Fits, PoolTyped
  <2> QED
    BY <1>4, <2>1 DEF WasHeader, None
<1>6. \A c \in Cells : owned'[c] > 0 => c \in WasHeader
  <2>1. owned' = [owned EXCEPT ![b] = owned[b] + 1]
    BY <1>1, <1>2 DEF Gives
  <2> QED
    BY <1>4, <1>5, <2>1 DEF PoolTyped, Laid
<1>7. \A c \in Cells : hdr'[c].size = hdr[c].size
  <2>1. CASE k = 0
    BY <1>1, <2>1
  <2>2. CASE k # 0
    <3>1. hdr' = [hdr EXCEPT ![p] = [hdr[p] EXCEPT !.next = hdr[b].next]]
      BY <1>1, <1>2, <1>3, <2>2
    <3>2. [hdr[p] EXCEPT !.next = hdr[b].next].size = hdr[p].size
      BY <1>4, <2>2 DEF PoolTyped
    <3> QED
      BY <1>4, <2>2, <3>1, <3>2 DEF PoolTyped
  <2> QED
    BY <2>1, <2>2
<1>8. UNCHANGED <<top, astray>>
  BY DEF Alloc_FromList
<1> QED
  BY <1>6, <1>7, <1>8, LaidStays

\* A fresh header lies after all that ever were.
LEMMA FreshKeepsLaid ==
  ASSUME PoolTyped, Laid, NEW n \in Nat, Alloc_Fresh(n), ~ (Rounded(n) + Header >= SizeMod)
  PROVE  Laid'
<1>1. PICK r : r = Rounded(n)
  OBVIOUS
<1>2. PICK t : t = top
  OBVIOUS
<1>3. /\ r \in Nat /\ t \in Cells /\ t \in Nat /\ Header \in Nat \ {0} /\ ArgSize \in Nat
      /\ ArgSize <= t
  BY <1>1, <1>2, SizesAreRounded, HeapAssumed, CellsAreFinite DEF Laid, PoolTyped
<1>4. /\ hdr' = [hdr EXCEPT ![t] = [next |-> None, size |-> r]]
      /\ top' = t + (r + Header) /\ astray' = astray
      /\ owned' = [owned EXCEPT ![t] = owned[t] + 1]
  BY <1>1, <1>2, FreshFits DEF Alloc_Fresh, Gives, PoolTyped
<1>5. PICK W : W = WasHeader
  OBVIOUS
<1>6. \A b \in W : /\ b \in Cells /\ b \in Nat /\ ArgSize <= b /\ hdr[b].size \in Nat
                   /\ b + Header + hdr[b].size <= t /\ b < t
  <2> SUFFICES ASSUME NEW b \in W
               PROVE  /\ b \in Cells /\ b \in Nat /\ ArgSize <= b /\ hdr[b].size \in Nat
                      /\ b + Header + hdr[b].size <= t /\ b < t
    OBVIOUS
  <2>1. b \in Cells /\ b \in Nat
    BY <1>5, CellsAreFinite DEF WasHeader
  <2>2. ArgSize <= b /\ hdr[b].size \in Nat /\ b + Header + hdr[b].size <= t
    BY <1>2, <1>5 DEF Laid, End
  <2> QED
    BY <1>3, <2>1, <2>2
<1>7. hdr'[t].size = r /\ \A c \in Cells \ {t} : hdr'[c] = hdr[c] /\ owned'[c] = owned[c]
  BY <1>3, <1>4 DEF PoolTyped
<1>8. WasHeader' = W \cup {t}
  <2>1. r # None
    BY <1>3 DEF None
  <2>2. \A c \in Cells : hdr'[c].size # None <=> c = t \/ hdr[c].size # None
    <3> SUFFICES ASSUME NEW c \in Cells
                 PROVE  hdr'[c].size # None <=> c = t \/ hdr[c].size # None
      OBVIOUS
    <3>1. CASE c = t
      BY <1>7, <2>1, <3>1
    <3>2. CASE c # t
      BY <1>7, <3>2
    <3> QED
      BY <3>1, <3>2
  <2> QED
    BY <1>3, <1>5, <2>2 DEF WasHeader
<1>9. \A b \in W : End(b)' = b + Header + hdr[b].size
  <2>1. \A b \in W : b \in Cells \ {t}
    BY <1>3, <1>6
  <2> QED
    BY <1>7, <2>1 DEF End
<1>10. End(t)' = top'
  BY <1>3, <1>4, <1>7 DEF End
<1>11. ArgSize <= top' /\ t <= top'
  BY <1>3, <1>4
<1>12. \A b \in W \cup {t} : ArgSize <= b /\ hdr'[b].size \in Nat /\ End(b)' <= top'
  <2>1. \A b \in W : ArgSize <= b /\ hdr'[b].size \in Nat
    BY <1>3, <1>6, <1>7
  <2>2. \A b \in W : End(b)' <= top'
    BY <1>3, <1>4, <1>6, <1>9
  <2>3. hdr'[t].size \in Nat /\ End(t)' <= top'
    BY <1>3, <1>4, <1>7, <1>10
  <2> QED
    BY <1>3, <2>1, <2>2, <2>3
<1>13. \A b, c \in W \cup {t} : b < c => End(b)' <= c
  <2> SUFFICES ASSUME NEW b \in W \cup {t}, NEW c \in W \cup {t}, b < c
               PROVE  End(b)' <= c
    OBVIOUS
  <2>1. b \in W
    BY <1>3, <1>6
  <2>2. CASE c = t
    BY <1>6, <1>9, <2>1, <2>2
  <2>3. CASE c # t
    <3>1. c \in W /\ End(b) <= c
      BY <1>5, <2>1, <2>3 DEF Laid
    <3> QED
      BY <1>9, <2>1, <3>1 DEF End
  <2> QED
    BY <2>2, <2>3
<1>14. \A c \in Cells : owned'[c] > 0 => c \in W \cup {t}
  BY <1>5, <1>7 DEF Laid
<1> QED
  BY <1>4, <1>8, <1>11, <1>12, <1>13, <1>14 DEF Laid

LEMMA FreeKeepsLaid ==
  ASSUME PoolTyped, Laid, NEW b \in Cells, Free(b)
  PROVE  Laid'
<1>1. /\ hdr' = [hdr EXCEPT ![b] = [next |-> list, size |-> hdr[b].size]]
      /\ owned' = [owned EXCEPT ![b] = IF owned[b] > 0 THEN owned[b] - 1 ELSE 0]
      /\ UNCHANGED <<top, astray>> /\ b \in WasHeader
  BY DEF Free, Pushes
<1>2. \A c \in Cells : hdr'[c].size = hdr[c].size
  BY <1>1 DEF PoolTyped
<1>3. \A c \in Cells : owned'[c] > 0 => c \in WasHeader
  BY <1>1 DEF PoolTyped, Laid
<1> QED
  BY <1>1, <1>2, <1>3, LaidStays

LEMMA FreshKeepsTidy ==
  ASSUME PoolTyped, Tidy, NEW n \in Nat, Alloc_Fresh(n), ~ (Rounded(n) + Header >= SizeMod)
  PROVE  Tidy'
<1>1. PICK r : r = Rounded(n)
  OBVIOUS
<1>2. PICK t : t = top
  OBVIOUS
<1>3. r \in Nat /\ t \in Headers /\ t \in Cells /\ t \in Nat /\ Header \in Nat \ {0}
  BY <1>1, <1>2, SizesAreRounded, FreshFits, HeapAssumed, CellsAreFinite DEF Alloc_Fresh, PoolTyped
<1>4. /\ hdr' = [hdr EXCEPT ![t] = [next |-> None, size |-> r]]
      /\ top' = t + (r + Header) /\ list' = list
      /\ owned' = [owned EXCEPT ![t] = owned[t] + 1]
  BY <1>1, <1>2, FreshFits DEF Alloc_Fresh, Gives, PoolTyped
<1>5. PICK m \in Nat : \E k \in [1 .. m -> Headers] :
        /\ Chains(k, m)
        /\ \A b \in Linked(k, m) : owned[b] = 0
        /\ Tiles(Linked(k, m) \cup Owned)
  BY DEF Tidy
<1>6. PICK l \in [1 .. m -> Headers] :
        /\ Chains(l, m)
        /\ \A b \in Linked(l, m) : owned[b] = 0
        /\ Tiles(Linked(l, m) \cup Owned)
  BY <1>5
<1>7. PICK B : B = Linked(l, m) \cup Owned
  OBVIOUS
<1>8. PICK h : h = hdr
  OBVIOUS
<1>9. \A b \in B : /\ b \in Cells /\ ArgSize <= b /\ h[b].size \in Nat /\ b \in Nat
                   /\ b + Header + h[b].size <= t
                   /\ b + Header + h[b].size = t \/ b + Header + h[b].size \in B
  BY <1>2, <1>6, <1>7, <1>8, CellsAreFinite DEF Tiles, End
<1>10. t \notin B /\ \A b \in B : b < t
  <2>1. \A b \in B : b < t
    <3> SUFFICES ASSUME NEW b \in B PROVE b < t
      OBVIOUS
    <3>1. b \in Nat /\ h[b].size \in Nat /\ b + Header + h[b].size <= t
      BY <1>9
    <3> QED
      BY <1>3, <3>1
  <2>2. ~ (t < t)
    BY <1>3
  <2> QED
    BY <2>1, <2>2
<1>11. /\ \A c \in Cells \ {t} : hdr'[c] = h[c] /\ owned'[c] = owned[c]
       /\ hdr'[t].size = r /\ owned'[t] = owned[t] + 1
  BY <1>3, <1>4, <1>8 DEF PoolTyped
<1>12. owned[t] = 0
  BY <1>3, <1>7, <1>10 DEF Owned, PoolTyped
<1>13. Linked(l, m)' = Linked(l, m) /\ Owned' = Owned \cup {t}
  <2>1. Owned' = {b \in Cells : owned'[b] > 0} /\ Owned = {b \in Cells : owned[b] > 0}
    BY DEF Owned
  <2>2. \A b \in Cells : owned'[b] > 0 <=> b = t \/ owned[b] > 0
    <3>1. owned'[t] > 0
      BY <1>11, <1>12
    <3> QED
      BY <1>11, <3>1
  <2>3. Owned' = Owned \cup {t}
    BY <1>3, <2>1, <2>2
  <2> QED
    BY <2>3 DEF Linked
<1>14. \A b \in Cells : owned'[b] <= 1
  BY <1>11, <1>12 DEF Tidy
<1>15. \A i \in 1 .. m : l[i] \in Cells \ {t}
  BY <1>7, <1>9, <1>10 DEF Linked
<1>16. Chains(l, m)'
  BY <1>4, <1>6, <1>8, <1>11, <1>15 DEF Chains, FromList
<1>17. \A b \in Linked(l, m) : owned'[b] = 0
  BY <1>6, <1>11, <1>15 DEF Linked
<1>18. Tiles(B \cup {t})'
  <2> DEFINE Ends(b) == b + Header + hdr'[b].size
  <2>1. Ends(t) = t + (r + Header)
    BY <1>3, <1>11
  <2>2. \A b \in B : hdr'[b] = h[b] /\ Ends(b) = b + Header + h[b].size
    BY <1>9, <1>10, <1>11
  <2>3. \A b, c \in B : b < c => b + Header + h[b].size <= c
    BY <1>6, <1>7, <1>8 DEF Tiles, End
  <2>4. ArgSize = t \/ ArgSize \in B
    BY <1>2, <1>6, <1>7 DEF Tiles
  <2>5. ArgSize <= t
    <3>1. ArgSize \in Nat
      BY HeapAssumed
    <3> QED
      BY <1>3, <1>10, <2>4, <3>1
  <2>6. \A b \in B \cup {t} : /\ b \in Cells /\ ArgSize <= b /\ hdr'[b].size \in Nat
                              /\ Ends(b) <= top' /\ (Ends(b) = top' \/ Ends(b) \in B \cup {t})
    <3>1. \A b \in B : Ends(b) <= t /\ (Ends(b) = t \/ Ends(b) \in B) /\ Ends(b) \in Nat
      BY <1>3, <1>9, <2>2
    <3>2. \A b \in B : Ends(b) <= top' /\ Ends(b) \in B \cup {t}
      BY <1>3, <1>4, <3>1
    <3>3. Ends(t) <= top' /\ Ends(t) = top' /\ hdr'[t].size \in Nat
      BY <1>3, <1>4, <1>11, <2>1
    <3>4. \A b \in B : b \in Cells /\ ArgSize <= b /\ hdr'[b].size \in Nat
      BY <1>9, <2>2
    <3> QED
      BY <1>3, <2>5, <3>2, <3>3, <3>4
  <2>7. \A b, c \in B \cup {t} : b < c => Ends(b) <= c
    <3> SUFFICES ASSUME NEW b \in B \cup {t}, NEW c \in B \cup {t}, b < c
                 PROVE  Ends(b) <= c
      OBVIOUS
    <3>1. b \in B
      BY <1>3, <1>9, <1>10
    <3> QED
      BY <1>9, <2>2, <2>3, <3>1
  <2>8. ArgSize \in B \cup {t}
    BY <2>4
  <2> QED
    BY <2>6, <2>7, <2>8 DEF Tiles, End
<1>19. Linked(l, m)' \cup Owned' = B \cup {t}
  BY <1>7, <1>13
<1> QED
  BY <1>6, <1>13, <1>14, <1>16, <1>17, <1>18, <1>19 DEF Tidy

\* The block that is pushed is the new first of the chain.
LEMMA FreeKeepsTidy ==
  ASSUME PoolTyped, Tidy, NEW b \in Cells, Free(b), misused = 0, misused' = 0
  PROVE  Tidy'
<1>1. PICK h : h = hdr
  OBVIOUS
<1>2. /\ owned[b] # 0 /\ owned' = [owned EXCEPT ![b] = IF owned[b] > 0 THEN owned[b] - 1 ELSE 0]
      /\ hdr' = [hdr EXCEPT ![b] = [next |-> list, size |-> h[b].size]] /\ list' = b /\ top' = top
  BY <1>1 DEF Free, Pushes
<1>3. owned[b] = 1 /\ \A c \in Cells : owned[c] \in Nat
  BY <1>2 DEF PoolTyped, Tidy
<1>4. /\ owned'[b] = 0 /\ \A c \in Cells \ {b} : owned'[c] = owned[c]
  BY <1>2, <1>3 DEF PoolTyped
<1>5. /\ hdr'[b] = [next |-> list, size |-> h[b].size] /\ \A c \in Cells \ {b} : hdr'[c] = h[c]
  BY <1>1, <1>2 DEF PoolTyped
<1>6. hdr'[b].next = list /\ hdr'[b].size = h[b].size
  BY <1>5
<1>7. PICK m \in Nat : \E k \in [1 .. m -> Headers] :
        /\ Chains(k, m)
        /\ \A c \in Linked(k, m) : owned[c] = 0
        /\ Tiles(Linked(k, m) \cup Owned)
  BY DEF Tidy
<1>8. PICK l \in [1 .. m -> Headers] :
        /\ Chains(l, m)
        /\ \A c \in Linked(l, m) : owned[c] = 0
        /\ Tiles(Linked(l, m) \cup Owned)
  BY <1>7
<1>8a. PICK B : B = Linked(l, m) \cup Owned
  OBVIOUS
<1>9. b \notin Linked(l, m) /\ b \in Owned
  BY <1>3, <1>8 DEF Owned
<1> DEFINE g == [i \in 1 .. m + 1 |-> IF i = 1 THEN b ELSE l[i - 1]]
<1>10. /\ m + 1 \in Nat /\ g \in [1 .. m + 1 -> Headers] /\ g[1] = b
       /\ \A i \in 1 .. m : g[i + 1] = l[i] /\ i + 1 \in 1 .. m + 1
       /\ \A i \in 2 .. m + 1 : g[i] = l[i - 1] /\ i - 1 \in 1 .. m /\ l[i - 1] \in Linked(l, m)
  <2>1. b \in Headers
    BY <1>3 DEF PoolTyped
  <2>2. \A i \in 2 .. m + 1 : i - 1 \in 1 .. m /\ i # 1 /\ i \in 1 .. m + 1
    OBVIOUS
  <2>3. \A i \in 1 .. m + 1 : i = 1 \/ i \in 2 .. m + 1
    OBVIOUS
  <2>4. g \in [1 .. m + 1 -> Headers]
    BY <2>1, <2>2, <2>3
  <2>5. \A i \in 1 .. m : i + 1 \in 2 .. m + 1 /\ i + 1 - 1 = i
    OBVIOUS
  <2>6. \A i \in 2 .. m + 1 : g[i] = l[i - 1]
    BY <2>2
  <2>7. \A i \in 1 .. m : l[i] \in Linked(l, m)
    BY DEF Linked
  <2>8. g[1] = b
    OBVIOUS
  <2> HIDE DEF g
  <2> QED
    BY <2>2, <2>4, <2>5, <2>6, <2>7, <2>8
<1> HIDE DEF g
<1>11. Linked(g, m + 1) = Linked(l, m) \cup {b}
  <2>1. \A i \in 1 .. m + 1 : i = 1 \/ i \in 2 .. m + 1
    OBVIOUS
  <2>2. Linked(g, m + 1) \subseteq Linked(l, m) \cup {b}
    BY <1>10, <2>1 DEF Linked
  <2>3. \A i \in 1 .. m : l[i] \in Linked(g, m + 1)
    BY <1>10 DEF Linked
  <2>4. b \in Linked(g, m + 1)
    <3>1. 1 \in 1 .. m + 1
      OBVIOUS
    <3> QED
      BY <1>10, <3>1 DEF Linked
  <2> QED
    BY <2>2, <2>3, <2>4 DEF Linked
<1>12. Owned' = Owned \ {b}
  <2>1. Owned' = {c \in Cells : owned'[c] > 0} /\ Owned = {c \in Cells : owned[c] > 0}
    BY DEF Owned
  <2> QED
    BY <1>4, <2>1
<1>13. Linked(g, m + 1)' \cup Owned' = B
  <2>1. Linked(g, m + 1)' = Linked(g, m + 1)
    BY DEF Linked
  <2> QED
    BY <1>9, <1>11, <1>12, <1>8a, <2>1
<1>14. Chains(g, m + 1)'
  <2>1. \A i, j \in 1 .. m + 1 : g[i] = g[j] => i = j
    <3> SUFFICES ASSUME NEW i \in 1 .. m + 1, NEW j \in 1 .. m + 1, g[i] = g[j] PROVE i = j
      OBVIOUS
    <3>1. (i = 1 \/ i \in 2 .. m + 1) /\ (j = 1 \/ j \in 2 .. m + 1)
      OBVIOUS
    <3>2. CASE i = 1 \/ j = 1
      BY <1>9, <1>10, <3>1, <3>2
    <3>3. CASE i \in 2 .. m + 1 /\ j \in 2 .. m + 1
      <4>1. l[i - 1] = l[j - 1] /\ i - 1 \in 1 .. m /\ j - 1 \in 1 .. m
        BY <1>10, <3>3
      <4>2. i - 1 = j - 1
        BY <1>8, <4>1 DEF Chains
      <4> QED
        BY <4>2
    <3> QED
      BY <3>1, <3>2, <3>3
  <2>2. list' = FromList(g, m + 1, 1)
    BY <1>2, <1>10 DEF FromList
  <2>3. ASSUME NEW i \in 1 .. m + 1
        PROVE  hdr'[g[i]].next = FromList(g, m + 1, i + 1)
    <3>1. CASE i = 1
      <4>1. list = FromList(l, m, 1)
        BY <1>8 DEF Chains
      <4>2. hdr'[g[i]].next = list
        BY <1>6, <1>10, <3>1
      <4>3. CASE m = 0
        BY <3>1, <4>1, <4>2, <4>3 DEF FromList
      <4>4. CASE m # 0
        <5>1. 1 \in 1 .. m /\ ~ (1 > m) /\ ~ (2 > m + 1)
          BY <4>4
        <5>2. g[1 + 1] = l[1]
          BY <1>10, <5>1
        <5> QED
          BY <3>1, <4>1, <4>2, <5>1, <5>2 DEF FromList
      <4> QED
        BY <4>3, <4>4
    <3>2. CASE i # 1
      <4>1. i \in 2 .. m + 1
        BY <3>2
      <4>2. PICK j \in 1 .. m : j = i - 1 /\ g[i] = l[j] /\ l[j] \in Linked(l, m)
        BY <1>10, <4>1
      <4>3. l[j] \in Cells \ {b}
        BY <1>9, <4>2 DEF Headers
      <4>4. hdr'[g[i]].next = h[l[j]].next
        BY <1>5, <4>2, <4>3
      <4>5. h[l[j]].next = FromList(l, m, j + 1)
        BY <1>1, <1>8 DEF Chains
      <4>6. FromList(l, m, j + 1) = FromList(g, m + 1, i + 1)
        <5>1. CASE j + 1 > m
          <6>1. i + 1 > m + 1
            BY <4>2, <5>1
          <6> QED
            BY <5>1, <6>1 DEF FromList
        <5>2. CASE ~ (j + 1 > m)
          <6>1. i \in 1 .. m /\ j + 1 = i /\ ~ (i + 1 > m + 1)
            BY <4>2, <5>2
          <6>2. g[i + 1] = l[i]
            BY <1>10, <6>1
          <6> QED
            BY <5>2, <6>1, <6>2 DEF FromList
        <5> QED
          BY <5>1, <5>2
      <4> QED
        BY <4>4, <4>5, <4>6
    <3> QED
      BY <3>1, <3>2
  <2> QED
    BY <1>10, <2>1, <2>2, <2>3 DEF Chains, FromList
<1>15. \A c \in Linked(g, m + 1) : owned'[c] = 0
  <2>1. \A c \in Linked(l, m) : c \in Cells
    BY DEF Linked, Headers
  <2> QED
    BY <1>4, <1>8, <1>9, <1>11, <2>1
<1>16. \A c \in Cells : owned'[c] <= 1
  <2>1. \A c \in Cells : owned[c] <= 1
    BY DEF Tidy
  <2> QED
    BY <1>4, <2>1
<1>17. Tiles(B)'
  <2>1. Tiles(B) /\ B \subseteq Cells
    BY <1>8, <1>8a DEF Tiles
  <2>2. \A c \in B : hdr'[c].size = hdr[c].size
    BY <1>1, <1>5, <1>6, <2>1
  <2> QED
    BY <1>2, <2>1, <2>2, TilesStay
<1>18. Linked(g, m + 1)' = Linked(g, m + 1)
  BY DEF Linked
<1> QED
  BY <1>10, <1>13, <1>14, <1>15, <1>16, <1>17, <1>18 DEF Tidy

\* The chain without its k-th block, which has an owner now.
LEMMA FromListKeepsTidy ==
  ASSUME PoolTyped, Tidy, NEW n, Alloc_FromList(n)
  PROVE  Tidy'
<1>1. PICK q \in DOMAIN Nth :
        /\ IsFirstFit(q, Rounded(n))
        /\ IF q = 0
           THEN list' = hdr[list].next /\ hdr' = hdr
           ELSE hdr' = [hdr EXCEPT ![Nth[q - 1]].next = hdr[Nth[q]].next] /\ list' = list
        /\ Gives(Nth[q])
  BY DEF Alloc_FromList
<1>2. top' = top
  BY DEF Alloc_FromList
<1>3. PICK h : h = hdr
  OBVIOUS
<1>4. PICK m \in Nat : \E x \in [1 .. m -> Headers] :
        /\ Chains(x, m)
        /\ \A c \in Linked(x, m) : owned[c] = 0
        /\ Tiles(Linked(x, m) \cup Owned)
  BY DEF Tidy
<1>5. PICK l \in [1 .. m -> Headers] :
        /\ Chains(l, m)
        /\ \A c \in Linked(l, m) : owned[c] = 0
        /\ Tiles(Linked(l, m) \cup Owned)
  BY <1>4
<1>6. PICK B : B = Linked(l, m) \cup Owned
  OBVIOUS
<1>7. PICK b : b = Nth[q]
  OBVIOUS
<1>8. PICK k \in 1 .. m : k = q + 1 /\ b = l[k] /\ (q # 0 => Nth[q - 1] = l[k - 1] /\ k - 1 \in 1 .. m)
  <2>1. q \in Nat /\ b # None /\ b = FromList(l, m, q + 1)
    BY <1>1, <1>5, <1>7, FirstFitIs, ListIsChain, CellsAreFinite
  <2>2. q + 1 \in 1 .. m /\ b = l[q + 1]
    BY <2>1 DEF FromList
  <2>3. ASSUME q # 0
        PROVE  Nth[q - 1] = l[q] /\ q \in 1 .. m
    <3>1. q \in 1 .. m /\ ~ (q > m) /\ q - 1 + 1 = q
      BY <2>1, <2>2, <2>3
    <3>2. Nth[q - 1] = FromList(l, m, q - 1 + 1)
      BY <1>1, <1>5, <2>3, FirstFitIs, ListIsChain
    <3> QED
      BY <3>1, <3>2 DEF FromList
  <2> QED
    BY <2>1, <2>2, <2>3
<1>9. b \in Cells /\ b \in Headers /\ owned[b] = 0
  BY <1>5, <1>8 DEF Linked, Headers
<1>10. /\ owned'[b] = 1 /\ \A c \in Cells \ {b} : owned'[c] = owned[c]
  <2>1. owned' = [owned EXCEPT ![b] = owned[b] + 1]
    BY <1>1, <1>7 DEF Gives
  <2> QED
    BY <1>9, <2>1 DEF PoolTyped
\* What the step does to the headers, and to the head of the list.
<1>11. \A c \in Cells : hdr'[c].size = h[c].size
  <2>1. CASE q = 0
    BY <1>1, <1>3, <2>1
  <2>2. CASE q # 0
    <3>1. PICK p : p = l[k - 1]
      OBVIOUS
    <3>2. p \in Cells /\ hdr' = [hdr EXCEPT ![p] = [h[p] EXCEPT !.next = h[b].next]]
      BY <1>1, <1>3, <1>7, <1>8, <2>2, <3>1 DEF Headers
    <3>3. [h[p] EXCEPT !.next = h[b].next].size = h[p].size
      BY <1>3, <3>2 DEF PoolTyped
    <3> QED
      BY <1>3, <3>2, <3>3 DEF PoolTyped
  <2> QED
    BY <2>1, <2>2
<1>12. \A i \in 1 .. m : hdr'[l[i]].next = IF i = k - 1 THEN h[b].next ELSE h[l[i]].next
  <2>1. CASE q = 0
    BY <1>1, <1>3, <1>8, <2>1
  <2>2. CASE q # 0
    <3>1. PICK p : p = l[k - 1]
      OBVIOUS
    <3>2. p \in Cells /\ hdr' = [hdr EXCEPT ![p] = [h[p] EXCEPT !.next = h[b].next]]
      BY <1>1, <1>3, <1>7, <1>8, <2>2, <3>1 DEF Headers
    <3>3. [h[p] EXCEPT !.next = h[b].next].next = h[b].next
      BY <1>3, <3>2 DEF PoolTyped
    <3>4. hdr'[p].next = h[b].next /\ \A c \in Cells \ {p} : hdr'[c] = h[c]
      BY <1>3, <3>2, <3>3 DEF PoolTyped
    <3>5. \A i \in 1 .. m : l[i] \in Cells /\ (i # k - 1 => l[i] # p)
      BY <1>5, <1>8, <2>2, <3>1 DEF Chains, Headers
    <3> QED
      BY <3>1, <3>4, <3>5
  <2> QED
    BY <2>1, <2>2
<1>13. \A i \in 1 .. m : h[l[i]].next = FromList(l, m, i + 1)
  BY <1>3, <1>5 DEF Chains
<1>14. list' = IF k = 1 THEN FromList(l, m, 2) ELSE l[1]
  <2>1. list = l[1]
    BY <1>5, <1>8 DEF Chains, FromList
  <2>2. CASE q = 0
    BY <1>1, <1>3, <1>8, <1>13, <2>1, <2>2
  <2>3. CASE q # 0
    BY <1>1, <1>8, <2>1, <2>3
  <2> QED
    BY <2>2, <2>3
\* The chain that is left.
<1> DEFINE g == [i \in 1 .. m - 1 |-> IF i < k THEN l[i] ELSE l[i + 1]]
<1>15. /\ m - 1 \in Nat /\ g \in [1 .. m - 1 -> Headers]
       /\ \A i \in 1 .. m - 1 : /\ i \in 1 .. m /\ i + 1 \in 1 .. m
                                /\ i < k => g[i] = l[i]
                                /\ ~ (i < k) => g[i] = l[i + 1]
  <2>1. m - 1 \in Nat /\ \A i \in 1 .. m - 1 : i \in 1 .. m /\ i + 1 \in 1 .. m
    BY <1>8
  <2> QED
    BY <2>1
<1> HIDE DEF g
<1>16. Linked(g, m - 1) = Linked(l, m) \ {b}
  <2>1. \A i, j \in 1 .. m : l[i] = l[j] => i = j
    BY <1>5 DEF Chains
  <2>2. \A i \in 1 .. m - 1 : g[i] \in Linked(l, m) /\ g[i] # b
    <3> SUFFICES ASSUME NEW i \in 1 .. m - 1 PROVE g[i] \in Linked(l, m) /\ g[i] # b
      OBVIOUS
    <3>1. \E j \in 1 .. m : g[i] = l[j] /\ j # k
      BY <1>8, <1>15
    <3> QED
      BY <1>8, <2>1, <3>1 DEF Linked
  <2>3. \A j \in 1 .. m : j # k => \E i \in 1 .. m - 1 : g[i] = l[j]
    <3> SUFFICES ASSUME NEW j \in 1 .. m, j # k PROVE \E i \in 1 .. m - 1 : g[i] = l[j]
      OBVIOUS
    <3>1. CASE j < k
      <4>1. j \in 1 .. m - 1
        BY <1>8, <3>1
      <4> QED
        BY <1>15, <3>1, <4>1
    <3>2. CASE ~ (j < k)
      <4>1. j - 1 \in 1 .. m - 1 /\ ~ (j - 1 < k) /\ j - 1 + 1 = j
        BY <1>8, <3>2
      <4> QED
        BY <1>15, <4>1
    <3> QED
      BY <3>1, <3>2
  <2>4. \A j \in 1 .. m : l[j] # b => j # k
    BY <1>8
  <2> QED
    BY <2>2, <2>3, <2>4 DEF Linked
<1>17. Owned' = Owned \cup {b}
  <2>1. Owned' = {c \in Cells : owned'[c] > 0} /\ Owned = {c \in Cells : owned[c] > 0}
    BY DEF Owned
  <2>2. \A c \in Cells : owned'[c] > 0 <=> c = b \/ owned[c] > 0
    BY <1>10
  <2> QED
    BY <1>9, <2>1, <2>2
<1>18. Linked(g, m - 1)' = Linked(g, m - 1) /\ Linked(g, m - 1)' \cup Owned' = B
  <2>1. Linked(g, m - 1)' = Linked(g, m - 1)
    BY DEF Linked
  <2>2. b \in Linked(l, m)
    BY <1>8 DEF Linked
  <2> QED
    BY <1>6, <1>16, <1>17, <2>1, <2>2
<1>19. Chains(g, m - 1)'
  <2>1. \A i, j \in 1 .. m - 1 : g[i] = g[j] => i = j
    <3>1. \A i, j \in 1 .. m : l[i] = l[j] => i = j
      BY <1>5 DEF Chains
    <3> QED
      BY <1>8, <1>15, <3>1
  <2>2. list' = FromList(g, m - 1, 1)
    <3>1. CASE k = 1 /\ m = 1
      BY <1>14, <3>1 DEF FromList
    <3>2. CASE k = 1 /\ m # 1
      <4>1. 1 \in 1 .. m - 1 /\ ~ (1 < k) /\ ~ (2 > m) /\ ~ (1 > m - 1)
        BY <1>8, <3>2
      <4>2. g[1] = l[1 + 1]
        BY <1>15, <4>1
      <4> QED
        BY <1>14, <3>2, <4>1, <4>2 DEF FromList
    <3>3. CASE k # 1
      <4>1. 1 \in 1 .. m - 1 /\ 1 < k /\ ~ (1 > m - 1)
        BY <1>8, <3>3
      <4>2. g[1] = l[1]
        BY <1>15, <4>1
      <4> QED
        BY <1>14, <3>3, <4>1, <4>2 DEF FromList
    <3> QED
      BY <3>1, <3>2, <3>3
  <2>3. ASSUME NEW i \in 1 .. m - 1
        PROVE  hdr'[g[i]].next = FromList(g, m - 1, i + 1)
    <3>1. i \in 1 .. m /\ i + 1 \in 1 .. m /\ i + 1 + 1 = i + 2
      BY <1>15
    <3>2. CASE i < k - 1
      <4>1. i < k /\ i + 1 < k /\ i + 1 \in 1 .. m - 1 /\ ~ (i + 1 > m) /\ ~ (i + 1 > m - 1) /\ i # k - 1
        BY <1>8, <3>2
      <4>2. g[i] = l[i] /\ g[i + 1] = l[i + 1]
        BY <1>15, <4>1
      <4>3. hdr'[g[i]].next = FromList(l, m, i + 1)
        BY <1>12, <1>13, <3>1, <4>1, <4>2
      <4> QED
        BY <4>1, <4>2, <4>3 DEF FromList
    <3>3. CASE i = k - 1
      <4>1. i < k /\ g[i] = l[i]
        BY <1>15, <3>3
      <4>2. hdr'[g[i]].next = FromList(l, m, k + 1)
        BY <1>8, <1>12, <1>13, <3>1, <3>3, <4>1
      <4>3. FromList(g, m - 1, k) = FromList(l, m, k + 1)
        <5>1. CASE k = m
          BY <5>1 DEF FromList
        <5>2. CASE k # m
          <6>1. k \in 1 .. m - 1 /\ ~ (k > m - 1) /\ ~ (k + 1 > m) /\ ~ (k < k)
            BY <1>8, <5>2
          <6>2. g[k] = l[k + 1]
            BY <1>15, <6>1
          <6> QED
            BY <6>1, <6>2 DEF FromList
        <5> QED
          BY <5>1, <5>2
      <4> QED
        BY <3>3, <4>2, <4>3
    <3>4. CASE i > k - 1
      <4>1. ~ (i < k) /\ i + 1 # k - 1
        BY <1>8, <3>4
      <4>2. g[i] = l[i + 1]
        BY <1>15, <4>1
      <4>3. hdr'[g[i]].next = FromList(l, m, i + 2)
        BY <1>12, <1>13, <3>1, <4>1, <4>2
      <4>4. FromList(g, m - 1, i + 1) = FromList(l, m, i + 2)
        <5>1. CASE i + 1 > m - 1
          BY <1>4, <5>1 DEF FromList
        <5>2. CASE ~ (i + 1 > m - 1)
          <6>1. i + 1 \in 1 .. m - 1 /\ ~ (i + 2 > m) /\ ~ (i + 1 < k)
            BY <1>8, <3>4, <5>2
          <6>2. g[i + 1] = l[i + 2]
            BY <1>15, <3>1, <6>1
          <6> QED
            BY <5>2, <6>1, <6>2 DEF FromList
        <5> QED
          BY <5>1, <5>2
      <4> QED
        BY <4>3, <4>4
    <3> QED
      BY <1>8, <3>2, <3>3, <3>4
  <2> QED
    BY <1>15, <2>1, <2>2, <2>3 DEF Chains, FromList
<1>20. \A c \in Linked(g, m - 1) : owned'[c] = 0
  <2>1. \A c \in Linked(l, m) : c \in Cells
    BY DEF Linked, Headers
  <2> QED
    BY <1>5, <1>10, <1>16, <2>1
<1>21. \A c \in Cells : owned'[c] <= 1
  <2>1. \A c \in Cells : owned[c] <= 1
    BY DEF Tidy
  <2> QED
    BY <1>10, <2>1
<1>22. Tiles(B)'
  <2>1. Tiles(B) /\ B \subseteq Cells
    BY <1>5, <1>6 DEF Tiles
  <2>2. \A c \in B : hdr'[c].size = hdr[c].size
    BY <1>3, <1>11, <2>1
  <2> QED
    BY <1>2, <2>1, <2>2, TilesStay
<1> QED
  BY <1>15, <1>18, <1>19, <1>20, <1>21, <1>22 DEF Tidy

LEMMA AllocKeepsPool ==
  ASSUME PoolInv, ~ wrapped, NEW n \in Requests, Alloc_FromList(n) \/ Alloc_Fresh(n)
  PROVE  PoolInv'
<1>1. n \in Nat /\ Rounded(n) \in Nat
  BY HeapAssumed, SizesAreRounded
<1>2. /\ wrapped' = (wrapped \/ Rounded(n) < n \/ Rounded(n) + Header >= SizeMod)
      /\ misused' = misused /\ loose' = loose
  BY DEF Alloc_FromList, Alloc_Fresh, Wraps
<1>3. wrapped' \in BOOLEAN /\ misused' \in Nat /\ (misused' = 0 => loose' = {})
  BY <1>2 DEF PoolInv
<1>4. SUFFICES ASSUME ~ wrapped', loose' = {}
               PROVE  PoolTyped' /\ Laid' /\ (misused' = 0 => Tidy')
  BY <1>3 DEF PoolInv
<1>5. ~ (Rounded(n) + Header >= SizeMod)
  BY <1>2, <1>4
<1>6. PoolTyped /\ Laid /\ (misused = 0 => Tidy)
  BY <1>2, <1>4 DEF PoolInv
<1>7. CASE Alloc_FromList(n)
  BY <1>1, <1>2, <1>6, <1>7, FromListKeepsTyped, FromListKeepsLaid, FromListKeepsTidy
<1>8. CASE Alloc_Fresh(n)
  BY <1>1, <1>2, <1>5, <1>6, <1>8, FreshKeepsTyped, FreshKeepsLaid, FreshKeepsTidy
<1> QED
  BY <1>7, <1>8

\* As long as no foreign pointer was given back the search stays in the heap.
LEMMA AstrayKeepsPool ==
  ASSUME PoolInv, ~ wrapped, NEW n \in Requests, Alloc_Astray(n)
  PROVE  PoolInv'
<1>1. UNCHANGED <<wrapped, misused, loose>>
  BY DEF Alloc_Astray
<1>2. loose # {}
  <2> SUFFICES ASSUME loose = {} PROVE FALSE
    OBVIOUS
  <2>1. PoolTyped
    BY DEF PoolInv
  <2>2. PICK k \in DOMAIN Nth : Nth[k] = Elsewhere
    BY DEF Alloc_Astray, EndsAt
  <2>3. Elsewhere \in Places
    BY <2>1, <2>2, ListInPlaces
  <2>4. Cells \subseteq Nat
    BY CellsAreFinite
  <2> QED
    BY <2>3, <2>4 DEF Elsewhere, None, Places, Headers
<1> QED
  BY <1>1, <1>2 DEF PoolInv

LEMMA FreeKeepsPool ==
  ASSUME PoolInv, ~ wrapped, NEW b \in Cells, Free(b)
  PROVE  PoolInv'
<1>1. UNCHANGED <<wrapped, loose>> /\ misused' = IF owned[b] = 0 THEN misused + 1 ELSE misused
  BY DEF Free
<1>2. misused' \in Nat /\ (misused' = 0 => misused = 0)
  BY <1>1 DEF PoolInv
<1>3. SUFFICES ASSUME loose = {}
               PROVE  PoolTyped' /\ Laid' /\ (misused' = 0 => Tidy')
  BY <1>1, <1>2 DEF PoolInv
<1>4. PoolTyped /\ Laid /\ (misused = 0 => Tidy)
  BY <1>3 DEF PoolInv
<1> QED
  BY <1>2, <1>4, FreeKeepsTyped, FreeKeepsLaid, FreeKeepsTidy

\* Of what a foreign pointer does to the list nothing is promised.
LEMMA ForeignKeepsPool ==
  ASSUME PoolInv, NEW b \in Cells, Free_Foreign(b) \/ Rewrite(b)
  PROVE  PoolInv'
<1>1. wrapped' = wrapped /\ misused' = misused + 1
  BY DEF Free_Foreign, Rewrite
<1>2. loose' # {}
  <2>1. CASE Free_Foreign(b)
    <3>1. PICK size \in Garbage : loose' = loose \cup Covers(b, size)
      BY <2>1 DEF Free_Foreign
    <3>2. b \in Covers(b, size)
      <4>1. size \in Nat /\ Header \in Nat \ {0} /\ b \in Nat
        BY HeapAssumed, CellsAreFinite
      <4>2. b <= b /\ b < b + 2 * Header + size
        BY <4>1
      <4> QED
        BY <4>2 DEF Covers
    <3> QED
      BY <3>1, <3>2
  <2>2. CASE Rewrite(b)
    BY <2>2 DEF Rewrite
  <2> QED
    BY <2>1, <2>2
<1>3. misused' \in Nat /\ misused' # 0
  BY <1>1 DEF PoolInv
<1> QED
  BY <1>1, <1>2, <1>3 DEF PoolInv

LEMMA StutterKeepsPool == PoolInv /\ UNCHANGED heapVars => PoolInv'
<1> SUFFICES ASSUME PoolInv, UNCHANGED heapVars PROVE PoolInv'
  OBVIOUS
<1>1. UNCHANGED <<top, list, hdr, loose, owned, misused, wrapped, astray>>
  BY DEF heapVars
<1>2. (PoolTyped' <=> PoolTyped) /\ (Laid' <=> Laid)
  BY <1>1 DEF PoolTyped, Laid, WasHeader, End
<1>3. /\ \A l, n : Chains(l, n)' <=> Chains(l, n)
      /\ \A l, n : Linked(l, n)' = Linked(l, n)
      /\ \A B : Tiles(B)' <=> Tiles(B)
      /\ Owned' = Owned
  BY <1>1 DEF Chains, Linked, Tiles, End, Owned
<1>4. Tidy' <=> Tidy
  BY <1>1, <1>3 DEF Tidy
<1> QED
  BY <1>1, <1>2, <1>4 DEF PoolInv

(* As long as a module gives back no foreign pointer and asks for nothing   *)
(* that wraps, all that ever were headers lie apart in the pool and each    *)
(* block handed out is one of them, also after blocks were given back       *)
(* twice; and until one is, the list is a chain of different blocks that    *)
(* tiles the pool with the owned ones (host_api.c:702-711, 719-805).        *)
THEOREM PoolInvariant == HeapSpec => []PoolInv
<1>1. PoolInv /\ [HeapNext]_heapVars => PoolInv'
  <2>1. PoolInv /\ HeapNext => PoolInv'
    BY AllocKeepsPool, AstrayKeepsPool, FreeKeepsPool, ForeignKeepsPool, ResetKeepsPool DEF HeapNext
  <2> QED
    BY <2>1, StutterKeepsPool
<1> QED
  BY <1>1, HeapInitInv, PTL DEF HeapSpec

(* A module that gives back what is its own, once, loses no memory and gets *)
(* none twice, for any size of the heap and of the header and any requests  *)
(* that do not wrap (host_api.c:702-711, 719-752).                          *)
THEOREM PoolStaysTiled == HeapSpec => []PoolIsTiled
<1>1. PoolInv => PoolIsTiled
  <2> SUFFICES ASSUME PoolInv, misused = 0, ~ wrapped
               PROVE  /\ OnList \cap Owned = {} /\ \A b \in Owned : owned[b] = 1
                      /\ Nth[Cardinality(Cells)] = None
                      /\ \A b, c \in Blocks : b < c => End(b) <= c
                      /\ \A b \in Blocks : End(b) = top \/ End(b) \in Blocks
                      /\ ArgSize = top \/ ArgSize \in Blocks
                      /\ \A b \in Blocks : ArgSize <= b
                      /\ top <= HeapSize
    BY DEF PoolIsTiled
  <2>1. PoolTyped /\ Tidy
    BY DEF PoolInv
  <2>2. PICK n \in Nat : \E l \in [1 .. n -> Headers] :
          /\ Chains(l, n)
          /\ \A b \in Linked(l, n) : owned[b] = 0
          /\ Tiles(Linked(l, n) \cup Owned)
    BY <2>1 DEF Tidy
  <2>3. PICK l \in [1 .. n -> Headers] :
          /\ Chains(l, n)
          /\ \A b \in Linked(l, n) : owned[b] = 0
          /\ Tiles(Linked(l, n) \cup Owned)
    BY <2>2
  <2>4. PICK N \in Nat : N = Cardinality(Cells) /\ n <= N
    BY <2>3, ChainIsShort, CellsAreFinite
  <2>5. \A k \in 0 .. N : Nth[k] = FromList(l, n, k + 1)
    <3>1. DOMAIN Nth = 0 .. N
      BY <2>4, ListIs
    <3>2. Chains(l, n)
      BY <2>3
    <3>3. ASSUME NEW k \in DOMAIN Nth PROVE Nth[k] = FromList(l, n, k + 1)
      BY <3>2, ListIsChain
    <3> QED
      BY <3>1, <3>3
  <2>6. Nth[N] = None
    <3>1. N \in 0 .. N /\ N + 1 > n
      BY <2>4
    <3> QED
      BY <2>5, <3>1 DEF FromList
  <2>7. OnList = Linked(l, n)
    <3>1. DOMAIN Nth = 0 .. N
      BY <2>4, ListIs
    <3>2. ASSUME NEW k \in 0 .. N, Nth[k] # None
          PROVE  Nth[k] \in Linked(l, n)
      <4>1. k + 1 \in 1 .. n /\ Nth[k] = l[k + 1]
        BY <2>4, <2>5, <3>2 DEF FromList
      <4> QED
        BY <4>1 DEF Linked
    <3>3. ASSUME NEW i \in 1 .. n
          PROVE  \E k \in 0 .. N : Nth[k] = l[i] /\ l[i] # None
      <4>1. i - 1 \in 0 .. N /\ ~ (i > n) /\ i - 1 + 1 = i
        BY <2>4
      <4>2. l[i] # None
        BY CellsAreFinite DEF Headers
      <4> QED
        BY <2>5, <4>1, <4>2 DEF FromList
    <3> QED
      BY <3>1, <3>2, <3>3 DEF OnList, Linked
  <2>8. Blocks = Linked(l, n) \cup Owned /\ Tiles(Blocks)
    BY <2>3, <2>7 DEF Blocks
  <2>9. \A b \in Owned : owned[b] = 1
    <3>1. \A b \in Cells : owned[b] \in Nat /\ owned[b] <= 1
      BY <2>1 DEF PoolTyped, Tidy
    <3> QED
      BY <3>1 DEF Owned
  <2>10. OnList \cap Owned = {}
    BY <2>3, <2>7 DEF Owned
  <2>11. top <= HeapSize
    BY <2>1, CellsAreFinite DEF PoolTyped
  <2> QED
    BY <2>4, <2>6, <2>8, <2>9, <2>10, <2>11 DEF Tiles
<1> QED
  BY <1>1, PoolInvariant, PTL

(* A block given back twice leaves every block that the module is handed    *)
(* out in the pool, with no other header in it, for any size of the heap    *)
(* and any requests that do not wrap (host_api.c:770-776).                  *)
THEOREM DamageStaysContained == HeapSpec => []DamageIsContained
<1>1. PoolInv => DamageIsContained
  <2> SUFFICES ASSUME PoolInv, loose = {}, ~ wrapped
               PROVE  /\ ~ astray
                      /\ \A b \in Owned : ArgSize <= b /\ End(b) <= top
                      /\ \A b \in Owned, c \in WasHeader : b < c => End(b) <= c
                      /\ top <= HeapSize
    BY DEF DamageIsContained
  <2>1. PoolTyped /\ Laid
    BY DEF PoolInv
  <2>2. Owned \subseteq WasHeader
    BY <2>1 DEF Laid, Owned
  <2>3. top <= HeapSize
    BY <2>1, CellsAreFinite DEF PoolTyped
  <2> QED
    BY <2>1, <2>2, <2>3 DEF Laid
<1> QED
  BY <1>1, PoolInvariant, PTL
==============================================================================
