---------------------------- MODULE DevicesProofs ----------------------------
(***************************************************************************)
(* The devices follow the claims, for any slots, devices, pins and images. *)
(* The second half is about the receive rings: their bytes keep the order  *)
(* they came in, whatever the interrupt comes between.                     *)
(***************************************************************************)
EXTENDS Devices, SequenceTheorems, WellFoundedInduction, TLAPS

-----------------------------------------------------------------------------
(* The inductive invariant *)

Kinds == {"idle", "claim", "irq", "open", "release", "close", "shell, to release"}

Claiming  == sup.at \in {"claim", "irq", "open"}
Releasing == sup.at \in {"release", "close"}
Shelling  == sup.at = "shell, to release"

\* What a call of each kind is at, and the device it is for.
UartSteps == {"read", "copied", "loop", "tail", "head"}
BusSteps  == {"i2c", "recover", "spi"}
CallOf(c) ==
  \/ c = NoCall
  \/ c.at \in UartSteps /\ c.dev \in Uarts
  \/ c.at \in {"i2c", "recover"} /\ c.dev \in I2cs
  \/ c.at = "spi" /\ c.dev \in Spis
  \/ c.at \in Steps \cup {"select"} /\ c.dev \in Adcs

SlotsTyped ==
  /\ catalog \in Catalogs
  /\ res \in [Slots -> Seq(Devs)] /\ alive \in [Slots -> BOOLEAN]
  /\ DOMAIN call = Slots
  /\ \A s \in Slots : /\ call[s] = [at |-> call[s].at, dev |-> call[s].dev, left |-> call[s].left, mixed |-> call[s].mixed]
                      /\ CallOf(call[s])
  /\ sup = [at |-> sup.at, slot |-> sup.slot, i |-> sup.i, next |-> sup.next]
  /\ sup.at \in Kinds /\ sup.next \in Seq(Devs)
  /\ Claiming \/ Releasing => sup.slot \in Slots /\ sup.i \in 1 .. Len(res[sup.slot]) + 1

DriversTyped ==
  /\ bopen \in [Buses -> BOOLEAN] /\ DOMAIN wire = Buses /\ DOMAIN spi = Spis
  /\ \A b \in Spis : spi[b] = [mode |-> spi[b].mode, hz |-> spi[b].hz, asked |-> spi[b].asked, by |-> spi[b].by]
  /\ uopen \in [Uarts -> BOOLEAN] /\ irq \in [Periphs -> BOOLEAN]
  /\ claimed \in [Adcs -> BOOLEAN] /\ up \in BOOLEAN /\ done \in BOOLEAN
  /\ conf \in [Pins -> Devs \cup {Default}]

\* No two declarations are for one pin, also not when the image that waits for
\* its slot takes the place of the one that is being released.
Apart(claims, others) ==
  \A i \in DOMAIN claims, j \in DOMAIN others : PinsOf[claims[i]] \cap PinsOf[others[j]] = {}

Fits(claims) ==
  /\ \A i \in DOMAIN claims : PinsOf[claims[i]] # {}
  /\ \A i, j \in DOMAIN claims : i # j => PinsOf[claims[i]] \cap PinsOf[claims[j]] = {}

ClaimsApart ==
  /\ \A s \in Slots : Fits(res[s])
  /\ \A s, t \in Slots : s # t => Apart(res[s], res[t])
  /\ Releasing => Fits(sup.next) /\ \A t \in Slots \ {sup.slot} : Apart(sup.next, res[t])

\* The supervisor has been at declaration j of slot s, or need not go there.
Reached(s, j) ==
  /\ Claiming /\ s = sup.slot => j < sup.i
  /\ Releasing /\ s = sup.slot => j >= sup.i

HeldOpen(d) ==
  \/ \E s \in Slots : \E j \in DOMAIN res[s] : res[s][j] = d /\ Reached(s, j)
  \/ Shelling /\ d = sup.slot

OpenIsHeld == \A d \in Devs \ Gpios : Open(d) => HeldOpen(d)

HeldIsOpen ==
  \A s \in Slots : \A j \in DOMAIN res[s] :
    res[s][j] \notin Gpios /\ Reached(s, j) =>
      Open(res[s][j]) \/ \E v \in Uarts \ {res[s][j]} : PeriphOf[v] = PeriphOf[res[s][j]]

\* What the supervisor is doing to a device.
JobAgrees ==
  /\ sup.at \in {"irq", "open"} => AtDev(sup.at) /\ Dev \in Uarts /\ ~ UartClaimRefuses(Dev)
  /\ sup.at = "close" => AtDev("close") /\ Dev \in Uarts /\ uopen[Dev] /\ ~ irq[PeriphOf[Dev]]
  /\ Shelling => sup.slot \in I2cs /\ ShellBusFree(sup.slot) /\ bopen[sup.slot]

OneMapping ==
  /\ \A u, v \in Uarts : uopen[u] /\ uopen[v] /\ PeriphOf[u] = PeriphOf[v] => u = v
  /\ up <=> \E c \in Adcs : claimed[c]

OpensAgree == OpenIsHeld /\ HeldIsOpen /\ JobAgrees /\ OneMapping

\* A line is enabled for an open instance, or for the one that is being opened.
LinesAgree ==
  \A p \in LooksUp \cap Periphs : irq[p] =>
    \/ \E u \in Uarts : PeriphOf[u] = p /\ uopen[u]
    \/ sup.at = "open" /\ PeriphOf[Dev] = p

CallsAgree ==
  /\ Releasing => ~ alive[sup.slot]
  /\ \A s \in Slots : call[s] # NoCall => alive[s] /\ Declared(s, call[s].dev) /\ Open(call[s].dev)

ConfAgrees ==
  \A pin \in Pins :
    /\ \A d \in Devs \ Gpios : Open(d) /\ pin \in PinsOf[d] => conf[pin] = d
    /\ sup.at \in {"irq", "open"} /\ pin \in PinsOf[Dev] => conf[pin] = Dev
    /\ conf[pin] \in Spis \cup Adcs => Open(conf[pin]) /\ pin \in PinsOf[conf[pin]]
    /\ conf[pin] \in Gpios => /\ pin \in PinsOf[conf[pin]]
                              /\ \E s \in Slots : Declared(s, conf[pin])

\* The lines of a bus are idle but for a transfer, or one that broke off in the
\* slot that is being released.
Waits(b) == Releasing /\ \E j \in DOMAIN res[sup.slot] : res[sup.slot][j] = b /\ j >= sup.i

WireAgrees(b) ==
  /\ wire[b] \in {"idle", "busy", "wedged"}
  /\ wire[b] # "idle" =>
       /\ bopen[b]
       /\ \/ \E s \in Slots : call[s].dev = b
          \/ Shelling /\ sup.slot = b
          \/ Waits(b)

WiresAgree == \A b \in Buses : WireAgrees(b)

\* A conversion that none overlapped is the only one.
ConversionsAgree ==
  /\ wrong = {}
  /\ \A s \in Slots : Converting(s) /\ ~ call[s].mixed =>
       /\ sel = Channel(s)
       /\ \A t \in Slots \ {s} : ~ Converting(t)
       /\ call[s].at = "clear" => running = NoDev
       /\ call[s].at = "trigger" => running = NoDev /\ ~ done
       /\ call[s].at = "wait" => \/ running = Channel(s) /\ ~ done
                                 \/ running = NoDev /\ done /\ value = Channel(s)
       /\ call[s].at \in {"stop", "data"} => running = NoDev /\ done /\ value = Channel(s)

IInv == /\ SlotsTyped /\ DriversTyped /\ ClaimsApart /\ OpensAgree /\ LinesAgree /\ CallsAgree
        /\ ConfAgrees /\ WiresAgree /\ SpiIsAsItsOwnerSetIt /\ ConversionsAgree

-----------------------------------------------------------------------------
(* What the constants are, and who holds what. *)

LEMMA KindsAreApart ==
  /\ NoDev \notin Devs /\ NoDev \notin Slots /\ Default \notin Devs
  /\ Devs = Uarts \cup I2cs \cup Spis \cup Adcs \cup Gpios
  /\ Buses = I2cs \cup Spis
  /\ \A d \in Uarts : d \notin I2cs /\ d \notin Spis /\ d \notin Adcs /\ d \notin Gpios
  /\ \A d \in I2cs : d \notin Spis /\ d \notin Adcs /\ d \notin Gpios
  /\ \A d \in Spis : d \notin Adcs /\ d \notin Gpios
  /\ \A d \in Adcs : d \notin Gpios
  /\ \A b \in I2cs : \A d \in Devs \ {b} : PinsOf[b] \cap PinsOf[d] = {}
  BY DevicesAssumption, CatalogAssumption DEF Devs, Buses

LEMMA CallKinds ==
  ASSUME NEW c, CallOf(c)
  PROVE  /\ c.at \in UartSteps => c.dev \in Uarts
         /\ c.at \in {"i2c", "recover"} => c.dev \in I2cs
         /\ c.at = "spi" => c.dev \in Spis
         /\ c.at \in Steps \cup {"select"} => c.dev \in Adcs
         /\ c.dev \in Uarts => c.at \in UartSteps
         /\ c.dev \in Adcs => c.at \in Steps \cup {"select"}
         /\ c.dev \in Buses => c.at \in BusSteps
         /\ c = NoCall <=> c.at = "none"
         /\ c = NoCall <=> c.dev = NoDev
  BY KindsAreApart DEF CallOf, NoCall, UartSteps, BusSteps, Steps

\* Two declarations with a pin in common are one.
LEMMA OneDeclaration ==
  ASSUME ClaimsApart, NEW s \in Slots, NEW t \in Slots, NEW i \in DOMAIN res[s], NEW j \in DOMAIN res[t],
         PinsOf[res[s][i]] \cap PinsOf[res[t][j]] # {}
  PROVE  s = t /\ i = j
<1>1. s = t
  BY DEF ClaimsApart, Apart
<1> QED
  BY <1>1 DEF ClaimsApart, Fits

LEMMA OneHolder ==
  ASSUME ClaimsApart, NEW s \in Slots, NEW t \in Slots, NEW i \in DOMAIN res[s], NEW j \in DOMAIN res[t],
         res[s][i] = res[t][j]
  PROVE  s = t /\ i = j
<1>1. PinsOf[res[s][i]] # {}
  BY DEF ClaimsApart, Fits
<1> QED
  BY <1>1, OneDeclaration

LEMMA OneSlotDeclares ==
  ASSUME ClaimsApart, NEW s \in Slots, NEW t \in Slots, NEW d, Declared(s, d), Declared(t, d)
  PROVE  s = t
  BY OneHolder DEF Declared

LEMMA DeclaredIsDev ==
  ASSUME SlotsTyped, NEW s \in Slots
  PROVE  /\ res[s] \in Seq(Devs) /\ DOMAIN res[s] = 1 .. Len(res[s]) /\ Len(res[s]) \in Nat
         /\ \A j \in DOMAIN res[s] : res[s][j] \in Devs /\ Declared(s, res[s][j])
         /\ \A d : Declared(s, d) => d \in Devs
  BY LenProperties, ElementOfSeq DEF SlotsTyped, Declared

\* An open device has its pins to itself.
LEMMA OpenPins ==
  ASSUME SlotsTyped, ClaimsApart, OpensAgree, NEW d \in Devs \ Gpios, Open(d), NEW s \in Slots, NEW e,
         Declared(s, e), e # d
  PROVE  PinsOf[d] \cap PinsOf[e] = {}
<1>1. CASE Shelling /\ d = sup.slot
  BY <1>1, KindsAreApart, DeclaredIsDev DEF OpensAgree, JobAgrees
<1>2. CASE \E t \in Slots : \E j \in DOMAIN res[t] : res[t][j] = d
  BY <1>2, OneDeclaration DEF Declared
<1> QED
  BY <1>1, <1>2 DEF OpensAgree, OpenIsHeld, HeldOpen

-----------------------------------------------------------------------------
(* The steps of the modules. *)

\* What a step of a call may do to the calls: end them, go on with the same
\* device, or begin with a device that is declared and open.
CallsMove ==
  /\ DOMAIN call' = Slots
  /\ \A t \in Slots :
       /\ call'[t] = [at |-> call'[t].at, dev |-> call'[t].dev, left |-> call'[t].left,
                      mixed |-> call'[t].mixed]
       /\ CallOf(call'[t])
       /\ call'[t] # NoCall =>
            \/ call[t] # NoCall /\ call'[t].dev = call[t].dev
            \/ alive[t] /\ Declared(t, call'[t].dev) /\ Open(call'[t].dev)

SlotsStay == UNCHANGED <<res, alive, catalog, sup, bopen, uopen, claimed, up>>

LEMMA CallsKeepSlots ==
  ASSUME IInv, CallsMove, SlotsStay, UNCHANGED irq
  PROVE  SlotsTyped' /\ ClaimsApart' /\ OpensAgree' /\ LinesAgree' /\ CallsAgree'
<1>1. /\ UNCHANGED <<res, alive, catalog, sup, bopen, uopen, claimed, up, irq>>
      /\ SlotsTyped /\ ClaimsApart /\ OpensAgree /\ LinesAgree /\ CallsAgree
  BY DEF SlotsStay, IInv
<1>2. SlotsTyped'
  BY <1>1 DEF SlotsTyped, CallsMove, Claiming, Releasing
<1>3. ClaimsApart'
  BY <1>1 DEF ClaimsApart, Releasing
<1>4. OpensAgree'
  <2>1. /\ \A d : Open(d)' <=> Open(d)
        /\ \A d : HeldOpen(d)' <=> HeldOpen(d)
        /\ \A s, j : Reached(s, j)' <=> Reached(s, j)
    BY <1>1 DEF Open, HeldOpen, Reached, Claiming, Releasing, Shelling
  <2>2. /\ AtDev(sup.at)' <=> AtDev(sup.at)
        /\ AtDev("close")' <=> AtDev("close")
        /\ Dev' = Dev /\ (UartClaimRefuses(Dev)' <=> UartClaimRefuses(Dev))
        /\ ShellBusFree(sup.slot)' <=> ShellBusFree(sup.slot)
    BY <1>1 DEF AtDev, Dev, UartClaimRefuses, OtherMappingOpen, ShellBusFree, Declared
  <2>3. OpenIsHeld' /\ OneMapping'
    BY <1>1, <2>1 DEF OpensAgree, OpenIsHeld, OneMapping
  <2>4. HeldIsOpen'
    <3> SUFFICES ASSUME NEW s \in Slots, NEW j \in DOMAIN res[s], res[s][j] \notin Gpios, Reached(s, j)
                 PROVE  Open(res[s][j])' \/ \E v \in Uarts \ {res[s][j]} : PeriphOf[v] = PeriphOf[res[s][j]]
      BY <1>1, <2>1 DEF HeldIsOpen
    <3>1. Open(res[s][j]) \/ \E v \in Uarts \ {res[s][j]} : PeriphOf[v] = PeriphOf[res[s][j]]
      BY <1>1 DEF OpensAgree, HeldIsOpen
    <3> QED
      BY <1>1, <3>1 DEF Open
  <2>5. JobAgrees'
    BY <1>1, <2>2 DEF OpensAgree, JobAgrees, Shelling
  <2> QED
    BY <2>3, <2>4, <2>5 DEF OpensAgree
<1>5. LinesAgree'
  BY <1>1 DEF LinesAgree, Dev
<1>6. CallsAgree'
  <2>1. /\ \A d : Open(d)' <=> Open(d)
        /\ \A s, d : Declared(s, d)' <=> Declared(s, d)
    BY <1>1 DEF Open, Declared
  <2>2. Releasing' => ~ alive'[sup'.slot]
    BY <1>1 DEF CallsAgree, Releasing
  <2> SUFFICES ASSUME NEW t \in Slots, call'[t] # NoCall
               PROVE  alive[t] /\ Declared(t, call'[t].dev) /\ Open(call'[t].dev)
    BY <1>1, <2>1, <2>2 DEF CallsAgree
  <2> QED
    BY <1>1 DEF CallsAgree, CallsMove
<1> QED
  BY <1>2, <1>3, <1>4, <1>5, <1>6

\* The call of slot s becomes c; both are of one kind, or no call.
Moves(s, c, steps) ==
  /\ DOMAIN call' = Slots /\ call'[s] = c /\ \A t \in Slots \ {s} : call'[t] = call[t]
  /\ c = [at |-> c.at, dev |-> c.dev, left |-> c.left, mixed |-> c.mixed]
  /\ CallOf(c)
  /\ call[s] = NoCall \/ call[s].at \in steps
  /\ c = NoCall \/ c.at \in steps
  /\ c # NoCall => \/ call[s] # NoCall /\ c.dev = call[s].dev
                   \/ alive[s] /\ Declared(s, c.dev) /\ Open(c.dev)

OnlyMoves(steps) ==
  \A t \in Slots : call'[t] # call[t] => /\ call[t] = NoCall \/ call[t].at \in steps
                                         /\ call'[t] = NoCall \/ call'[t].at \in steps

LEMMA ACallMoves ==
  ASSUME IInv, NEW s \in Slots, NEW c, NEW steps, Moves(s, c, steps)
  PROVE  CallsMove /\ OnlyMoves(steps)
  BY DEF Moves, CallsMove, OnlyMoves, IInv, SlotsTyped

LEMMA EntersMoves ==
  ASSUME IInv, NEW s \in Slots, NEW d, NEW at, NEW steps, Enters(s, d, at), Open(d), at \in steps,
         CallOf([at |-> at, dev |-> d, left |-> 0, mixed |-> FALSE])
  PROVE  CallsMove /\ OnlyMoves(steps)
<1> DEFINE c == [at |-> at, dev |-> d, left |-> 0, mixed |-> FALSE]
<1>2. /\ DOMAIN call' = Slots /\ call'[s] = c /\ \A t \in Slots \ {s} : call'[t] = call[t]
      /\ alive[s] /\ Declared(s, d) /\ call[s] = NoCall
  BY DEF Enters, IInv, SlotsTyped
<1>3. /\ c = [at |-> c.at, dev |-> c.dev, left |-> c.left, mixed |-> c.mixed]
      /\ CallOf(c) /\ c.dev = d /\ c.at = at
  OBVIOUS
<1> HIDE DEF c
<1>4. Moves(s, c, steps)
  BY <1>2, <1>3 DEF Moves
<1> QED
  BY <1>4, ACallMoves

\* The call of slot s goes on to the step at, of the same kind as the last.
MovesOn(s, at, left, steps) ==
  /\ DOMAIN call' = Slots /\ \A t \in Slots \ {s} : call'[t] = call[t]
  /\ call'[s] = [at |-> at, dev |-> call[s].dev, left |-> left, mixed |-> call[s].mixed]
  /\ call[s].at \in steps /\ at \in steps /\ call[s] # NoCall
  /\ CallOf([at |-> at, dev |-> call[s].dev, left |-> left, mixed |-> call[s].mixed])

LEMMA GoesMoves ==
  ASSUME IInv, NEW s \in Slots, NEW at, NEW left, NEW steps,
         MovesOn(s, at, left, steps)
  PROVE  CallsMove /\ OnlyMoves(steps)
<1> USE DEF MovesOn
<1> DEFINE c == [at |-> at, dev |-> call[s].dev, left |-> left, mixed |-> call[s].mixed]
<1>1. /\ c = [at |-> c.at, dev |-> c.dev, left |-> c.left, mixed |-> c.mixed]
      /\ CallOf(c) /\ c.dev = call[s].dev /\ c.at = at /\ call'[s] = c
  OBVIOUS
<1> HIDE DEF c
<1>2. Moves(s, c, steps)
  BY <1>1 DEF Moves
<1> QED
  BY <1>2, ACallMoves

LEMMA ReturnsMoves ==
  ASSUME IInv, NEW s \in Slots, NEW steps, Returns(s), call[s].at \in steps
  PROVE  CallsMove /\ OnlyMoves(steps)
<1>1. Moves(s, NoCall, steps)
  BY DEF Moves, Returns, NoCall, CallOf, IInv, SlotsTyped
<1> QED
  BY <1>1, ACallMoves

LEMMA WiresStay ==
  ASSUME IInv, UNCHANGED <<wire, bopen, sup, res>>,
         \A t \in Slots : call[t].dev \in Buses => call'[t].dev = call[t].dev
  PROVE  WiresAgree'
<1>1. WiresAgree
  BY DEF IInv
<1> SUFFICES ASSUME NEW b \in Buses, wire[b] # "idle"
             PROVE  \/ \E s \in Slots : call'[s].dev = b
                    \/ (Shelling /\ sup.slot = b)'
                    \/ Waits(b)'
  BY <1>1 DEF WiresAgree, WireAgrees
<1>2. CASE \E s \in Slots : call[s].dev = b
  BY <1>2
<1>3. CASE ~ \E s \in Slots : call[s].dev = b
  BY <1>1, <1>3 DEF WiresAgree, WireAgrees, Waits, Shelling, Releasing
<1> QED
  BY <1>2, <1>3

LEMMA ConversionsStay ==
  ASSUME IInv, UNCHANGED <<sel, running, done, value, wrong>>,
         \A t \in Slots : Converting(t) \/ Converting(t)' => call'[t] = call[t]
  PROVE  ConversionsAgree'
  BY DEF IInv, ConversionsAgree, Converting, Channel

LEMMA ConfStays ==
  ASSUME IInv, UNCHANGED <<conf, res, sup, bopen, uopen, claimed>>
  PROVE  ConfAgrees'
<1>1. /\ \A d : Open(d)' <=> Open(d)
      /\ \A s, d : Declared(s, d)' <=> Declared(s, d)
      /\ Dev' = Dev
  BY DEF Open, Declared, Dev
<1> QED
  BY <1>1 DEF IInv, ConfAgrees

LEMMA SpiStays ==
  ASSUME IInv, UNCHANGED <<spi, res, bopen>>
  PROVE  SpiIsAsItsOwnerSetIt'
  BY DEF IInv, SpiIsAsItsOwnerSetIt, Declared

\* The call of a slot as a record, and of which kind it is.
LEMMA CallRecord ==
  ASSUME IInv, NEW s \in Slots
  PROVE  /\ call[s] = [at |-> call[s].at, dev |-> call[s].dev, left |-> call[s].left, mixed |-> call[s].mixed]
         /\ CallOf(call[s]) /\ DOMAIN call = Slots
         /\ call[s] = NoCall <=> call[s].at = "none"
         /\ call[s].at \in UartSteps => call[s].dev \in Uarts
         /\ call[s].at \in {"i2c", "recover"} => call[s].dev \in I2cs
         /\ call[s].at = "spi" => call[s].dev \in Spis
         /\ call[s].at \in Steps \cup {"select"} => call[s].dev \in Adcs
  BY CallKinds DEF IInv, SlotsTyped

\* A call keeps its four fields, and the assignments to them rewrite the record.
LEMMA CallShape ==
  ASSUME IInv, NEW s \in Slots
  PROVE  /\ call[s] = [at |-> call[s].at, dev |-> call[s].dev, left |-> call[s].left, mixed |-> call[s].mixed]
         /\ DOMAIN call = Slots
  BY DEF IInv, SlotsTyped

LEMMA Rewritten ==
  ASSUME IInv, NEW s \in Slots, NEW at, NEW left
  PROVE  /\ [call[s] EXCEPT !.at = at, !.left = left]
              = [at |-> at, dev |-> call[s].dev, left |-> left, mixed |-> call[s].mixed]
         /\ [call[s] EXCEPT !.at = at]
              = [at |-> at, dev |-> call[s].dev, left |-> call[s].left, mixed |-> call[s].mixed]
         /\ [call[s] EXCEPT !.left = left]
              = [at |-> call[s].at, dev |-> call[s].dev, left |-> left, mixed |-> call[s].mixed]
<1>1. call[s] = [at |-> call[s].at, dev |-> call[s].dev, left |-> call[s].left, mixed |-> call[s].mixed]
  BY CallShape
<1>2. ASSUME NEW c, c = [call[s] EXCEPT !.at = at, !.left = left]
      PROVE  c = [at |-> at, dev |-> call[s].dev, left |-> left, mixed |-> call[s].mixed]
  BY <1>1, <1>2
<1>3. [call[s] EXCEPT !.at = at]
        = [at |-> at, dev |-> call[s].dev, left |-> call[s].left, mixed |-> call[s].mixed]
  BY <1>1
<1>4. [call[s] EXCEPT !.left = left]
        = [at |-> call[s].at, dev |-> call[s].dev, left |-> left, mixed |-> call[s].mixed]
  BY <1>1
<1> QED
  BY <1>2, <1>3, <1>4

LEMMA UartCallMoves ==
  ASSUME IInv, NEW s \in Slots, UartCall(s)
  PROVE  CallsMove /\ OnlyMoves(UartSteps) /\ UNCHANGED <<uopen, irq>>
<1>1. ASSUME NEW u \in Uarts, UartRead_Begins(s, u) \/ Loop_Begins(s, u)
      PROVE  CallsMove /\ OnlyMoves(UartSteps) /\ UNCHANGED <<uopen, irq>>
  <2>1. PICK at \in {"read", "loop"} : uopen[u] /\ Enters(s, u, at) /\ UNCHANGED uartVars
    BY <1>1 DEF UartRead_Begins, Loop_Begins
  <2>2. Open(u) /\ at \in UartSteps /\ CallOf([at |-> at, dev |-> u, left |-> 0, mixed |-> FALSE])
    BY <2>1 DEF Open, UartSteps, CallOf
  <2> QED
    BY <2>1, <2>2, EntersMoves DEF uartVars, rings
<1>2. ASSUME UartRead_Copies(s) \/ UartRead_Advances(s) \/ Loop_Tail(s) \/ Loop_Head(s)
      PROVE  CallsMove /\ OnlyMoves(UartSteps) /\ UNCHANGED <<uopen, irq>>
  <2>1. UNCHANGED <<uopen, irq>> /\ call[s].at \in UartSteps /\ call[s].at # "none"
    BY <1>2 DEF UartRead_Copies, UartRead_Advances, Loop_Tail, Loop_Head, uartVars, rings,
        Is, UartSteps
  <2>2. PICK at \in UartSteps : \E left :
          /\ DOMAIN call' = Slots /\ \A t \in Slots \ {s} : call'[t] = call[t]
          /\ call'[s] = [at |-> at, dev |-> call[s].dev, left |-> left, mixed |-> call[s].mixed]
    <3>1. CASE UartRead_Copies(s)
      <4>1. PICK left :
              call' = [call EXCEPT ![s].at = "copied", ![s].left = left]
        BY <3>1 DEF UartRead_Copies
      <4>2. call'[s] = [call[s] EXCEPT !.at = "copied", !.left = left]
        BY <4>1, CallShape
      <4>3. DOMAIN call' = Slots /\ \A t \in Slots \ {s} : call'[t] = call[t]
        BY <4>1, CallShape
      <4>4. call'[s] = [at |-> "copied", dev |-> call[s].dev, left |-> left, mixed |-> call[s].mixed]
        BY <4>2, Rewritten
      <4> QED
        BY <4>3, <4>4 DEF UartSteps
    <3>2. CASE UartRead_Advances(s)
      <4>1. call' = [call EXCEPT ![s].at = "read", ![s].left = 0]
        BY <3>2 DEF UartRead_Advances
      <4>2. call'[s] = [call[s] EXCEPT !.at = "read", !.left = 0]
        BY <4>1, CallShape
      <4>3. DOMAIN call' = Slots /\ \A t \in Slots \ {s} : call'[t] = call[t]
        BY <4>1, CallShape
      <4>4. call'[s] = [at |-> "read", dev |-> call[s].dev, left |-> 0, mixed |-> call[s].mixed]
        BY <4>2, Rewritten
      <4> QED
        BY <4>3, <4>4 DEF UartSteps
    <3>3. CASE Loop_Tail(s) \/ Loop_Head(s)
      <4>1. PICK to \in {"tail", "head"} : call' = [call EXCEPT ![s].at = to]
        BY <3>3 DEF Loop_Tail, Loop_Head, Goes
      <4>2. call'[s] = [call[s] EXCEPT !.at = to] /\ to \in UartSteps
        BY <4>1, CallShape DEF UartSteps
      <4>3. DOMAIN call' = Slots /\ \A t \in Slots \ {s} : call'[t] = call[t]
        BY <4>1, CallShape
      <4>4. call'[s] = [at |-> to, dev |-> call[s].dev, left |-> call[s].left, mixed |-> call[s].mixed]
        BY <4>2, Rewritten
      <4> QED
        BY <4>2, <4>3, <4>4
    <3> QED
      BY <1>2, <3>1, <3>2, <3>3
  <2>3. PICK left : call'[s] = [at |-> at, dev |-> call[s].dev, left |-> left, mixed |-> call[s].mixed]
    BY <2>2
  <2>4. call[s].dev \in Uarts /\ call[s] # NoCall
    BY <2>1, CallRecord
  <2>5. CallOf([at |-> at, dev |-> call[s].dev, left |-> left, mixed |-> call[s].mixed])
    BY <2>4 DEF CallOf
  <2>6. MovesOn(s, at, left, UartSteps)
    BY <2>1, <2>2, <2>3, <2>4, <2>5 DEF MovesOn
  <2> QED
    BY <2>1, <2>6, GoesMoves
<1>3. ASSUME UartRead_Ends(s) \/ Loop_Ends(s)
      PROVE  CallsMove /\ OnlyMoves(UartSteps) /\ UNCHANGED <<uopen, irq>>
  <2>1. UNCHANGED <<uopen, irq>> /\ call[s].at \in UartSteps /\ Returns(s)
    BY <1>3 DEF UartRead_Ends, Loop_Ends, uartVars, rings, Is, UartSteps
  <2> QED
    BY <2>1, ReturnsMoves
<1> QED
  BY <1>1, <1>2, <1>3 DEF UartCall

LEMMA UartCallKeepsIInv ==
  ASSUME IInv, NEW s \in Slots, UartCall(s), UNCHANGED <<slotVars, sup, conf, busVars, adcVars>>
  PROVE  IInv'
<1>1. /\ UNCHANGED <<res, alive, catalog, sup, conf, bopen, wire, spi, claimed, up, sel, running, done, value,
                     wrong, uopen, irq>>
      /\ CallsMove /\ OnlyMoves(UartSteps)
  BY UartCallMoves DEF slotVars, busVars, adcVars
<1>2. SlotsTyped' /\ ClaimsApart' /\ OpensAgree' /\ LinesAgree' /\ CallsAgree'
  BY <1>1, CallsKeepSlots DEF SlotsStay
<1>3. DriversTyped'
  BY <1>1 DEF IInv, DriversTyped
<1>4. \A t \in Slots : call[t].dev \in Buses => call'[t].dev = call[t].dev
  <2> SUFFICES ASSUME NEW t \in Slots, call[t].dev \in Buses, call'[t] # call[t]
               PROVE  FALSE
    OBVIOUS
  <2>1. call[t].at \in BusSteps
    BY CallRecord, CallKinds
  <2> QED
    BY <1>1, <2>1 DEF OnlyMoves, UartSteps, BusSteps, NoCall
<1>5. \A t \in Slots : Converting(t) \/ Converting(t)' => call'[t] = call[t]
  BY <1>1 DEF OnlyMoves, Converting, Steps, UartSteps, NoCall
<1> QED
  BY <1>1, <1>2, <1>3, <1>4, <1>5, WiresStay, ConversionsStay, ConfStays, SpiStays DEF IInv

\* A module that declared a bus and is in no call finds its lines idle.
LEMMA IdleBus ==
  ASSUME IInv, NEW s \in Slots, NEW b \in Buses, alive[s], call[s] = NoCall, Declared(s, b)
  PROVE  wire[b] = "idle"
<1> SUFFICES ASSUME wire[b] # "idle" PROVE FALSE
  OBVIOUS
<1>1. \/ \E t \in Slots : call[t].dev = b
      \/ Shelling /\ sup.slot = b
      \/ Releasing /\ \E j \in DOMAIN res[sup.slot] : res[sup.slot][j] = b
  BY DEF IInv, WiresAgree, WireAgrees, Waits
<1>2. CASE \E t \in Slots : call[t].dev = b
  <2>1. PICK t \in Slots : call[t].dev = b
    BY <1>2
  <2>2. b # NoDev /\ call[t] # NoCall
    BY <2>1, KindsAreApart DEF NoCall
  <2>3. Declared(t, b)
    BY <2>1, <2>2 DEF IInv, CallsAgree
  <2> QED
    BY <2>2, <2>3, OneSlotDeclares DEF IInv
<1>3. CASE Shelling /\ sup.slot = b
  BY <1>3 DEF IInv, OpensAgree, JobAgrees, ShellBusFree
<1>4. CASE Releasing /\ \E j \in DOMAIN res[sup.slot] : res[sup.slot][j] = b
  <2>1. sup.slot \in Slots /\ Declared(sup.slot, b) /\ ~ alive[sup.slot]
    BY <1>4 DEF IInv, SlotsTyped, CallsAgree, Declared
  <2> QED
    BY <2>1, OneSlotDeclares DEF IInv
<1> QED
  BY <1>1, <1>2, <1>3, <1>4

LEMMA BusCallMoves ==
  ASSUME IInv, NEW s \in Slots, BusCall(s)
  PROVE  CallsMove /\ OnlyMoves(BusSteps)
<1>1. ASSUME NEW b \in Buses, I2c_Begins(s, b)
      PROVE  CallsMove /\ OnlyMoves(BusSteps)
  <2>1. PICK n \in {1, 2} :
          call' = [call EXCEPT ![s] = [at |-> "i2c", dev |-> b, left |-> n - 1, mixed |-> FALSE]]
    BY <1>1 DEF I2c_Begins
  <2> DEFINE c == [at |-> "i2c", dev |-> b, left |-> n - 1, mixed |-> FALSE]
  <2>2. /\ b \in I2cs /\ bopen[b] /\ alive[s] /\ call[s] = NoCall /\ Declared(s, b)
        /\ DOMAIN call' = Slots /\ call'[s] = c /\ \A t \in Slots \ {s} : call'[t] = call[t]
    BY <1>1, <2>1, CallRecord DEF I2c_Begins
  <2>3. /\ c = [at |-> c.at, dev |-> c.dev, left |-> c.left, mixed |-> c.mixed]
        /\ CallOf(c) /\ c.at \in BusSteps /\ Open(c.dev)
    BY <2>2 DEF CallOf, BusSteps, Open
  <2>4. c.dev = b
    OBVIOUS
  <2> HIDE DEF c
  <2>5. Moves(s, c, BusSteps)
    BY <2>2, <2>3, <2>4 DEF Moves
  <2> QED
    BY <2>5, ACallMoves
<1>2. ASSUME NEW b \in Buses, Spi_Begins(s, b)
      PROVE  CallsMove /\ OnlyMoves(BusSteps)
  <2>1. /\ Enters(s, b, "spi") /\ Open(b) /\ "spi" \in BusSteps
        /\ CallOf([at |-> "spi", dev |-> b, left |-> 0, mixed |-> FALSE])
    BY <1>2 DEF Spi_Begins, Open, BusSteps, CallOf
  <2> QED
    BY <2>1, EntersMoves
<1>3. ASSUME call[s].at \in BusSteps, Returns(s)
      PROVE  CallsMove /\ OnlyMoves(BusSteps)
  BY <1>3, ReturnsMoves
<1>4. ASSUME I2c_Succeeds(s), ~ Returns(s)
      PROVE  CallsMove /\ OnlyMoves(BusSteps)
  <2>1. call' = [call EXCEPT ![s].left = @ - 1] /\ call[s].at = "i2c"
    BY <1>4 DEF I2c_Succeeds, Is
  <2>2. /\ DOMAIN call' = Slots /\ \A t \in Slots \ {s} : call'[t] = call[t]
        /\ call'[s] = [at |-> "i2c", dev |-> call[s].dev, left |-> call[s].left - 1, mixed |-> call[s].mixed]
    <3>1. call'[s] = [call[s] EXCEPT !.left = call[s].left - 1]
      BY <2>1, CallShape
    <3>2. call'[s] = [at |-> call[s].at, dev |-> call[s].dev, left |-> call[s].left - 1,
                      mixed |-> call[s].mixed]
      BY <3>1, Rewritten
    <3>3. DOMAIN call' = Slots /\ \A t \in Slots \ {s} : call'[t] = call[t]
      BY <2>1, CallShape
    <3> QED
      BY <2>1, <3>2, <3>3
  <2>3. /\ call[s].dev \in I2cs /\ call[s] # NoCall /\ "i2c" \in BusSteps
        /\ CallOf([at |-> "i2c", dev |-> call[s].dev, left |-> call[s].left - 1, mixed |-> call[s].mixed])
    BY <2>1, CallRecord DEF BusSteps, CallOf
  <2>4. MovesOn(s, "i2c", call[s].left - 1, BusSteps)
    BY <2>1, <2>2, <2>3 DEF MovesOn
  <2> QED
    BY <2>1, <2>4, GoesMoves
<1>5. ASSUME I2c_Fails(s)
      PROVE  CallsMove /\ OnlyMoves(BusSteps)
  <2>1. call' = [call EXCEPT ![s].at = "recover"] /\ call[s].at = "i2c"
    BY <1>5 DEF I2c_Fails, Is, Goes
  <2>2. /\ DOMAIN call' = Slots /\ \A t \in Slots \ {s} : call'[t] = call[t]
        /\ call'[s] = [at |-> "recover", dev |-> call[s].dev, left |-> call[s].left, mixed |-> call[s].mixed]
    <3>1. call'[s] = [call[s] EXCEPT !.at = "recover"]
      BY <2>1, CallShape
    <3>2. call'[s] = [at |-> "recover", dev |-> call[s].dev, left |-> call[s].left,
                      mixed |-> call[s].mixed]
      BY <3>1, Rewritten
    <3>3. DOMAIN call' = Slots /\ \A t \in Slots \ {s} : call'[t] = call[t]
      BY <2>1, CallShape
    <3> QED
      BY <3>2, <3>3
  <2>3. /\ call[s].dev \in I2cs /\ call[s] # NoCall /\ "i2c" \in BusSteps /\ "recover" \in BusSteps
        /\ CallOf([at |-> "recover", dev |-> call[s].dev, left |-> call[s].left, mixed |-> call[s].mixed])
    BY <2>1, CallRecord DEF BusSteps, CallOf
  <2>4. MovesOn(s, "recover", call[s].left, BusSteps)
    BY <2>1, <2>2, <2>3 DEF MovesOn
  <2> QED
    BY <2>1, <2>4, GoesMoves
<1>6. ASSUME UNCHANGED call
      PROVE  CallsMove /\ OnlyMoves(BusSteps)
  BY <1>6 DEF CallsMove, OnlyMoves, IInv, SlotsTyped
<1> QED
  BY <1>1, <1>2, <1>3, <1>4, <1>5, <1>6 DEF BusCall, Spi_Configures, I2c_Succeeds,
      I2c_Recovers, Spi_Ends, Is, BusSteps

\* What a step of a transfer does to the lines: only those of its own bus.
LEMMA TransferWires ==
  ASSUME IInv, NEW s \in Slots, NEW b \in Buses, UNCHANGED <<res, sup, bopen>>,
         bopen[b], call[s].dev = b \/ call[s] = NoCall,
         DOMAIN wire' = Buses, \A c \in Buses \ {b} : wire'[c] = wire[c],
         wire'[b] \in {"idle", "busy", "wedged"}, wire'[b] = "idle" \/ call'[s].dev = b,
         \A t \in Slots \ {s} : call'[t] = call[t]
  PROVE  WiresAgree'
<1>1. WiresAgree
  BY DEF IInv
<1>2. ASSUME NEW c \in Buses \ {b}
      PROVE  WireAgrees(c)'
  <2>1. \A t \in Slots : call[t].dev = c => call'[t].dev = c
    BY KindsAreApart DEF NoCall
  <2>2. (\E t \in Slots : call[t].dev = c) => \E t \in Slots : call'[t].dev = c
    BY <2>1
  <2> QED
    BY <1>1, <2>2 DEF WiresAgree, WireAgrees, Waits, Shelling, Releasing
<1>3. WireAgrees(b)'
  BY DEF WireAgrees
<1> QED
  BY <1>2, <1>3 DEF WiresAgree

LEMMA BusWires ==
  ASSUME IInv, NEW s \in Slots, BusCall(s), UNCHANGED <<slotVars, sup>>
  PROVE  WiresAgree' /\ UNCHANGED bopen
<1>1. /\ UNCHANGED <<res, alive, sup, bopen>> /\ DOMAIN wire = Buses /\ DOMAIN call = Slots
  BY DEF slotVars, BusCall, I2c_Begins, Spi_Begins, Spi_Configures, I2c_Succeeds, I2c_Fails,
      I2c_Recovers, Spi_Ends, IInv, DriversTyped, SlotsTyped
<1>2. ASSUME NEW b \in Buses, I2c_Begins(s, b) \/ Spi_Begins(s, b)
      PROVE  WiresAgree'
  <2>1. bopen[b] /\ alive[s] /\ call[s] = NoCall /\ Declared(s, b) /\ Drives(b)
    BY <1>2 DEF I2c_Begins, Spi_Begins, Enters
  <2>2. call'[s].dev = b /\ \A t \in Slots \ {s} : call'[t] = call[t]
    BY <1>1, <1>2 DEF I2c_Begins, Spi_Begins, Enters
  <2>3. wire[b] = "idle"
    BY <2>1, IdleBus
  <2>4. DOMAIN wire' = Buses /\ wire'[b] = "busy" /\ \A c \in Buses \ {b} : wire'[c] = wire[c]
    BY <1>1, <2>1, <2>3 DEF Drives
  <2> QED
    BY <1>1, <2>1, <2>2, <2>4, TransferWires
<1>3. ASSUME call[s].at \in BusSteps,
             \/ I2c_Succeeds(s) \/ I2c_Fails(s) \/ I2c_Recovers(s) \/ Spi_Ends(s)
      PROVE  WiresAgree'
  <2> DEFINE b == call[s].dev
  <2>1. /\ b \in Buses /\ CallOf(call[s]) /\ call[s] # NoCall
        /\ call[s] = [at |-> call[s].at, dev |-> b, left |-> call[s].left, mixed |-> call[s].mixed]
    BY <1>3, CallRecord DEF Buses, BusSteps
  <2>2. bopen[b] /\ wire[b] \in {"idle", "busy", "wedged"}
    BY <2>1, KindsAreApart DEF IInv, CallsAgree, WiresAgree, WireAgrees, Open
  <2>3. \A t \in Slots \ {s} : call'[t] = call[t]
    BY <1>1, <1>3 DEF I2c_Succeeds, I2c_Fails, I2c_Recovers, Spi_Ends, Returns, Goes
  <2>4. /\ DOMAIN wire' = Buses /\ \A c \in Buses \ {b} : wire'[c] = wire[c]
        /\ wire'[b] \in {"idle", "busy", "wedged"}
    BY <1>1, <1>3, <2>1, <2>2 DEF I2c_Succeeds, I2c_Fails, I2c_Recovers, Spi_Ends
  <2>5. wire'[b] = "idle" \/ call'[s].dev = b
    <3>1. CASE I2c_Succeeds(s) /\ call[s].left # 0
      <4>1. call' = [call EXCEPT ![s].left = @ - 1]
        BY <3>1 DEF I2c_Succeeds
      <4>2. call'[s] = [call[s] EXCEPT !.left = @ - 1]
        BY <1>1, <4>1
      <4> QED
        BY <2>1, <4>2
    <3>2. CASE I2c_Fails(s)
      <4>1. call' = [call EXCEPT ![s].at = "recover"]
        BY <3>2 DEF I2c_Fails, Goes
      <4>2. call'[s] = [call[s] EXCEPT !.at = "recover"]
        BY <1>1, <4>1
      <4> QED
        BY <2>1, <4>2
    <3>3. CASE (I2c_Succeeds(s) /\ call[s].left = 0) \/ I2c_Recovers(s) \/ Spi_Ends(s)
      BY <1>1, <2>1, <3>3 DEF I2c_Succeeds, I2c_Recovers, Spi_Ends
    <3> QED
      BY <1>3, <3>1, <3>2, <3>3
  <2> HIDE DEF b
  <2> QED
    BY <1>1, <2>1, <2>2, <2>3, <2>4, <2>5, TransferWires
<1>4. ASSUME UNCHANGED <<call, wire>>
      PROVE  WiresAgree'
  BY <1>1, <1>4, WiresStay
<1> QED
  BY <1>1, <1>2, <1>3, <1>4 DEF BusCall, Spi_Configures, I2c_Succeeds, I2c_Fails,
      I2c_Recovers, Spi_Ends, Is, BusSteps

-----------------------------------------------------------------------------
(* The divider of an SPI. *)

LEMMA LeastOne ==
  ASSUME NEW S \in SUBSET Nat, S # {}
  PROVE  \E d \in S : \A e \in S : d <= e
<1> DEFINE R == {ss \in Nat \X Nat : ss[1] < ss[2]}
<1>1. IsWellFoundedOn(R, Nat)
  BY NatLessThanWellFounded, Zenon DEF OpToRel
<1>2. \E d \in S : \A e \in S : ~ (<<e, d>> \in R)
  <2> HIDE DEF R
  <2> QED
    BY <1>1, WFMin
<1>3. \A d, e \in Nat : e < d => <<e, d>> \in R
  OBVIOUS
<1> HIDE DEF R
<1>4. PICK d \in S : \A e \in S : ~ (<<e, d>> \in R)
  BY <1>2
<1>5. \A e \in S : ~ (e < d)
  BY <1>3, <1>4
<1>6. \A e \in S : d <= e
  BY <1>5
<1> QED
  BY <1>6

LEMMA GreatestOne ==
  ASSUME NEW S \in SUBSET Nat, S # {}, NEW n \in Nat, \A d \in S : d <= n
  PROVE  \E d \in S : \A e \in S : e <= d
<1> DEFINE T == {n - d : d \in S}
<1>1. T \in SUBSET Nat /\ T # {}
  <2>1. \A d \in S : n - d \in Nat
    OBVIOUS
  <2>2. T \subseteq Nat
    BY <2>1
  <2>3. PICK d \in S : TRUE
    OBVIOUS
  <2>4. n - d \in T
    OBVIOUS
  <2> QED
    BY <2>2, <2>4
<1>2. PICK m \in T : \A k \in T : m <= k
  <2> HIDE DEF T
  <2> QED
    BY <1>1, LeastOne
<1>3. PICK d \in S : m = n - d
  BY <1>2
<1>4. \A e \in S : n - d <= n - e
  BY <1>2, <1>3
<1> QED
  BY <1>4

\* A greater divider gives no greater frequency.
LEMMA Slower ==
  ASSUME NEW d \in Nat \ {0}, NEW e \in Nat \ {0}, d <= e
  PROVE  PClk \div e <= PClk \div d
  BY BusAssumption

\* Not too fast, or with the slowest divider.
LEMMA DivForIsSlow ==
  ASSUME NEW want \in Nat \ {0}
  PROVE  \/ PClk \div DivFor(want) <= want
         \/ \A d \in Divs : PClk \div DivFor(want) <= PClk \div d
<1> DEFINE enough == {d \in Divs : PClk \div d <= want}
<1>1. Divs \in SUBSET (Nat \ {0}) /\ Divs # {} /\ enough \in SUBSET Nat /\ PClk \in Nat
  BY BusAssumption
<1>2. CASE enough # {}
  <2>1. \E d \in enough : \A e \in enough : d <= e
    BY <1>1, <1>2, LeastOne
  <2>2. DivFor(want) \in enough
    BY <1>2, <2>1 DEF DivFor
  <2> QED
    BY <2>2
<1>3. CASE enough = {}
  <2>1. \A d \in Divs : d <= PClk
    <3> SUFFICES ASSUME NEW d \in Divs, d > PClk PROVE FALSE
      BY <1>1
    <3>1. PClk \div d = 0
      BY <1>1
    <3> QED
      BY <1>3, <3>1
  <2>2. \E d \in Divs : \A e \in Divs : e <= d
    BY <1>1, <2>1, GreatestOne
  <2>3. DivFor(want) \in Divs /\ \A e \in Divs : e <= DivFor(want)
    BY <1>3, <2>2 DEF DivFor
  <2> QED
    BY <1>1, <2>3, Slower
<1> QED
  BY <1>2, <1>3

LEMMA SpiConfigured ==
  ASSUME IInv, NEW s \in Slots, NEW b \in Spis, NEW hz \in Speeds, Spi_Configures(s, b, 3, hz), UNCHANGED slotVars
  PROVE  /\ SpiIsAsItsOwnerSetIt' /\ UNCHANGED wire /\ DOMAIN spi' = Spis
         /\ \A c \in Spis : spi'[c] = [mode |-> spi'[c].mode, hz |-> spi'[c].hz, asked |-> spi'[c].asked,
                                       by |-> spi'[c].by]
<1> DEFINE r == [mode |-> 3, hz |-> PClk \div DivFor(hz), asked |-> hz, by |-> s]
<1>1. /\ spi' = [spi EXCEPT ![b] = r] /\ Declared(s, b) /\ UNCHANGED <<res, alive, catalog, bopen, wire>>
      /\ DOMAIN spi = Spis /\ hz \in Nat \ {0}
  BY BusAssumption DEF Spi_Configures, Applied, slotVars, IInv, DriversTyped
<1>2. \/ r.hz <= r.asked
      \/ \A d \in Divs : r.hz <= PClk \div d
  BY <1>1, DivForIsSlow
<1>3. r = [mode |-> r.mode, hz |-> r.hz, asked |-> r.asked, by |-> r.by] /\ r.by = s /\ s # NoDev
  BY KindsAreApart
<1> HIDE DEF r
<1>4. DOMAIN spi' = Spis /\ spi'[b] = r /\ \A c \in Spis \ {b} : spi'[c] = spi[c]
  BY <1>1
<1>5. SpiIsAsItsOwnerSetIt'
  BY <1>1, <1>2, <1>3, <1>4 DEF IInv, SpiIsAsItsOwnerSetIt, Declared
<1>6. /\ DOMAIN spi' = Spis
      /\ \A c \in Spis : spi'[c] = [mode |-> spi'[c].mode, hz |-> spi'[c].hz, asked |-> spi'[c].asked,
                                    by |-> spi'[c].by]
  <2>1. \A c \in Spis \ {b} : spi'[c] = [mode |-> spi'[c].mode, hz |-> spi'[c].hz, asked |-> spi'[c].asked,
                                         by |-> spi'[c].by]
    BY <1>4 DEF IInv, DriversTyped
  <2> QED
    BY <1>3, <1>4, <2>1
<1> QED
  BY <1>1, <1>5, <1>6

LEMMA BusCallKeepsIInv ==
  ASSUME IInv, NEW s \in Slots, BusCall(s), UNCHANGED <<slotVars, sup, conf, uartVars, adcVars>>
  PROVE  IInv'
<1>1. /\ UNCHANGED <<res, alive, catalog, sup, conf, bopen, claimed, up, sel, running, done, value,
                     wrong, uopen, irq>>
      /\ CallsMove /\ OnlyMoves(BusSteps) /\ WiresAgree'
  BY BusCallMoves, BusWires DEF slotVars, uartVars, rings, adcVars
<1>2. SlotsTyped' /\ ClaimsApart' /\ OpensAgree' /\ LinesAgree' /\ CallsAgree'
  BY <1>1, CallsKeepSlots DEF SlotsStay
<1>3. SpiIsAsItsOwnerSetIt'
  <2>1. CASE UNCHANGED spi
    BY <1>1, <2>1, SpiStays
  <2>2. CASE \E b \in Spis, hz \in Speeds : Spi_Configures(s, b, 3, hz)
    BY <2>2, SpiConfigured
  <2> QED
    BY <2>1, <2>2 DEF BusCall, I2c_Begins, Spi_Begins, I2c_Succeeds, I2c_Fails,
        I2c_Recovers, Spi_Ends
<1>4. DriversTyped'
  <2>1. CASE UNCHANGED spi
    <3>1. DOMAIN wire' = Buses
      BY DEF IInv, DriversTyped, BusCall, I2c_Begins, Spi_Begins, Spi_Configures, Drives,
          I2c_Succeeds, I2c_Fails, I2c_Recovers, Spi_Ends
    <3> QED
      BY <1>1, <2>1, <3>1 DEF IInv, DriversTyped
  <2>2. CASE \E b \in Spis, hz \in Speeds : Spi_Configures(s, b, 3, hz)
    BY <1>1, <2>2, SpiConfigured DEF IInv, DriversTyped
  <2> QED
    BY <2>1, <2>2 DEF BusCall, I2c_Begins, Spi_Begins, I2c_Succeeds, I2c_Fails,
        I2c_Recovers, Spi_Ends
<1>5. \A t \in Slots : Converting(t) \/ Converting(t)' => call'[t] = call[t]
  BY <1>1 DEF OnlyMoves, Converting, Steps, BusSteps, NoCall
<1> QED
  BY <1>1, <1>2, <1>3, <1>4, <1>5, ConversionsStay, ConfStays DEF IInv

-----------------------------------------------------------------------------
(* The conversions. *)

\* A conversion marks those it overlaps.
Overlaps(s) ==
  \A t \in Slots \ {s} : call'[t] = IF Converting(t) THEN [call[t] EXCEPT !.mixed = TRUE] ELSE call[t]

LEMMA AdcStepMoves ==
  ASSUME IInv, NEW s \in Slots, NEW c,
         DOMAIN call' = Slots, call'[s] = c, Overlaps(s) \/ \A t \in Slots \ {s} : call'[t] = call[t],
         c # NoCall => c.at \in Steps \cup {"select"} /\ c.dev \in Adcs,
         c = [at |-> c.at, dev |-> c.dev, left |-> c.left, mixed |-> c.mixed],
         call[s] = NoCall \/ call[s].at \in Steps \cup {"select"},
         c # NoCall => \/ call[s] # NoCall /\ c.dev = call[s].dev
                       \/ alive[s] /\ Declared(s, c.dev) /\ Open(c.dev)
  PROVE  /\ CallsMove
         /\ \A t \in Slots : call[t].dev \in Buses => call'[t].dev = call[t].dev
         /\ \A t \in Slots \ {s} : /\ call'[t] = call[t] \/ call'[t].mixed
                                   /\ Converting(t)' <=> Converting(t)
<1>1. ASSUME NEW t \in Slots \ {s}, call'[t] # call[t]
      PROVE  /\ call'[t] = [at |-> call[t].at, dev |-> call[t].dev, left |-> call[t].left, mixed |-> TRUE]
             /\ call[t].at \in Steps /\ call[t].dev \in Adcs /\ call[t] # NoCall
  <2>1. call'[t] = [call[t] EXCEPT !.mixed = TRUE] /\ call[t].at \in Steps
    BY <1>1 DEF Overlaps, Converting
  <2> QED
    BY <2>1, CallRecord DEF Steps
<1>2. \A t \in Slots \ {s} :
        /\ call'[t] = [at |-> call'[t].at, dev |-> call'[t].dev, left |-> call'[t].left, mixed |-> call'[t].mixed]
        /\ CallOf(call'[t])
        /\ call'[t] # NoCall => call[t] # NoCall /\ call'[t].dev = call[t].dev
  <2> SUFFICES ASSUME NEW t \in Slots \ {s}
               PROVE  /\ call'[t] = [at |-> call'[t].at, dev |-> call'[t].dev, left |-> call'[t].left,
                                     mixed |-> call'[t].mixed]
                      /\ CallOf(call'[t])
                      /\ call'[t] # NoCall => call[t] # NoCall /\ call'[t].dev = call[t].dev
    OBVIOUS
  <2>1. CASE call'[t] = call[t]
    BY <2>1, CallRecord
  <2>2. CASE call'[t] # call[t]
    <3>1. /\ call'[t] = [at |-> call[t].at, dev |-> call[t].dev, left |-> call[t].left, mixed |-> TRUE]
          /\ call[t].at \in Steps /\ call[t].dev \in Adcs /\ call[t] # NoCall
      BY <1>1, <2>2
    <3> QED
      BY <3>1 DEF CallOf
  <2> QED
    BY <2>1, <2>2
<1>3. CallOf(c)
  BY DEF CallOf
<1>4. CallsMove
  BY <1>2, <1>3 DEF CallsMove
<1>5. call[s].dev \notin Buses
  <2>1. call[s].dev \in Adcs \/ call[s].dev = NoDev
    <3>1. NoCall.dev = NoDev
      BY DEF NoCall
    <3>2. call[s].at \in Steps \cup {"select"} => call[s].dev \in Adcs
      BY CallRecord
    <3> QED
      BY <3>1, <3>2
  <2>2. NoDev \notin Buses /\ \A d \in Adcs : d \notin Buses
    BY KindsAreApart
  <2> QED
    BY <2>1, <2>2
<1>6. \A t \in Slots \ {s} : /\ call'[t].dev = call[t].dev
                             /\ call'[t] = call[t] \/ call'[t].mixed
                             /\ Converting(t)' <=> Converting(t)
  BY <1>1 DEF Converting
<1> QED
  BY <1>4, <1>5, <1>6

\* Slot s goes on with its conversion: the record of its call, and the others'.
GoesOnConverting(s, at, left, mixed) ==
  /\ DOMAIN call' = Slots
  /\ call'[s] = [at |-> at, dev |-> call[s].dev, left |-> left, mixed |-> mixed]
  /\ Overlaps(s) \/ \A t \in Slots \ {s} : call'[t] = call[t]

LEMMA ConvertsGoesOn ==
  ASSUME IInv, NEW s \in Slots, NEW at, Converts(s, at)
  PROVE  GoesOnConverting(s, at, call[s].left, call[s].mixed) /\ Overlaps(s)
<1>1. call'[s] = [call[s] EXCEPT !.at = at] /\ DOMAIN call' = Slots /\ Overlaps(s)
  BY DEF Converts, Overlaps
<1>2. call'[s] = [at |-> at, dev |-> call[s].dev, left |-> call[s].left, mixed |-> call[s].mixed]
  BY <1>1, CallRecord
<1> QED
  BY <1>1, <1>2 DEF GoesOnConverting

LEMMA GoesOnMoves ==
  ASSUME IInv, NEW s \in Slots, NEW at, NEW left, NEW mixed, GoesOnConverting(s, at, left, mixed),
         at \in Steps \cup {"select"}, call[s].at \in Steps \cup {"select"}
  PROVE  /\ CallsMove
         /\ \A t \in Slots : call[t].dev \in Buses => call'[t].dev = call[t].dev
         /\ \A t \in Slots \ {s} : /\ call'[t] = call[t] \/ call'[t].mixed
                                   /\ Converting(t)' <=> Converting(t)
<1> DEFINE c == [at |-> at, dev |-> call[s].dev, left |-> left, mixed |-> mixed]
<1>1. call[s].dev \in Adcs /\ call[s] # NoCall
  BY CallRecord DEF Steps
<1>2. /\ c = [at |-> c.at, dev |-> c.dev, left |-> c.left, mixed |-> c.mixed]
      /\ c.at = at /\ c.dev = call[s].dev
  OBVIOUS
<1>3. DOMAIN call' = Slots /\ call'[s] = c /\ (Overlaps(s) \/ \A t \in Slots \ {s} : call'[t] = call[t])
  BY DEF GoesOnConverting
<1> HIDE DEF c
<1> QED
  BY <1>1, <1>2, <1>3, AdcStepMoves

LEMMA AdcReturns ==
  ASSUME IInv, NEW s \in Slots, Returns(s), call[s].at \in Steps
  PROVE  /\ CallsMove
         /\ \A t \in Slots : call[t].dev \in Buses => call'[t].dev = call[t].dev
         /\ \A t \in Slots \ {s} : call'[t] = call[t]
         /\ ~ Converting(s)'
<1>1. call'[s] = NoCall /\ DOMAIN call' = Slots /\ \A t \in Slots \ {s} : call'[t] = call[t]
  BY CallRecord DEF Returns
<1>2. NoCall = [at |-> NoCall.at, dev |-> NoCall.dev, left |-> NoCall.left, mixed |-> NoCall.mixed]
  BY DEF NoCall
<1>3. ~ Converting(s)'
  BY <1>1 DEF Converting, NoCall, Steps
<1>4. CallsMove /\ \A t \in Slots : call[t].dev \in Buses => call'[t].dev = call[t].dev
  <2>1. PICK c : c = NoCall
    OBVIOUS
  <2>2. /\ call'[s] = c
        /\ c = [at |-> c.at, dev |-> c.dev, left |-> c.left, mixed |-> c.mixed]
    BY <1>1, <1>2, <2>1
  <2> QED
    BY <1>1, <2>1, <2>2, AdcStepMoves
<1> QED
  BY <1>1, <1>3, <1>4

\* The step of a conversion that is followed by another.
LEMMA ConversionGoesOn ==
  ASSUME IInv, NEW s \in Slots, NEW at \in Steps, NEW mixed, GoesOnConverting(s, at, call[s].left, mixed),
         Overlaps(s), call[s].at \in Steps \cup {"select"}, UNCHANGED wrong,
         ~ mixed => /\ \A t \in Slots \ {s} : ~ Converting(t)
                    /\ sel' = Channel(s)
                    /\ at = "clear" => running' = NoDev
                    /\ at = "trigger" => running' = NoDev /\ ~ done'
                    /\ at = "wait" => \/ running' = Channel(s) /\ ~ done'
                                      \/ running' = NoDev /\ done' /\ value' = Channel(s)
                    /\ at \in {"stop", "data"} => running' = NoDev /\ done' /\ value' = Channel(s)
  PROVE  ConversionsAgree'
<1>1. /\ call'[s] = [at |-> at, dev |-> call[s].dev, left |-> call[s].left, mixed |-> mixed]
      /\ \A t \in Slots \ {s} : Converting(t)' <=> Converting(t)
      /\ \A t \in Slots \ {s} : Converting(t) => call'[t].mixed
  <2>1. \A t \in Slots \ {s} : Converting(t) => call'[t].mixed
    <3> SUFFICES ASSUME NEW t \in Slots \ {s}, Converting(t) PROVE call'[t].mixed
      OBVIOUS
    <3>1. /\ call'[t] = [call[t] EXCEPT !.mixed = TRUE]
          /\ call[t] = [at |-> call[t].at, dev |-> call[t].dev, left |-> call[t].left, mixed |-> call[t].mixed]
      BY CallRecord DEF Overlaps
    <3> QED
      BY <3>1
  <2> QED
    BY <2>1, GoesOnMoves DEF GoesOnConverting
<1>2. /\ call'[s].at = at /\ (call'[s].mixed <=> mixed) /\ Channel(s)' = Channel(s)
  BY <1>1 DEF Channel
<1>3. wrong' = {}
  BY DEF IInv, ConversionsAgree
<1>4. ASSUME ~ call'[s].mixed
      PROVE  /\ sel' = Channel(s)'
             /\ \A t \in Slots \ {s} : ~ Converting(t)'
             /\ call'[s].at = "clear" => running' = NoDev
             /\ call'[s].at = "trigger" => running' = NoDev /\ ~ done'
             /\ call'[s].at = "wait" => \/ running' = Channel(s)' /\ ~ done'
                                        \/ running' = NoDev /\ done' /\ value' = Channel(s)'
             /\ call'[s].at \in {"stop", "data"} => running' = NoDev /\ done' /\ value' = Channel(s)'
  BY <1>1, <1>2, <1>4
<1>5. ASSUME NEW t \in Slots \ {s}, Converting(t)', ~ call'[t].mixed
      PROVE  FALSE
  BY <1>1, <1>5
<1> QED
  BY <1>3, <1>4, <1>5 DEF ConversionsAgree

LEMMA AdcCallAgrees ==
  ASSUME IInv, NEW s \in Slots, AdcCall(s)
  PROVE  /\ CallsMove /\ ConversionsAgree' /\ UNCHANGED <<claimed, up>>
         /\ \A t \in Slots : call[t].dev \in Buses => call'[t].dev = call[t].dev
<1>1. CASE \E c \in Adcs : Adc_Begins(s, c)
  <2>1. PICK c \in Adcs : claimed[c] /\ Enters(s, c, "select") /\ UNCHANGED adcVars
    BY <1>1 DEF Adc_Begins
  <2> DEFINE r == [at |-> "select", dev |-> c, left |-> 0, mixed |-> FALSE]
  <2>2. /\ DOMAIN call' = Slots /\ call'[s] = r /\ \A t \in Slots \ {s} : call'[t] = call[t]
        /\ alive[s] /\ Declared(s, c) /\ call[s] = NoCall
    BY <2>1, CallRecord DEF Enters
  <2>3. /\ r = [at |-> r.at, dev |-> r.dev, left |-> r.left, mixed |-> r.mixed]
        /\ r.at = "select" /\ r.dev = c /\ Open(c)
    BY <2>1 DEF Open
  <2> HIDE DEF r
  <2>4. CallsMove /\ \A t \in Slots : call[t].dev \in Buses => call'[t].dev = call[t].dev
    BY <2>2, <2>3, AdcStepMoves
  <2>5. \A t \in Slots : Converting(t) \/ Converting(t)' => call'[t] = call[t]
    BY <2>2, <2>3 DEF Converting, Steps, NoCall
  <2> QED
    BY <2>1, <2>4, <2>5, ConversionsStay DEF adcVars
<1>2. CASE Adc_Selects(s)
  <2> DEFINE m == ~ Alone(s)
  <2>1. /\ call[s].at = "select" /\ DOMAIN call' = Slots /\ Overlaps(s)
        /\ call'[s] = [call[s] EXCEPT !.at = "clear", !.mixed = m]
        /\ sel' = Channel(s) /\ UNCHANGED <<claimed, up, running, done, value, wrong>>
    BY <1>2 DEF Adc_Selects, Overlaps, Is
  <2>2. ~ m => running = NoDev /\ \A t \in Slots \ {s} : ~ Converting(t)
    BY DEF Alone
  <2> HIDE DEF m
  <2>3. call'[s] = [at |-> "clear", dev |-> call[s].dev, left |-> call[s].left, mixed |-> m]
    BY <2>1, CallRecord
  <2>4. GoesOnConverting(s, "clear", call[s].left, m) /\ "clear" \in Steps
    BY <2>1, <2>3 DEF GoesOnConverting, Steps
  <2>5. ConversionsAgree'
    BY <2>1, <2>2, <2>4, ConversionGoesOn
  <2> QED
    BY <2>1, <2>4, <2>5, GoesOnMoves
<1>3. ASSUME NEW at \in Steps, Converts(s, at), Converting(s), UNCHANGED <<claimed, up, sel, value, wrong>>,
             ~ call[s].mixed =>
               /\ at # "clear"
               /\ at = "trigger" => running' = NoDev /\ ~ done'
               /\ at = "wait" => \/ running' = Channel(s) /\ ~ done'
                                 \/ running' = NoDev /\ done' /\ value' = Channel(s)
               /\ at \in {"stop", "data"} => running' = NoDev /\ done' /\ value' = Channel(s)
      PROVE  /\ CallsMove /\ ConversionsAgree' /\ UNCHANGED <<claimed, up>>
             /\ \A t \in Slots : call[t].dev \in Buses => call'[t].dev = call[t].dev
  <2>1. /\ GoesOnConverting(s, at, call[s].left, call[s].mixed) /\ Overlaps(s)
        /\ call[s].at \in Steps \cup {"select"}
    BY <1>3, ConvertsGoesOn DEF Converting
  <2>2. ~ call[s].mixed => sel' = Channel(s) /\ \A t \in Slots \ {s} : ~ Converting(t)
    BY <1>3 DEF IInv, ConversionsAgree
  <2>3. ConversionsAgree'
    BY <1>3, <2>1, <2>2, ConversionGoesOn
  <2> QED
    BY <1>3, <2>1, <2>3, GoesOnMoves
<1>4. CASE Adc_Clears(s)
  <2>1. /\ call[s].at = "clear" /\ Converts(s, "trigger") /\ done' = FALSE
        /\ UNCHANGED <<claimed, up, sel, running, value, wrong>> /\ "trigger" \in Steps /\ Converting(s)
    BY <1>4 DEF Adc_Clears, Is, Steps, Converting
  <2>2. ~ call[s].mixed => running' = NoDev /\ ~ done'
    BY <2>1 DEF IInv, ConversionsAgree
  <2> QED
    BY <1>3, <2>1, <2>2
<1>5. CASE Adc_Triggers(s)
  <2>1. /\ call[s].at = "trigger" /\ Converts(s, "wait") /\ running' = sel
        /\ UNCHANGED <<claimed, up, sel, done, value, wrong>> /\ "wait" \in Steps /\ Converting(s)
    BY <1>5 DEF Adc_Triggers, Is, Steps, Converting
  <2>2. ~ call[s].mixed => running' = Channel(s) /\ ~ done'
    BY <2>1 DEF IInv, ConversionsAgree
  <2> QED
    BY <1>3, <2>1, <2>2
<1>6. CASE Adc_SeesFlag(s)
  <2>1. /\ call[s].at = "wait" /\ done /\ Converts(s, "stop")
        /\ UNCHANGED <<claimed, up, sel, running, done, value, wrong>> /\ "stop" \in Steps /\ Converting(s)
    BY <1>6 DEF Adc_SeesFlag, adcVars, Is, Steps, Converting
  <2>2. ~ call[s].mixed => running' = NoDev /\ done' /\ value' = Channel(s)
    BY <2>1 DEF IInv, ConversionsAgree
  <2> QED
    BY <1>3, <2>1, <2>2
<1>7. CASE Adc_Stops(s)
  <2>1. /\ call[s].at = "stop" /\ Converts(s, "data")
        /\ UNCHANGED <<claimed, up, sel, running, done, value, wrong>> /\ "data" \in Steps /\ Converting(s)
    BY <1>7 DEF Adc_Stops, adcVars, Is, Steps, Converting
  <2>2. ~ call[s].mixed => running' = NoDev /\ done' /\ value' = Channel(s)
    BY <2>1 DEF IInv, ConversionsAgree
  <2> QED
    BY <1>3, <2>1, <2>2
<1>8. ASSUME Converting(s), wrong' = wrong, \A t \in Slots \ {s} : call'[t] = call[t], ~ Converting(s)'
      PROVE  ConversionsAgree'
  <2>1. ASSUME NEW t \in Slots, Converting(t)', ~ call'[t].mixed
        PROVE  FALSE
    <3>1. t # s /\ Converting(t) /\ ~ call[t].mixed
      BY <1>8, <2>1 DEF Converting
    <3>2. \A r \in Slots \ {t} : ~ Converting(r)
      BY <3>1 DEF IInv, ConversionsAgree
    <3> QED
      BY <1>8, <3>1, <3>2
  <2>2. wrong' = {}
    BY <1>8 DEF IInv, ConversionsAgree
  <2> QED
    BY <2>1, <2>2 DEF ConversionsAgree
<1>9. CASE Adc_TimesOut(s)
  <2>1. /\ call[s].at = "wait" /\ ~ done /\ running = NoDev /\ Returns(s) /\ Converting(s)
        /\ wrong' = IF call[s].mixed THEN wrong ELSE wrong \cup {s}
        /\ UNCHANGED <<claimed, up>> /\ call[s].at \in Steps
    BY <1>9 DEF Adc_TimesOut, Is, Converting, Steps
  <2>2. Channel(s) # NoDev
    <3>1. call[s].dev \in Adcs
      BY <2>1, CallRecord
    <3>2. call[s].dev # NoDev
      BY <3>1, KindsAreApart
    <3> QED
      BY <3>2, AdcAssumption DEF Channel
  <2>3. call[s].mixed
    BY <2>1, <2>2 DEF IInv, ConversionsAgree
  <2> QED
    BY <1>8, <2>1, <2>3, AdcReturns
<1>10. CASE Adc_Reads(s)
  <2>1. /\ call[s].at = "data" /\ Converting(s) /\ UNCHANGED <<claimed, up>> /\ call[s].at \in Steps
        /\ wrong' = IF value # Channel(s) /\ ~ call[s].mixed THEN wrong \cup {s} ELSE wrong
        /\ \/ Returns(s)
           \/ call' = [call EXCEPT ![s].at = "select", ![s].left = 2]
    BY <1>10 DEF Adc_Reads, Is, Converting, Steps
  <2>2. wrong' = wrong
    BY <2>1 DEF IInv, ConversionsAgree
  <2>3. CASE Returns(s)
    BY <1>8, <2>1, <2>2, <2>3, AdcReturns
  <2>4. CASE call' = [call EXCEPT ![s].at = "select", ![s].left = 2]
    <3>1. call'[s] = [call[s] EXCEPT !.at = "select", !.left = 2]
      BY <2>4, CallRecord
    <3>2. call'[s] = [at |-> "select", dev |-> call[s].dev, left |-> 2, mixed |-> call[s].mixed]
      BY <3>1, CallRecord
    <3>3. DOMAIN call' = Slots /\ \A t \in Slots \ {s} : call'[t] = call[t]
      BY <2>4, CallRecord
    <3>4. GoesOnConverting(s, "select", 2, call[s].mixed) /\ ~ Converting(s)'
      BY <3>2, <3>3 DEF GoesOnConverting, Converting, Steps
    <3> QED
      BY <1>8, <2>1, <2>2, <3>3, <3>4, GoesOnMoves
  <2> QED
    BY <2>1, <2>3, <2>4
<1> QED
  BY <1>1, <1>2, <1>4, <1>5, <1>6, <1>7, <1>9, <1>10 DEF AdcCall

LEMMA AdcCallKeepsIInv ==
  ASSUME IInv, NEW s \in Slots, AdcCall(s), UNCHANGED <<slotVars, sup, conf, uartVars, busVars>>
  PROVE  IInv'
<1>1. /\ UNCHANGED <<res, alive, catalog, sup, conf, bopen, wire, spi, claimed, up, uopen, irq>>
      /\ CallsMove /\ ConversionsAgree'
      /\ \A t \in Slots : call[t].dev \in Buses => call'[t].dev = call[t].dev
  BY AdcCallAgrees DEF slotVars, uartVars, rings, busVars
<1>2. SlotsTyped' /\ ClaimsApart' /\ OpensAgree' /\ LinesAgree' /\ CallsAgree'
  BY <1>1, CallsKeepSlots DEF SlotsStay
<1>3. DriversTyped'
  <2>1. done' \in BOOLEAN
    BY DEF IInv, DriversTyped, AdcCall, Adc_Begins, Adc_Selects, Adc_Clears, Adc_Triggers,
        Adc_SeesFlag, Adc_TimesOut, Adc_Stops, Adc_Reads, adcVars
  <2> QED
    BY <1>1, <2>1 DEF IInv, DriversTyped
<1> QED
  BY <1>1, <1>2, <1>3, WiresStay, ConfStays, SpiStays DEF IInv

\* The end of a conversion that was alone finds its module waiting for it.
LEMMA CompletesKeepsIInv ==
  ASSUME IInv, AdcCompletes, UNCHANGED <<slotVars, sup, conf, uartVars, busVars>>
  PROVE  IInv'
<1>1. /\ UNCHANGED <<res, alive, catalog, sup, conf, bopen, wire, spi, claimed, up, uopen, irq, call, sel, wrong>>
      /\ running # NoDev /\ value' = running /\ done' = TRUE /\ running' = NoDev
  BY DEF AdcCompletes, slotVars, uartVars, rings, busVars
<1>2. CallsMove
  BY <1>1 DEF IInv, SlotsTyped, CallsMove
<1>3. SlotsTyped' /\ ClaimsApart' /\ OpensAgree' /\ LinesAgree' /\ CallsAgree'
  BY <1>1, <1>2, CallsKeepSlots DEF SlotsStay
<1>4. DriversTyped'
  BY <1>1 DEF IInv, DriversTyped
<1>5. ConversionsAgree'
  BY <1>1 DEF IInv, ConversionsAgree, Converting, Channel
<1> QED
  BY <1>1, <1>3, <1>4, <1>5, WiresStay, ConfStays, SpiStays DEF IInv

-----------------------------------------------------------------------------
(* The interrupts, the pins, and a step of nothing. *)

LEMMA NothingKeepsIInv ==
  ASSUME IInv, UNCHANGED <<res, alive, catalog, sup, conf, bopen, wire, spi, claimed, up, uopen, irq, call, sel,
                           wrong, running, done, value>>
  PROVE  IInv'
<1>1. CallsMove
  BY DEF IInv, SlotsTyped, CallsMove
<1>2. SlotsTyped' /\ ClaimsApart' /\ OpensAgree' /\ LinesAgree' /\ CallsAgree'
  BY <1>1, CallsKeepSlots DEF SlotsStay
<1>3. DriversTyped'
  BY DEF IInv, DriversTyped
<1>4. \A t \in Slots : Converting(t) \/ Converting(t)' => call'[t] = call[t]
  OBVIOUS
<1> QED
  BY <1>2, <1>3, <1>4, WiresStay, ConversionsStay, ConfStays, SpiStays DEF IInv

LEMMA InterruptsKeepIInv ==
  ASSUME IInv, NEW p \in Periphs, Byte(p) \/ Isr(p), UNCHANGED <<slotVars, sup, conf, call, busVars, adcVars>>
  PROVE  IInv'
<1>1. UNCHANGED <<uopen, irq>>
  BY DEF Byte, Isr, Serve, uartVars, rings
<1> QED
  BY <1>1, NothingKeepsIInv DEF slotVars, busVars, adcVars

\* A module's pins are no other module's and no device's.
LEMMA GpioKeepsIInv ==
  ASSUME IInv, NEW s \in Slots, NEW g \in Gpios, Gpio_Sets(s, g)
  PROVE  IInv'
<1>1. /\ UNCHANGED <<res, alive, catalog, sup, bopen, wire, spi, claimed, up, uopen, irq, call, sel,
                     wrong, running, done, value>>
      /\ Declared(s, g) /\ alive[s]
      /\ conf' = [pin \in Pins |-> IF pin \in PinsOf[g] THEN g ELSE conf[pin]]
  BY DEF Gpio_Sets, Set, slotVars, uartVars, rings, busVars, adcVars
<1>2. CallsMove
  BY <1>1 DEF IInv, SlotsTyped, CallsMove
<1>3. SlotsTyped' /\ ClaimsApart' /\ OpensAgree' /\ LinesAgree' /\ CallsAgree'
  BY <1>1, <1>2, CallsKeepSlots DEF SlotsStay
<1>4. g \in Devs /\ g \notin Spis /\ g \notin Adcs
  BY KindsAreApart
<1>5. DriversTyped'
  <2>1. conf' \in [Pins -> Devs \cup {Default}]
    BY <1>1, <1>4 DEF IInv, DriversTyped
  <2> QED
    BY <1>1, <2>1 DEF IInv, DriversTyped
<1>6. ConfAgrees'
  <2>1. /\ \A d : Open(d)' <=> Open(d)
        /\ \A t, d : Declared(t, d)' <=> Declared(t, d)
        /\ Dev' = Dev
    BY <1>1 DEF Open, Declared, Dev
  <2>2. ASSUME NEW d \in Devs \ Gpios, Open(d) PROVE PinsOf[d] \cap PinsOf[g] = {}
    BY <1>1, <2>2, OpenPins DEF IInv
  <2>3. ASSUME sup.at \in {"irq", "open"} PROVE PinsOf[Dev] \cap PinsOf[g] = {}
    <3>1. sup.slot \in Slots /\ sup.i \in DOMAIN res[sup.slot] /\ Dev = res[sup.slot][sup.i] /\ Dev # g
      BY <2>3, DeclaredIsDev, KindsAreApart DEF IInv, SlotsTyped, OpensAgree, JobAgrees,
          AtDev, Dev, Claiming
    <3>2. PICK j \in DOMAIN res[s] : res[s][j] = g
      BY <1>1 DEF Declared
    <3> QED
      BY <3>1, <3>2, OneDeclaration DEF IInv
  <2> SUFFICES ASSUME NEW pin \in Pins
               PROVE  /\ \A d \in Devs \ Gpios : Open(d) /\ pin \in PinsOf[d] => conf'[pin] = d
                      /\ sup.at \in {"irq", "open"} /\ pin \in PinsOf[Dev] => conf'[pin] = Dev
                      /\ conf'[pin] \in Spis \cup Adcs => Open(conf'[pin]) /\ pin \in PinsOf[conf'[pin]]
                      /\ conf'[pin] \in Gpios => /\ pin \in PinsOf[conf'[pin]]
                                                 /\ \E t \in Slots : Declared(t, conf'[pin])
    <3>1. \A pin \in Pins : /\ Open(conf[pin])' <=> Open(conf'[pin])
                            /\ \A t \in Slots : Declared(t, conf[pin])' <=> Declared(t, conf'[pin])
      BY <1>1 DEF Open, Declared
    <3> QED
      BY <1>1, <2>1, <3>1 DEF ConfAgrees
  <2>4. CASE pin \in PinsOf[g]
    BY <1>1, <1>4, <2>2, <2>3, <2>4
  <2>5. CASE pin \notin PinsOf[g]
    BY <1>1, <2>5 DEF IInv, ConfAgrees
  <2> QED
    BY <2>4, <2>5
<1> QED
  BY <1>1, <1>3, <1>5, <1>6, WiresStay, ConversionsStay, SpiStays DEF IInv

-----------------------------------------------------------------------------
(* The supervisor goes from one declaration to the next. *)

LEMMA AtDeclaration ==
  ASSUME IInv, AtDev(sup.at), Claiming \/ Releasing
  PROVE  /\ sup.slot \in Slots /\ sup.i \in DOMAIN res[sup.slot] /\ sup.i \in Nat
         /\ Dev = res[sup.slot][sup.i] /\ Dev \in Devs /\ Declared(sup.slot, Dev)
         /\ DOMAIN res[sup.slot] = 1 .. Len(res[sup.slot]) /\ Len(res[sup.slot]) \in Nat
         /\ sup = [at |-> sup.at, slot |-> sup.slot, i |-> sup.i, next |-> sup.next]
<1>1. sup.slot \in Slots /\ sup.i \in 1 .. Len(res[sup.slot]) + 1 /\ sup.i <= Len(res[sup.slot])
  BY DEF IInv, SlotsTyped, AtDev
<1>2. /\ DOMAIN res[sup.slot] = 1 .. Len(res[sup.slot]) /\ Len(res[sup.slot]) \in Nat
  BY <1>1, DeclaredIsDev
<1>3. sup.i \in DOMAIN res[sup.slot] /\ sup.i \in Nat
  BY <1>1, <1>2
<1> QED
  BY <1>1, <1>2, <1>3, DeclaredIsDev DEF IInv, Dev, SlotsTyped

\* A claim is done with: its device is open, or there was nothing to open.
LEMMA ClaimAdvances ==
  ASSUME IInv, sup.at \in {"claim", "open"}, AtDev(sup.at), NEW opened \in BOOLEAN,
         sup' = [at |-> "claim", slot |-> sup.slot, i |-> sup.i + 1, next |-> sup.next],
         UNCHANGED <<res, alive, catalog, call>>,
         \A d : Open(d)' <=> Open(d) \/ (d = Dev /\ opened),
         opened \/ Dev \in Gpios \/ Open(Dev) \/ (Dev \in Uarts /\ UartClaimRefuses(Dev))
  PROVE  SlotsTyped' /\ ClaimsApart' /\ OpenIsHeld' /\ HeldIsOpen' /\ JobAgrees' /\ CallsAgree'
<1>1. /\ sup.slot \in Slots /\ sup.i \in DOMAIN res[sup.slot] /\ sup.i \in Nat /\ Claiming
      /\ Dev = res[sup.slot][sup.i] /\ DOMAIN res[sup.slot] = 1 .. Len(res[sup.slot])
      /\ Len(res[sup.slot]) \in Nat
  BY AtDeclaration DEF Claiming
<1>2. /\ sup'.at = "claim" /\ sup'.slot = sup.slot /\ sup'.i = sup.i + 1 /\ sup'.next = sup.next
      /\ sup' = [at |-> sup'.at, slot |-> sup'.slot, i |-> sup'.i, next |-> sup'.next]
  OBVIOUS
<1>3. SlotsTyped'
  <2>1. sup.i + 1 \in 1 .. Len(res[sup.slot]) + 1
    BY <1>1
  <2> QED
    BY <1>1, <1>2, <2>1 DEF IInv, SlotsTyped, Kinds
<1>4. ClaimsApart'
  BY <1>2 DEF IInv, ClaimsApart, Releasing
<1>5. ASSUME NEW s \in Slots, NEW j \in DOMAIN res[s]
      PROVE  Reached(s, j)' <=> Reached(s, j) \/ (s = sup.slot /\ j = sup.i)
  <2>1. s = sup.slot => (j < sup.i + 1 <=> j < sup.i \/ j = sup.i)
    BY <1>1
  <2> QED
    BY <1>1, <1>2, <2>1 DEF Reached, Claiming, Releasing
<1>6. OpenIsHeld'
  <2> SUFFICES ASSUME NEW d \in Devs \ Gpios, Open(d)'
               PROVE  \E s \in Slots : \E j \in DOMAIN res[s] : res[s][j] = d /\ Reached(s, j)'
    BY DEF OpenIsHeld, HeldOpen
  <2>1. CASE d = Dev
    BY <1>1, <1>5, <2>1
  <2>2. CASE d # Dev
    <3>1. HeldOpen(d) /\ ~ Shelling
      BY <1>1, <2>2 DEF IInv, OpensAgree, OpenIsHeld, Shelling
    <3> QED
      BY <1>5, <3>1 DEF HeldOpen
  <2> QED
    BY <2>1, <2>2
<1>7. HeldIsOpen'
  <2> SUFFICES ASSUME NEW s \in Slots, NEW j \in DOMAIN res[s], res[s][j] \notin Gpios, Reached(s, j)'
               PROVE  Open(res[s][j])' \/ \E v \in Uarts \ {res[s][j]} : PeriphOf[v] = PeriphOf[res[s][j]]
    BY DEF HeldIsOpen
  <2>1. CASE Reached(s, j)
    <3>1. Open(res[s][j]) \/ \E v \in Uarts \ {res[s][j]} : PeriphOf[v] = PeriphOf[res[s][j]]
      BY <2>1 DEF IInv, OpensAgree, HeldIsOpen
    <3>2. Open(res[s][j]) => Open(res[s][j])'
      OBVIOUS
    <3> QED
      BY <3>1, <3>2
  <2>2. CASE s = sup.slot /\ j = sup.i
    <3>1. res[s][j] = Dev
      BY <1>1, <2>2
    <3>2. Open(Dev) \/ opened => Open(res[s][j])'
      BY <3>1
    <3>3. Dev \in Uarts /\ UartClaimRefuses(Dev) =>
            Open(Dev) \/ \E v \in Uarts \ {Dev} : PeriphOf[v] = PeriphOf[Dev]
      BY DEF UartClaimRefuses, OtherMappingOpen, Open
    <3> QED
      BY <3>1, <3>2, <3>3
  <2> QED
    BY <1>5, <2>1, <2>2
<1>8. JobAgrees'
  BY <1>2 DEF JobAgrees, Shelling
<1>9. CallsAgree'
  <2>1. ~ Releasing'
    BY <1>2 DEF Releasing
  <2>2. \A t \in Slots : call[t] # NoCall => alive[t] /\ Declared(t, call[t].dev) /\ Open(call[t].dev)
    BY DEF IInv, CallsAgree
  <2>3. \A t \in Slots : /\ Open(call[t].dev) => Open(call[t].dev)'
                         /\ Declared(t, call[t].dev)' <=> Declared(t, call[t].dev)
    BY DEF Declared
  <2> QED
    BY <2>1, <2>2, <2>3 DEF CallsAgree
<1> QED
  BY <1>3, <1>4, <1>6, <1>7, <1>8, <1>9

\* No module is in a call for a device of the slot that is being released.
LEMMA NoCallForReleased ==
  ASSUME IInv, Releasing, AtDev(sup.at), NEW t \in Slots, call[t] # NoCall
  PROVE  call[t].dev # Dev
<1>1. ~ alive[sup.slot] /\ sup.slot \in Slots /\ Declared(sup.slot, Dev)
  BY AtDeclaration DEF IInv, CallsAgree
<1>2. alive[t] /\ Declared(t, call[t].dev)
  BY DEF IInv, CallsAgree
<1> QED
  BY <1>1, <1>2, OneSlotDeclares DEF IInv

\* A release is done with: its device is not open.
LEMMA ReleaseAdvances ==
  ASSUME IInv, Releasing, AtDev(sup.at),
         sup' = [at |-> "release", slot |-> sup.slot, i |-> sup.i + 1, next |-> sup.next],
         UNCHANGED <<res, alive, catalog, call>>,
         \A d : Open(d)' <=> Open(d) /\ d # Dev
  PROVE  SlotsTyped' /\ ClaimsApart' /\ OpenIsHeld' /\ HeldIsOpen' /\ JobAgrees' /\ CallsAgree'
<1>1. /\ sup.slot \in Slots /\ sup.i \in DOMAIN res[sup.slot] /\ sup.i \in Nat
      /\ Dev = res[sup.slot][sup.i] /\ DOMAIN res[sup.slot] = 1 .. Len(res[sup.slot])
      /\ Len(res[sup.slot]) \in Nat
  BY AtDeclaration
<1>2. /\ sup'.at = "release" /\ sup'.slot = sup.slot /\ sup'.i = sup.i + 1 /\ sup'.next = sup.next
      /\ sup' = [at |-> sup'.at, slot |-> sup'.slot, i |-> sup'.i, next |-> sup'.next]
  OBVIOUS
<1>3. SlotsTyped'
  <2>1. sup.i + 1 \in 1 .. Len(res[sup.slot]) + 1
    BY <1>1
  <2> QED
    BY <1>1, <1>2, <2>1 DEF IInv, SlotsTyped, Kinds
<1>4. ClaimsApart'
  BY <1>2 DEF IInv, ClaimsApart
<1>5. ASSUME NEW s \in Slots, NEW j \in DOMAIN res[s]
      PROVE  Reached(s, j)' <=> Reached(s, j) /\ (s # sup.slot \/ j # sup.i)
  <2>1. s = sup.slot => (j >= sup.i + 1 <=> j >= sup.i /\ j # sup.i)
    BY <1>1
  <2> QED
    BY <1>1, <1>2, <2>1 DEF Reached, Claiming, Releasing
<1>6. OpenIsHeld'
  <2> SUFFICES ASSUME NEW d \in Devs \ Gpios, Open(d)'
               PROVE  \E s \in Slots : \E j \in DOMAIN res[s] : res[s][j] = d /\ Reached(s, j)'
    BY DEF OpenIsHeld, HeldOpen
  <2>1. HeldOpen(d) /\ ~ Shelling /\ d # Dev
    BY <1>1 DEF IInv, OpensAgree, OpenIsHeld, Releasing, Shelling
  <2> QED
    BY <1>1, <1>5, <2>1 DEF HeldOpen
<1>7. HeldIsOpen'
  <2> SUFFICES ASSUME NEW s \in Slots, NEW j \in DOMAIN res[s], res[s][j] \notin Gpios, Reached(s, j)'
               PROVE  Open(res[s][j])' \/ \E v \in Uarts \ {res[s][j]} : PeriphOf[v] = PeriphOf[res[s][j]]
    BY DEF HeldIsOpen
  <2>1. Reached(s, j) /\ res[s][j] # Dev
    BY <1>1, <1>5, OneHolder DEF IInv
  <2>2. Open(res[s][j]) \/ \E v \in Uarts \ {res[s][j]} : PeriphOf[v] = PeriphOf[res[s][j]]
    BY <2>1 DEF IInv, OpensAgree, HeldIsOpen
  <2>3. Open(res[s][j]) => Open(res[s][j])'
    BY <2>1
  <2> QED
    BY <2>2, <2>3
<1>8. JobAgrees'
  BY <1>2 DEF JobAgrees, Shelling
<1>9. CallsAgree'
  <2>1. ~ alive'[sup'.slot]
    BY <1>2 DEF IInv, CallsAgree
  <2>2. \A t \in Slots : call[t] # NoCall => alive[t] /\ Declared(t, call[t].dev) /\ Open(call[t].dev)
    BY DEF IInv, CallsAgree
  <2>3. \A t \in Slots : /\ call[t] # NoCall /\ Open(call[t].dev) => Open(call[t].dev)'
                         /\ Declared(t, call[t].dev)' <=> Declared(t, call[t].dev)
    BY NoCallForReleased DEF Declared
  <2> QED
    BY <2>1, <2>2, <2>3 DEF CallsAgree
<1> QED
  BY <1>3, <1>4, <1>6, <1>7, <1>8, <1>9

\* The configuration follows when a declared device that is not open gets its
\* pins, and when an open one gives them back.
LEMMA ConfGains ==
  ASSUME IInv, NEW s \in Slots, NEW e \in Devs \ Gpios, Declared(s, e), ~ Open(e), UNCHANGED res,
         Set(PinsOf[e], e), sup'.at \in {"irq", "open"} => Dev' = e,
         sup.at \notin {"irq", "open"},
         \A d : (Open(d) => Open(d)') /\ (Open(d)' => Open(d) \/ d = e),
         e \in Spis \cup Adcs => Open(e)'
  PROVE  ConfAgrees' /\ conf' \in [Pins -> Devs \cup {Default}]
<1>1. conf' = [pin \in Pins |-> IF pin \in PinsOf[e] THEN e ELSE conf[pin]]
  BY DEF Set
<1>2. conf' \in [Pins -> Devs \cup {Default}]
  BY <1>1 DEF IInv, DriversTyped
<1>3. ASSUME NEW d \in Devs \ Gpios, Open(d) PROVE PinsOf[d] \cap PinsOf[e] = {}
  BY <1>3, OpenPins DEF IInv
<1> SUFFICES ASSUME NEW pin \in Pins, NEW c, c = conf'[pin]
             PROVE  /\ \A d \in Devs \ Gpios : Open(d)' /\ pin \in PinsOf[d] => c = d
                    /\ sup'.at \in {"irq", "open"} /\ pin \in PinsOf[e] => c = e
                    /\ c \in Spis \cup Adcs => Open(c)' /\ pin \in PinsOf[c]
                    /\ c \in Gpios => pin \in PinsOf[c] /\ \E t \in Slots : Declared(t, c)
  <2>1. \A q \in Pins : \A c : c = conf'[q] => (Open(c)' <=> Open(conf[q])')
    OBVIOUS
  <2>2. \A q \in Pins : \A c : c = conf'[q] => \A t \in Slots : Declared(t, conf[q])' <=> Declared(t, c)
    BY DEF Declared
  <2> QED
    BY <1>2, <2>1, <2>2 DEF ConfAgrees
<1>4. CASE pin \in PinsOf[e]
  <2>1. c = e
    BY <1>1, <1>4
  <2>2. \A d \in Devs \ Gpios : Open(d)' /\ pin \in PinsOf[d] => d = e
    BY <1>3, <1>4
  <2> QED
    BY <1>4, <2>1, <2>2
<1>5. CASE pin \notin PinsOf[e]
  <2>1. c = conf[pin]
    BY <1>1, <1>5
  <2>2. /\ \A d \in Devs \ Gpios : Open(d) /\ pin \in PinsOf[d] => c = d
        /\ c \in Spis \cup Adcs => Open(c) /\ pin \in PinsOf[c]
        /\ c \in Gpios => pin \in PinsOf[c] /\ \E t \in Slots : Declared(t, c)
    BY <2>1 DEF IInv, ConfAgrees
  <2> QED
    BY <1>5, <2>2
<1> QED
  BY <1>2, <1>4, <1>5

\* What is left of the invariant when a step of the supervisor touches little.
LEMMA ConfKeeps ==
  ASSUME IInv, UNCHANGED <<conf, res>>,
         sup'.at \in {"irq", "open"} => sup.at \in {"irq", "open"} /\ Dev' = Dev,
         \A d \in Devs \ Gpios : Open(d)' => Open(d) \/ \A pin \in PinsOf[d] \cap Pins : conf[pin] = d,
         \A d \in Spis \cup Adcs : Open(d) => Open(d)'
  PROVE  ConfAgrees'
<1> SUFFICES ASSUME NEW pin \in Pins, NEW c, c = conf[pin]
             PROVE  /\ \A d \in Devs \ Gpios : Open(d)' /\ pin \in PinsOf[d] => c = d
                    /\ sup'.at \in {"irq", "open"} /\ pin \in PinsOf[Dev] => c = Dev
                    /\ c \in Spis \cup Adcs => Open(c)' /\ pin \in PinsOf[c]
                    /\ c \in Gpios => pin \in PinsOf[c] /\ \E t \in Slots : Declared(t, c)
  <2>1. \A q \in Pins : \A c : c = conf[q] => (Open(c)' <=> Open(conf[q])')
    OBVIOUS
  <2>2. \A q \in Pins : \A c : c = conf[q] => \A t \in Slots : Declared(t, conf[q])' <=> Declared(t, c)
    BY DEF Declared
  <2> QED
    BY <2>1, <2>2 DEF ConfAgrees
<1>1. /\ \A d \in Devs \ Gpios : Open(d) /\ pin \in PinsOf[d] => c = d
      /\ sup.at \in {"irq", "open"} /\ pin \in PinsOf[Dev] => c = Dev
      /\ c \in Spis \cup Adcs => Open(c) /\ pin \in PinsOf[c]
      /\ c \in Gpios => pin \in PinsOf[c] /\ \E t \in Slots : Declared(t, c)
  BY DEF IInv, ConfAgrees
<1> QED
  BY <1>1

LEMMA WiresKeep ==
  ASSUME IInv, UNCHANGED call, ~ Shelling, DOMAIN wire' = Buses,
         \A b \in Buses : \/ wire'[b] = "idle"
                          \/ /\ wire'[b] = wire[b] /\ (bopen[b] => bopen'[b])
                             /\ bopen[b] /\ Waits(b) => Waits(b)'
  PROVE  WiresAgree'
<1> SUFFICES ASSUME NEW b \in Buses
             PROVE  WireAgrees(b)'
  BY DEF WiresAgree
<1>1. WireAgrees(b)
  BY DEF IInv, WiresAgree
<1> QED
  BY <1>1 DEF WireAgrees

LEMMA SpiKeeps ==
  ASSUME IInv, UNCHANGED spi,
         \A b \in Spis : bopen'[b] => bopen[b] /\ \A s : Declared(s, b) => Declared(s, b)'
  PROVE  SpiIsAsItsOwnerSetIt'
<1> SUFFICES ASSUME NEW b \in Spis, bopen'[b]
             PROVE  /\ spi[b].by # NoDev => Declared(spi[b].by, b)'
                    /\ spi[b].by = NoDev => spi[b].mode = 0 /\ spi[b].asked = SpiDefault
                    /\ \/ spi[b].hz <= spi[b].asked
                       \/ \A d \in Divs : spi[b].hz <= PClk \div d
  BY DEF SpiIsAsItsOwnerSetIt
<1>1. bopen[b] /\ (Declared(spi[b].by, b) => Declared(spi[b].by, b)')
  OBVIOUS
<1> QED
  BY <1>1 DEF IInv, SpiIsAsItsOwnerSetIt

LEMMA NextDeclaration ==
  ASSUME IInv
  PROVE  /\ sup' = [sup EXCEPT !.i = @ + 1] =>
              sup' = [at |-> sup.at, slot |-> sup.slot, i |-> sup.i + 1, next |-> sup.next]
         /\ \A at : sup' = [sup EXCEPT !.at = at] =>
              sup' = [at |-> at, slot |-> sup.slot, i |-> sup.i, next |-> sup.next]
         /\ \A at : sup' = [sup EXCEPT !.at = at, !.i = @ + 1] =>
              sup' = [at |-> at, slot |-> sup.slot, i |-> sup.i + 1, next |-> sup.next]
<1>1. sup = [at |-> sup.at, slot |-> sup.slot, i |-> sup.i, next |-> sup.next]
  BY DEF IInv, SlotsTyped
<1> QED
  BY <1>1

LEMMA ClaimNothingKeepsIInv ==
  ASSUME IInv, Claim_Nothing
  PROVE  IInv'
<1>1. /\ UNCHANGED <<res, alive, catalog, call, conf, bopen, wire, spi, claimed, up, uopen, irq, sel,
                     running, done, value, wrong>>
      /\ sup.at = "claim" /\ AtDev(sup.at)
      /\ Dev \in Gpios \/ Open(Dev) \/ (Dev \in Uarts /\ UartClaimRefuses(Dev))
      /\ sup' = [at |-> "claim", slot |-> sup.slot, i |-> sup.i + 1, next |-> sup.next]
  BY NextDeclaration DEF Claim_Nothing, slotVars, uartVars, rings, busVars, adcVars, AtDev,
      GoesOn
<1>2. \A d : Open(d)' <=> Open(d)
  BY <1>1 DEF Open
<1>3. SlotsTyped' /\ ClaimsApart' /\ OpenIsHeld' /\ HeldIsOpen' /\ JobAgrees' /\ CallsAgree'
  <2>1. PICK opened \in BOOLEAN : opened = FALSE
    OBVIOUS
  <2> QED
    BY <1>1, <1>2, <2>1, ClaimAdvances
<1>4. DriversTyped' /\ OneMapping' /\ LinesAgree'
  BY <1>1 DEF IInv, DriversTyped, OpensAgree, OneMapping, LinesAgree
<1>5. ConfAgrees'
  BY <1>1, <1>2, ConfKeeps
<1>6. WiresAgree'
  BY <1>1, WiresKeep DEF IInv, DriversTyped, Shelling, Waits, Releasing
<1>7. SpiIsAsItsOwnerSetIt' /\ ConversionsAgree'
  BY <1>1, SpiStays, ConversionsStay
<1> QED
  BY <1>3, <1>4, <1>5, <1>6, <1>7 DEF IInv, OpensAgree

\* A bus is at the defaults when it has just been claimed.
LEMMA SpiClaimed ==
  ASSUME IInv, NEW e \in Buses, UNCHANGED <<res, wire>>, bopen' = [bopen EXCEPT ![e] = TRUE],
         spi' = IF e \in Spis THEN [spi EXCEPT ![e] = Applied(0, SpiDefault, NoDev)] ELSE spi
  PROVE  /\ SpiIsAsItsOwnerSetIt' /\ DOMAIN spi' = Spis
         /\ \A c \in Spis : spi'[c] = [mode |-> spi'[c].mode, hz |-> spi'[c].hz, asked |-> spi'[c].asked,
                                       by |-> spi'[c].by]
<1>1. DOMAIN spi = Spis /\ bopen \in [Buses -> BOOLEAN] /\ Spis \subseteq Buses
  BY DEF IInv, DriversTyped, Buses
<1>2. CASE e \notin Spis
  BY <1>1, <1>2 DEF IInv, SpiIsAsItsOwnerSetIt, Declared, DriversTyped
<1>3. CASE e \in Spis
  <2> DEFINE r == [mode |-> 0, hz |-> PClk \div DivFor(SpiDefault), asked |-> SpiDefault, by |-> NoDev]
  <2>1. \/ r.hz <= r.asked
        \/ \A d \in Divs : r.hz <= PClk \div d
    BY BusAssumption, DivForIsSlow
  <2>2. /\ r.by = NoDev /\ r.mode = 0 /\ r.asked = SpiDefault
        /\ r = [mode |-> r.mode, hz |-> r.hz, asked |-> r.asked, by |-> r.by]
        /\ spi' = [spi EXCEPT ![e] = r]
    BY <1>3 DEF Applied
  <2> HIDE DEF r
  <2>3. DOMAIN spi' = Spis /\ spi'[e] = r /\ \A c \in Spis \ {e} : spi'[c] = spi[c] /\ (bopen'[c] <=> bopen[c])
    BY <1>1, <1>3, <2>2
  <2>4. SpiIsAsItsOwnerSetIt'
    BY <2>1, <2>2, <2>3 DEF IInv, SpiIsAsItsOwnerSetIt, Declared
  <2>5. \A c \in Spis \ {e} : spi[c] = [mode |-> spi[c].mode, hz |-> spi[c].hz, asked |-> spi[c].asked,
                                        by |-> spi[c].by]
    BY DEF IInv, DriversTyped
  <2>6. \A c \in Spis \ {e} : spi'[c] = [mode |-> spi'[c].mode, hz |-> spi'[c].hz, asked |-> spi'[c].asked,
                                         by |-> spi'[c].by]
    BY <2>3, <2>5
  <2>7. spi'[e] = [mode |-> spi'[e].mode, hz |-> spi'[e].hz, asked |-> spi'[e].asked, by |-> spi'[e].by]
    BY <2>2, <2>3
  <2> QED
    BY <2>3, <2>4, <2>6, <2>7
<1> QED
  BY <1>2, <1>3

LEMMA ClaimBusKeepsIInv ==
  ASSUME IInv, Claim_Bus
  PROVE  IInv'
<1>1. PICK e \in Buses : e = Dev
  BY DEF Claim_Bus
<1>2. /\ UNCHANGED <<res, alive, catalog, call, wire, claimed, up, uopen, irq, sel, running, done, value, wrong>>
      /\ sup.at = "claim" /\ AtDev(sup.at) /\ ~ bopen[e] /\ bopen' = [bopen EXCEPT ![e] = TRUE]
      /\ spi' = IF e \in Spis THEN [spi EXCEPT ![e] = Applied(0, SpiDefault, NoDev)] ELSE spi
      /\ Set(PinsOf[e], e)
      /\ sup' = [at |-> "claim", slot |-> sup.slot, i |-> sup.i + 1, next |-> sup.next]
  BY <1>1, NextDeclaration DEF Claim_Bus, BusClaim, slotVars, uartVars, rings, adcVars,
      AtDev, GoesOn
<1>3. e \in Devs \ Gpios /\ e \notin Uarts /\ e \notin Adcs /\ ~ Open(e) /\ bopen \in [Buses -> BOOLEAN]
  BY <1>2, KindsAreApart DEF Open, IInv, DriversTyped
<1>4. bopen' \in [Buses -> BOOLEAN] /\ bopen'[e] /\ \A b \in Buses \ {e} : bopen'[b] = bopen[b]
  BY <1>2, <1>3
<1>5. \A d : Open(d)' <=> Open(d) \/ d = e
  BY <1>2, <1>3, <1>4 DEF Open
<1>6. SlotsTyped' /\ ClaimsApart' /\ OpenIsHeld' /\ HeldIsOpen' /\ JobAgrees' /\ CallsAgree'
  <2>1. PICK opened \in BOOLEAN : opened = TRUE
    OBVIOUS
  <2> QED
    BY <1>1, <1>2, <1>5, <2>1, ClaimAdvances
<1>7. ConfAgrees' /\ conf' \in [Pins -> Devs \cup {Default}]
  <2>1. sup.slot \in Slots /\ Declared(sup.slot, e)
    BY <1>1, <1>2, AtDeclaration DEF Claiming
  <2> QED
    BY <1>2, <1>3, <1>5, <2>1, ConfGains
<1>8. SpiIsAsItsOwnerSetIt' /\ DriversTyped'
  BY <1>2, <1>4, <1>7, SpiClaimed DEF IInv, DriversTyped
<1>9. OneMapping' /\ LinesAgree'
  BY <1>2 DEF IInv, OpensAgree, OneMapping, LinesAgree
<1>10. WiresAgree'
  BY <1>2, <1>4, WiresKeep DEF IInv, DriversTyped, Shelling, Waits, Releasing
<1>11. ConversionsAgree'
  BY <1>2, ConversionsStay
<1> QED
  BY <1>6, <1>7, <1>8, <1>9, <1>10, <1>11 DEF IInv, OpensAgree

LEMMA ClaimAdcKeepsIInv ==
  ASSUME IInv, Claim_Adc
  PROVE  IInv'
<1>1. PICK e \in Adcs : e = Dev
  BY DEF Claim_Adc
<1>2. /\ UNCHANGED <<res, alive, catalog, call, wire, bopen, spi, uopen, irq, sel, running, done, value, wrong>>
      /\ sup.at = "claim" /\ AtDev(sup.at) /\ ~ claimed[e] /\ claimed' = [claimed EXCEPT ![e] = TRUE]
      /\ up' = TRUE
      /\ Set(PinsOf[e], e)
      /\ sup' = [at |-> "claim", slot |-> sup.slot, i |-> sup.i + 1, next |-> sup.next]
  BY <1>1, NextDeclaration DEF Claim_Adc, AdcClaim, slotVars, uartVars, rings, busVars,
      AtDev, GoesOn
<1>3. e \in Devs \ Gpios /\ e \notin Uarts /\ e \notin Buses /\ ~ Open(e) /\ claimed \in [Adcs -> BOOLEAN]
  BY <1>2, KindsAreApart DEF Open, IInv, DriversTyped
<1>4. claimed' \in [Adcs -> BOOLEAN] /\ claimed'[e] /\ \A b \in Adcs \ {e} : claimed'[b] = claimed[b]
  BY <1>2, <1>3
<1>5. \A d : Open(d)' <=> Open(d) \/ d = e
  BY <1>2, <1>3, <1>4 DEF Open
<1>6. SlotsTyped' /\ ClaimsApart' /\ OpenIsHeld' /\ HeldIsOpen' /\ JobAgrees' /\ CallsAgree'
  <2>1. PICK opened \in BOOLEAN : opened = TRUE
    OBVIOUS
  <2> QED
    BY <1>1, <1>2, <1>5, <2>1, ClaimAdvances
<1>7. ConfAgrees' /\ conf' \in [Pins -> Devs \cup {Default}]
  <2>1. sup.slot \in Slots /\ Declared(sup.slot, e)
    BY <1>1, <1>2, AtDeclaration DEF Claiming
  <2> QED
    BY <1>2, <1>3, <1>5, <2>1, ConfGains
<1>8. DriversTyped'
  BY <1>2, <1>4, <1>7 DEF IInv, DriversTyped
<1>9. OneMapping' /\ LinesAgree'
  BY <1>2, <1>4 DEF IInv, OpensAgree, OneMapping, LinesAgree
<1>10. WiresAgree'
  BY <1>2, WiresKeep DEF IInv, DriversTyped, Shelling, Waits, Releasing
<1>11. SpiIsAsItsOwnerSetIt' /\ ConversionsAgree'
  BY <1>2, SpiStays, ConversionsStay
<1> QED
  BY <1>6, <1>7, <1>8, <1>9, <1>10, <1>11 DEF IInv, OpensAgree

\* A further step at the same declaration.
LEMMA SamePlace ==
  ASSUME IInv, AtDev(sup.at), NEW at,
         \/ Claiming /\ at \in {"claim", "irq", "open"}
         \/ Releasing /\ at \in {"release", "close"},
         sup' = [at |-> at, slot |-> sup.slot, i |-> sup.i, next |-> sup.next],
         UNCHANGED <<res, alive, catalog, call>>, \A d : Open(d)' <=> Open(d)
  PROVE  /\ SlotsTyped' /\ ClaimsApart' /\ OpenIsHeld' /\ HeldIsOpen' /\ CallsAgree'
         /\ sup'.at = at /\ AtDev(at)' /\ Dev' = Dev /\ (Releasing' <=> Releasing) /\ ~ Shelling' /\ ~ Shelling
<1>1. /\ sup'.at = at /\ sup'.slot = sup.slot /\ sup'.i = sup.i /\ sup'.next = sup.next
      /\ sup' = [at |-> sup'.at, slot |-> sup'.slot, i |-> sup'.i, next |-> sup'.next]
  OBVIOUS
<1>2. /\ Releasing' <=> Releasing
      /\ Claiming' <=> Claiming
      /\ ~ Shelling' /\ ~ Shelling
  BY <1>1 DEF Claiming, Releasing, Shelling
<1>3. AtDev(at)' /\ Dev' = Dev
  BY <1>1 DEF AtDev, Dev
<1>4. \A s, j : Reached(s, j)' <=> Reached(s, j)
  BY <1>1, <1>2 DEF Reached
<1>5. SlotsTyped'
  BY <1>1, <1>2 DEF IInv, SlotsTyped, Kinds
<1>6. ClaimsApart'
  BY <1>1, <1>2 DEF IInv, ClaimsApart
<1>7. OpenIsHeld'
  BY <1>2, <1>4 DEF IInv, OpensAgree, OpenIsHeld, HeldOpen
<1>8. HeldIsOpen'
  <2> SUFFICES ASSUME NEW s \in Slots, NEW j \in DOMAIN res[s], res[s][j] \notin Gpios, Reached(s, j)
               PROVE  Open(res[s][j])' \/ \E v \in Uarts \ {res[s][j]} : PeriphOf[v] = PeriphOf[res[s][j]]
    BY <1>4 DEF HeldIsOpen
  <2>1. Open(res[s][j])' <=> Open(res[s][j])
    OBVIOUS
  <2> QED
    BY <2>1 DEF IInv, OpensAgree, HeldIsOpen
<1>9. CallsAgree'
  <2>1. \A t \in Slots : /\ Open(call[t].dev)' <=> Open(call[t].dev)
                         /\ Declared(t, call[t].dev)' <=> Declared(t, call[t].dev)
    BY DEF Declared
  <2> QED
    BY <1>1, <1>2, <2>1 DEF IInv, CallsAgree
<1> QED
  BY <1>1, <1>2, <1>3, <1>5, <1>6, <1>7, <1>8, <1>9

LEMMA ClaimUartKeepsIInv ==
  ASSUME IInv, Claim_Uart
  PROVE  IInv'
<1>1. PICK e \in Uarts : e = Dev
  BY DEF Claim_Uart
<1>2. /\ UNCHANGED <<res, alive, catalog, call, bopen, wire, spi, claimed, up, uopen, irq, sel,
                     running, done, value, wrong>>
      /\ sup.at = "claim" /\ AtDev(sup.at) /\ ~ UartClaimRefuses(e) /\ Set(PinsOf[e], e)
      /\ sup' = [at |-> "irq", slot |-> sup.slot, i |-> sup.i, next |-> sup.next]
  BY <1>1, NextDeclaration DEF Claim_Uart, UartClaim_Applies, slotVars, busVars, adcVars,
      AtDev
<1>3. \A d : Open(d)' <=> Open(d)
  BY <1>2 DEF Open
<1>4. /\ SlotsTyped' /\ ClaimsApart' /\ OpenIsHeld' /\ HeldIsOpen' /\ CallsAgree'
      /\ sup'.at = "irq" /\ AtDev("irq")' /\ Dev' = Dev /\ ~ Releasing' /\ ~ Shelling' /\ ~ Shelling
  BY <1>2, <1>3, SamePlace DEF Claiming, Releasing
<1>5. JobAgrees'
  <2>1. UartClaimRefuses(Dev)' <=> UartClaimRefuses(e)
    BY <1>1, <1>2, <1>4 DEF UartClaimRefuses, OtherMappingOpen
  <2> QED
    BY <1>1, <1>2, <1>4, <2>1 DEF JobAgrees
<1>6. ConfAgrees' /\ conf' \in [Pins -> Devs \cup {Default}]
  <2>1. sup.slot \in Slots /\ Declared(sup.slot, e) /\ e \in Devs \ Gpios /\ e \notin Spis \cup Adcs
    BY <1>1, <1>2, AtDeclaration, KindsAreApart DEF Claiming
  <2>2. ~ Open(e) /\ (sup'.at \in {"irq", "open"} => Dev' = e)
    BY <1>1, <1>2, <1>4, KindsAreApart DEF Open, UartClaimRefuses
  <2> QED
    BY <1>2, <1>3, <2>1, <2>2, ConfGains
<1>7. DriversTyped' /\ OneMapping' /\ LinesAgree'
  BY <1>2, <1>6 DEF IInv, DriversTyped, OpensAgree, OneMapping, LinesAgree
<1>8. WiresAgree'
  BY <1>2, WiresKeep DEF IInv, DriversTyped, Shelling, Waits, Releasing
<1>9. SpiIsAsItsOwnerSetIt' /\ ConversionsAgree'
  BY <1>2, SpiStays, ConversionsStay
<1> QED
  BY <1>4, <1>5, <1>6, <1>7, <1>8, <1>9 DEF IInv, OpensAgree

LEMMA ClaimUartIrqKeepsIInv ==
  ASSUME IInv, Claim_UartIrq
  PROVE  IInv'
<1>1. /\ sup.at = "irq" /\ AtDev(sup.at) /\ Dev \in Uarts /\ ~ UartClaimRefuses(Dev)
  BY DEF Claim_UartIrq, AtDev, IInv, OpensAgree, JobAgrees
<1>2. PICK p \in Periphs : p = PeriphOf[Dev]
  BY <1>1 DEF Periphs
<1>3. /\ UNCHANGED <<res, alive, catalog, call, conf, bopen, wire, spi, claimed, up, uopen, sel,
                     running, done, value, wrong>>
      /\ irq' = [irq EXCEPT ![p] = TRUE]
      /\ sup' = [at |-> "open", slot |-> sup.slot, i |-> sup.i, next |-> sup.next]
  BY <1>2, NextDeclaration DEF Claim_UartIrq, UartClaim_IrqOn, slotVars, busVars, adcVars,
      rings
<1>4. \A d : Open(d)' <=> Open(d)
  BY <1>3 DEF Open
<1>5. /\ SlotsTyped' /\ ClaimsApart' /\ OpenIsHeld' /\ HeldIsOpen' /\ CallsAgree'
      /\ sup'.at = "open" /\ AtDev("open")' /\ Dev' = Dev /\ ~ Releasing' /\ ~ Shelling' /\ ~ Shelling
  BY <1>1, <1>3, <1>4, SamePlace DEF Claiming, Releasing
<1>6. JobAgrees'
  <2>1. UartClaimRefuses(Dev)' <=> UartClaimRefuses(Dev)
    BY <1>3, <1>5 DEF UartClaimRefuses, OtherMappingOpen
  <2> QED
    BY <1>1, <1>3, <1>5, <2>1 DEF JobAgrees
<1>7. ConfAgrees'
  BY <1>1, <1>3, <1>4, <1>5, ConfKeeps
<1>8. DriversTyped' /\ OneMapping'
  BY <1>3 DEF IInv, DriversTyped, OpensAgree, OneMapping
<1>9. LinesAgree'
  <2>1. \A q \in Periphs \ {p} : irq'[q] = irq[q]
    BY <1>3
  <2> SUFFICES ASSUME NEW q \in LooksUp \cap Periphs, irq'[q]
               PROVE  \/ \E u \in Uarts : PeriphOf[u] = q /\ uopen[u]
                      \/ PeriphOf[Dev] = q
    BY <1>3, <1>5 DEF LinesAgree
  <2>2. CASE q = p
    BY <1>2, <2>2
  <2>3. CASE q # p
    <3>1. irq[q]
      BY <1>3, <2>3
    <3> QED
      BY <1>1, <3>1 DEF IInv, LinesAgree
  <2> QED
    BY <2>2, <2>3
<1>10. WiresAgree'
  BY <1>1, <1>3, WiresKeep DEF IInv, DriversTyped, Shelling, Waits, Releasing
<1>11. SpiIsAsItsOwnerSetIt' /\ ConversionsAgree'
  BY <1>3, SpiStays, ConversionsStay
<1> QED
  BY <1>5, <1>6, <1>7, <1>8, <1>9, <1>10, <1>11 DEF IInv, OpensAgree

LEMMA ClaimUartOpenKeepsIInv ==
  ASSUME IInv, Claim_UartOpen
  PROVE  IInv'
<1>1. PICK e \in Uarts : e = Dev
  BY DEF Claim_UartOpen, AtDev, IInv, OpensAgree, JobAgrees
<1>2. /\ UNCHANGED <<res, alive, catalog, call, conf, bopen, wire, spi, claimed, up, irq, sel,
                     running, done, value, wrong>>
      /\ sup.at = "open" /\ AtDev(sup.at) /\ ~ UartClaimRefuses(e)
      /\ uopen' = [uopen EXCEPT ![e] = TRUE] /\ uopen \in [Uarts -> BOOLEAN]
      /\ sup' = [at |-> "claim", slot |-> sup.slot, i |-> sup.i + 1, next |-> sup.next]
  BY <1>1, NextDeclaration DEF Claim_UartOpen, UartClaim_Opens, slotVars, busVars, adcVars,
      AtDev, IInv, OpensAgree, JobAgrees, DriversTyped
<1>3. /\ uopen' \in [Uarts -> BOOLEAN] /\ uopen'[e] /\ \A u \in Uarts \ {e} : uopen'[u] = uopen[u]
      /\ e \notin Buses /\ e \notin Adcs /\ e \notin Spis /\ sup'.at = "claim"
  BY <1>2, KindsAreApart
<1>4. \A d : Open(d)' <=> Open(d) \/ d = e
  BY <1>2, <1>3 DEF Open
<1>5. SlotsTyped' /\ ClaimsApart' /\ OpenIsHeld' /\ HeldIsOpen' /\ JobAgrees' /\ CallsAgree'
  <2>1. PICK opened \in BOOLEAN : opened = TRUE
    OBVIOUS
  <2> QED
    BY <1>1, <1>2, <1>4, <2>1, ClaimAdvances
<1>6. ConfAgrees'
  <2>1. \A pin \in PinsOf[e] \cap Pins : conf[pin] = e
    BY <1>1, <1>2 DEF IInv, ConfAgrees
  <2> QED
    BY <1>2, <1>3, <1>4, <2>1, ConfKeeps
<1>7. DriversTyped'
  BY <1>2, <1>3 DEF IInv, DriversTyped
<1>8. OneMapping'
  <2>1. \A v \in Uarts \ {e} : uopen[v] => PeriphOf[v] # PeriphOf[e]
    BY <1>2 DEF UartClaimRefuses, OtherMappingOpen
  <2> QED
    BY <1>2, <1>3, <2>1 DEF IInv, OpensAgree, OneMapping
<1>9. LinesAgree'
  BY <1>1, <1>2, <1>3 DEF IInv, LinesAgree
<1>10. WiresAgree'
  BY <1>2, WiresKeep DEF IInv, DriversTyped, Shelling, Waits, Releasing
<1>11. SpiIsAsItsOwnerSetIt' /\ ConversionsAgree'
  BY <1>2, SpiStays, ConversionsStay
<1> QED
  BY <1>5, <1>6, <1>7, <1>8, <1>9, <1>10, <1>11 DEF IInv, OpensAgree

LEMMA ClaimEndsKeepsIInv ==
  ASSUME IInv, Claim_Ends
  PROVE  IInv'
<1>1. /\ UNCHANGED <<res, alive, catalog, call, conf, bopen, wire, spi, claimed, up, uopen, irq, sel,
                     running, done, value, wrong>>
      /\ sup.at = "claim" /\ sup.i > Len(res[sup.slot])
      /\ sup' = [at |-> "idle", slot |-> NoDev, i |-> 0, next |-> <<>>]
  BY DEF Claim_Ends, Idle, slotVars, uartVars, rings, busVars, adcVars
<1>2. /\ sup'.at = "idle" /\ sup'.next = <<>>
      /\ sup' = [at |-> sup'.at, slot |-> sup'.slot, i |-> sup'.i, next |-> sup'.next]
      /\ ~ Claiming' /\ ~ Releasing' /\ ~ Shelling' /\ ~ Releasing /\ ~ Shelling
  BY <1>1 DEF Claiming, Releasing, Shelling
<1>3. \A d : Open(d)' <=> Open(d)
  BY <1>1 DEF Open
<1>4. ASSUME NEW s \in Slots, NEW j \in DOMAIN res[s]
      PROVE  Reached(s, j)
  <2>1. DOMAIN res[s] = 1 .. Len(res[s]) /\ Len(res[s]) \in Nat
    BY DeclaredIsDev
  <2>2. sup.slot \in Slots /\ sup.i \in Int
    BY <1>1 DEF IInv, SlotsTyped, Claiming
  <2>3. s = sup.slot => j < sup.i
    BY <1>1, <2>1, <2>2
  <2> QED
    BY <1>2, <2>3 DEF Reached
<1>5. \A s \in Slots : \A j \in DOMAIN res[s] : Reached(s, j)' <=> Reached(s, j)
  BY <1>2, <1>4 DEF Reached
<1>6. SlotsTyped'
  BY <1>1, <1>2 DEF IInv, SlotsTyped, Kinds
<1>7. ClaimsApart'
  BY <1>1, <1>2 DEF IInv, ClaimsApart
<1>8. OpenIsHeld'
  BY <1>1, <1>2, <1>3, <1>5 DEF IInv, OpensAgree, OpenIsHeld, HeldOpen
<1>9. HeldIsOpen'
  <2> SUFFICES ASSUME NEW s \in Slots, NEW j \in DOMAIN res[s], res[s][j] \notin Gpios, Reached(s, j)
               PROVE  Open(res[s][j])' \/ \E v \in Uarts \ {res[s][j]} : PeriphOf[v] = PeriphOf[res[s][j]]
    BY <1>1, <1>5 DEF HeldIsOpen
  <2>1. Open(res[s][j])' <=> Open(res[s][j])
    BY <1>1 DEF Open
  <2> QED
    BY <2>1 DEF IInv, OpensAgree, HeldIsOpen
<1>10. CallsAgree'
  <2>1. \A t \in Slots : /\ Open(call[t].dev)' <=> Open(call[t].dev)
                         /\ Declared(t, call[t].dev)' <=> Declared(t, call[t].dev)
    BY <1>1 DEF Open, Declared
  <2> QED
    BY <1>1, <1>2, <2>1 DEF IInv, CallsAgree
<1>11. JobAgrees' /\ OneMapping' /\ LinesAgree' /\ DriversTyped'
  BY <1>1, <1>2 DEF IInv, JobAgrees, OpensAgree, OneMapping, LinesAgree, DriversTyped
<1>12. ConfAgrees'
  BY <1>1, <1>2, <1>3, ConfKeeps
<1>13. WiresAgree'
  BY <1>1, <1>2, WiresKeep DEF IInv, DriversTyped, Waits
<1>14. SpiIsAsItsOwnerSetIt' /\ ConversionsAgree'
  BY <1>1, SpiStays, ConversionsStay
<1> QED
  BY <1>6, <1>7, <1>8, <1>9, <1>10, <1>11, <1>12, <1>13, <1>14 DEF IInv, OpensAgree

-----------------------------------------------------------------------------
(* A slot gives its devices back. *)

\* The configuration follows a device that gives its pins back.
LEMMA ConfLoses ==
  ASSUME IInv, NEW s \in Slots, NEW e \in Devs \ Gpios, Declared(s, e), UNCHANGED res,
         Open(e), Set(PinsOf[e], Default), sup'.at \notin {"irq", "open"},
         \A d : Open(d)' <=> Open(d) /\ d # e
  PROVE  ConfAgrees' /\ conf' \in [Pins -> Devs \cup {Default}]
<1>1. conf' = [pin \in Pins |-> IF pin \in PinsOf[e] THEN Default ELSE conf[pin]]
  BY DEF Set
<1>2. conf' \in [Pins -> Devs \cup {Default}]
  BY <1>1 DEF IInv, DriversTyped
<1>3. ASSUME NEW d \in Devs \ Gpios, Open(d), d # e PROVE PinsOf[d] \cap PinsOf[e] = {}
  BY <1>3, OpenPins DEF IInv
<1> SUFFICES ASSUME NEW pin \in Pins, NEW c, c = conf'[pin]
             PROVE  /\ \A d \in Devs \ Gpios : Open(d)' /\ pin \in PinsOf[d] => c = d
                    /\ c \in Spis \cup Adcs => Open(c)' /\ pin \in PinsOf[c]
                    /\ c \in Gpios => pin \in PinsOf[c] /\ \E t \in Slots : Declared(t, c)
  <2>1. \A q \in Pins : \A c : c = conf'[q] => (Open(c)' <=> Open(conf[q])')
    OBVIOUS
  <2>2. \A q \in Pins : \A c : c = conf'[q] => \A t \in Slots : Declared(t, conf[q])' <=> Declared(t, c)
    BY DEF Declared
  <2> QED
    BY <1>2, <2>1, <2>2 DEF ConfAgrees
<1>4. CASE pin \in PinsOf[e]
  <2>1. c = Default
    BY <1>1, <1>4
  <2>2. c \notin Spis \cup Adcs /\ c \notin Gpios
    BY <2>1, KindsAreApart
  <2>3. \A d \in Devs \ Gpios : Open(d)' => pin \notin PinsOf[d]
    BY <1>3, <1>4
  <2> QED
    BY <2>2, <2>3
<1>5. CASE pin \notin PinsOf[e]
  <2>1. c = conf[pin]
    BY <1>1, <1>5
  <2>2. /\ \A d \in Devs \ Gpios : Open(d) /\ pin \in PinsOf[d] => c = d
        /\ c \in Spis \cup Adcs => Open(c) /\ pin \in PinsOf[c]
        /\ c \in Gpios => pin \in PinsOf[c] /\ \E t \in Slots : Declared(t, c)
    BY <2>1 DEF IInv, ConfAgrees
  <2> QED
    BY <1>5, <2>2
<1> QED
  BY <1>2, <1>4, <1>5

\* What waits to be released still waits when another bus has been.
LEMMA WaitsOn ==
  ASSUME IInv, Releasing, AtDev(sup.at), UNCHANGED res,
         sup' = [at |-> "release", slot |-> sup.slot, i |-> sup.i + 1, next |-> sup.next],
         NEW b, Waits(b), b # Dev
  PROVE  Waits(b)'
<1>1. PICK j \in DOMAIN res[sup.slot] : res[sup.slot][j] = b /\ j >= sup.i
  BY DEF Waits
<1>2. j # sup.i /\ sup.i \in Nat /\ j \in Nat
  BY <1>1, AtDeclaration
<1>3. j >= sup.i + 1
  BY <1>1, <1>2
<1> QED
  BY <1>1, <1>3 DEF Waits, Releasing

LEMMA ReleaseNothingKeepsIInv ==
  ASSUME IInv, Release_Nothing
  PROVE  IInv'
<1>1. /\ UNCHANGED <<res, alive, catalog, call, conf, bopen, wire, spi, claimed, up, uopen, irq, sel,
                     running, done, value, wrong>>
      /\ sup.at = "release" /\ AtDev(sup.at) /\ ~ Open(Dev) /\ Releasing
      /\ sup' = [at |-> "release", slot |-> sup.slot, i |-> sup.i + 1, next |-> sup.next]
  BY NextDeclaration DEF Release_Nothing, slotVars, uartVars, rings, busVars, adcVars,
      AtDev, GoesOn, Releasing
<1>2. \A d : Open(d)' <=> Open(d)
  BY <1>1 DEF Open
<1>3. \A d : Open(d) => d # Dev
  BY <1>1
<1>4. SlotsTyped' /\ ClaimsApart' /\ OpenIsHeld' /\ HeldIsOpen' /\ JobAgrees' /\ CallsAgree'
  BY <1>1, <1>2, <1>3, ReleaseAdvances
<1>5. DriversTyped' /\ OneMapping' /\ LinesAgree'
  BY <1>1 DEF IInv, DriversTyped, OpensAgree, OneMapping, LinesAgree
<1>6. ConfAgrees'
  BY <1>1, <1>2, ConfKeeps
<1>7. WiresAgree'
  <2>1. ASSUME NEW b \in Buses, bopen[b], Waits(b) PROVE Waits(b)'
    BY <1>1, <2>1, WaitsOn DEF Open
  <2> QED
    BY <1>1, <2>1, WiresKeep DEF IInv, DriversTyped, Shelling
<1>8. SpiIsAsItsOwnerSetIt' /\ ConversionsAgree'
  BY <1>1, SpiStays, ConversionsStay
<1> QED
  BY <1>4, <1>5, <1>6, <1>7, <1>8 DEF IInv, OpensAgree

LEMMA ReleaseBusKeepsIInv ==
  ASSUME IInv, Release_Bus
  PROVE  IInv'
<1>1. PICK e \in Buses : e = Dev
  BY DEF Release_Bus
<1>2. /\ UNCHANGED <<res, alive, catalog, call, spi, claimed, up, uopen, irq, sel, running, done, value, wrong>>
      /\ sup.at = "release" /\ AtDev(sup.at) /\ Releasing
      /\ bopen[e] /\ bopen' = [bopen EXCEPT ![e] = FALSE] /\ wire' = [wire EXCEPT ![e] = "idle"]
      /\ IF e \in Spis THEN Set(PinsOf[e], Default) ELSE UNCHANGED conf
      /\ sup' = [at |-> "release", slot |-> sup.slot, i |-> sup.i + 1, next |-> sup.next]
  BY <1>1, NextDeclaration DEF Release_Bus, BusRelease, slotVars, uartVars, rings, adcVars,
      AtDev, GoesOn, Releasing
<1>3. /\ e \in Devs \ Gpios /\ e \notin Uarts /\ e \notin Adcs /\ Open(e)
      /\ bopen \in [Buses -> BOOLEAN] /\ DOMAIN wire = Buses
  BY <1>2, KindsAreApart DEF Open, IInv, DriversTyped
<1>4. /\ bopen' \in [Buses -> BOOLEAN] /\ ~ bopen'[e] /\ \A b \in Buses \ {e} : bopen'[b] = bopen[b]
      /\ DOMAIN wire' = Buses /\ wire'[e] = "idle" /\ \A b \in Buses \ {e} : wire'[b] = wire[b]
  BY <1>2, <1>3
<1>5. \A d : Open(d)' <=> Open(d) /\ d # e
  BY <1>2, <1>3, <1>4 DEF Open
<1>6. SlotsTyped' /\ ClaimsApart' /\ OpenIsHeld' /\ HeldIsOpen' /\ JobAgrees' /\ CallsAgree'
  BY <1>1, <1>2, <1>5, ReleaseAdvances
<1>7. sup.slot \in Slots /\ Declared(sup.slot, e)
  BY <1>1, <1>2, AtDeclaration
<1>8. ConfAgrees' /\ conf' \in [Pins -> Devs \cup {Default}]
  <2>1. CASE e \in Spis
    BY <1>2, <1>3, <1>5, <1>7, <2>1, ConfLoses
  <2>2. CASE e \notin Spis
    <3>1. \A d \in Spis \cup Adcs : Open(d) => Open(d)'
      BY <1>3, <1>5, <2>2
    <3>2. ConfAgrees'
      BY <1>2, <1>5, <2>2, <3>1, ConfKeeps
    <3> QED
      BY <1>2, <2>2, <3>2 DEF IInv, DriversTyped
  <2> QED
    BY <2>1, <2>2
<1>9. DriversTyped' /\ OneMapping' /\ LinesAgree'
  BY <1>2, <1>4, <1>8 DEF IInv, DriversTyped, OpensAgree, OneMapping, LinesAgree
<1>10. WiresAgree'
  <2>1. \A b \in Buses \ {e} : Waits(b) => Waits(b)'
    BY <1>1, <1>2, WaitsOn
  <2> QED
    BY <1>2, <1>4, <2>1, WiresKeep DEF Shelling
<1>11. SpiIsAsItsOwnerSetIt'
  BY <1>2, <1>4, SpiKeeps DEF Declared
<1>12. ConversionsAgree'
  BY <1>2, ConversionsStay
<1> QED
  BY <1>6, <1>8, <1>9, <1>10, <1>11, <1>12 DEF IInv, OpensAgree

\* A module that converts keeps the peripheral up.
LEMMA ReleaseAdcKeepsIInv ==
  ASSUME IInv, Release_Adc
  PROVE  IInv'
<1>1. PICK e \in Adcs : e = Dev
  BY DEF Release_Adc
<1>2. /\ UNCHANGED <<res, alive, catalog, call, wire, bopen, spi, uopen, irq, sel, done, value, wrong>>
      /\ sup.at = "release" /\ AtDev(sup.at) /\ Releasing /\ claimed[e]
      /\ claimed' = [claimed EXCEPT ![e] = FALSE]
      /\ up' = (\E d \in Adcs \ {e} : claimed[d])
      /\ running' = IF up' THEN running ELSE NoDev
      /\ Set(PinsOf[e], Default)
      /\ sup' = [at |-> "release", slot |-> sup.slot, i |-> sup.i + 1, next |-> sup.next]
  BY <1>1, NextDeclaration DEF Release_Adc, AdcRelease, slotVars, uartVars, rings, busVars,
      AtDev, GoesOn, Releasing
<1>3. /\ e \in Devs \ Gpios /\ e \notin Uarts /\ e \notin Buses /\ Open(e) /\ claimed \in [Adcs -> BOOLEAN]
  BY <1>2, KindsAreApart DEF Open, IInv, DriversTyped
<1>4. claimed' \in [Adcs -> BOOLEAN] /\ ~ claimed'[e] /\ \A d \in Adcs \ {e} : claimed'[d] = claimed[d]
  BY <1>2, <1>3
<1>5. \A d : Open(d)' <=> Open(d) /\ d # e
  BY <1>2, <1>3, <1>4 DEF Open
<1>6. SlotsTyped' /\ ClaimsApart' /\ OpenIsHeld' /\ HeldIsOpen' /\ JobAgrees' /\ CallsAgree'
  BY <1>1, <1>2, <1>5, ReleaseAdvances
<1>7. ConfAgrees' /\ conf' \in [Pins -> Devs \cup {Default}]
  <2>1. sup.slot \in Slots /\ Declared(sup.slot, e)
    BY <1>1, <1>2, AtDeclaration
  <2> QED
    BY <1>2, <1>3, <1>5, <2>1, ConfLoses
<1>8. DriversTyped' /\ LinesAgree'
  BY <1>2, <1>4, <1>7 DEF IInv, DriversTyped, LinesAgree
<1>9. OneMapping'
  <2>1. up' <=> \E d \in Adcs : claimed'[d]
    BY <1>2, <1>4
  <2> QED
    BY <1>2, <2>1 DEF IInv, OpensAgree, OneMapping
<1>10. WiresAgree'
  <2>1. \A b \in Buses : Waits(b) => Waits(b)'
    BY <1>1, <1>2, <1>3, WaitsOn
  <2> QED
    BY <1>2, <2>1, WiresKeep DEF Shelling, IInv, DriversTyped
<1>11. ConversionsAgree'
  <2>1. ASSUME NEW t \in Slots, Converting(t) PROVE running' = running
    <3>1. call[t] # NoCall /\ call[t].dev \in Adcs
      BY <2>1, CallRecord DEF Converting, Steps
    <3>2. claimed[call[t].dev]
      BY <3>1, KindsAreApart DEF IInv, CallsAgree, Open
    <3>3. call[t].dev # e
      BY <1>1, <1>2, <3>1, NoCallForReleased
    <3> QED
      BY <1>2, <3>1, <3>2, <3>3
  <2> QED
    BY <1>2, <2>1 DEF IInv, ConversionsAgree, Converting, Channel
<1>12. SpiIsAsItsOwnerSetIt'
  BY <1>2, SpiStays
<1> QED
  BY <1>6, <1>7, <1>8, <1>9, <1>10, <1>11, <1>12 DEF IInv, OpensAgree

LEMMA ReleaseUartKeepsIInv ==
  ASSUME IInv, Release_Uart
  PROVE  IInv'
<1>1. /\ sup.at = "release" /\ AtDev(sup.at) /\ Dev \in Uarts /\ uopen[Dev]
  BY DEF Release_Uart, UartRelease_IrqOff, AtDev
<1>2. PICK p \in Periphs : p = PeriphOf[Dev]
  BY <1>1 DEF Periphs
<1>3. /\ UNCHANGED <<res, alive, catalog, call, conf, bopen, wire, spi, claimed, up, uopen, sel,
                     running, done, value, wrong>>
      /\ irq' = [irq EXCEPT ![p] = FALSE]
      /\ sup' = [at |-> "close", slot |-> sup.slot, i |-> sup.i, next |-> sup.next]
  BY <1>2, NextDeclaration DEF Release_Uart, UartRelease_IrqOff, slotVars, busVars, adcVars,
      rings
<1>4. \A d : Open(d)' <=> Open(d)
  BY <1>3 DEF Open
<1>5. /\ SlotsTyped' /\ ClaimsApart' /\ OpenIsHeld' /\ HeldIsOpen' /\ CallsAgree'
      /\ sup'.at = "close" /\ AtDev("close")' /\ Dev' = Dev /\ Releasing' /\ ~ Shelling' /\ ~ Shelling
  BY <1>1, <1>3, <1>4, SamePlace DEF Releasing
<1>6. irq' \in [Periphs -> BOOLEAN] /\ ~ irq'[p] /\ \A q \in Periphs \ {p} : irq'[q] = irq[q]
  BY <1>3 DEF IInv, DriversTyped
<1>7. JobAgrees'
  BY <1>1, <1>2, <1>3, <1>5, <1>6 DEF JobAgrees
<1>8. ConfAgrees'
  BY <1>3, <1>4, <1>5, ConfKeeps
<1>9. DriversTyped' /\ OneMapping'
  BY <1>3, <1>6 DEF IInv, DriversTyped, OpensAgree, OneMapping
<1>10. LinesAgree'
  <2> SUFFICES ASSUME NEW q \in LooksUp \cap Periphs, irq'[q]
               PROVE  \E u \in Uarts : PeriphOf[u] = q /\ uopen[u]
    BY <1>3 DEF LinesAgree
  <2>1. irq[q]
    BY <1>3, <1>6
  <2> QED
    BY <1>1, <2>1 DEF IInv, LinesAgree
<1>11. WiresAgree'
  BY <1>1, <1>3, <1>5, WiresKeep DEF IInv, DriversTyped, Waits
<1>12. SpiIsAsItsOwnerSetIt' /\ ConversionsAgree'
  BY <1>3, SpiStays, ConversionsStay
<1> QED
  BY <1>5, <1>7, <1>8, <1>9, <1>10, <1>11, <1>12 DEF IInv, OpensAgree

LEMMA ReleaseUartClosesKeepsIInv ==
  ASSUME IInv, Release_UartCloses
  PROVE  IInv'
<1>1. PICK e \in Uarts : e = Dev
  BY DEF Release_UartCloses, AtDev, IInv, OpensAgree, JobAgrees
<1>2. /\ UNCHANGED <<res, alive, catalog, call, conf, bopen, wire, spi, claimed, up, irq, sel,
                     running, done, value, wrong>>
      /\ sup.at = "close" /\ AtDev(sup.at) /\ Releasing /\ uopen[e] /\ ~ irq[PeriphOf[e]]
      /\ uopen' = [uopen EXCEPT ![e] = FALSE] /\ uopen \in [Uarts -> BOOLEAN]
      /\ sup' = [at |-> "release", slot |-> sup.slot, i |-> sup.i + 1, next |-> sup.next]
  BY <1>1, NextDeclaration DEF Release_UartCloses, UartRelease_Closes, slotVars, busVars,
      adcVars, AtDev, IInv, OpensAgree, JobAgrees, DriversTyped, Releasing
<1>3. /\ uopen' \in [Uarts -> BOOLEAN] /\ ~ uopen'[e] /\ \A u \in Uarts \ {e} : uopen'[u] = uopen[u]
      /\ e \notin Buses /\ e \notin Adcs /\ e \notin Spis /\ sup'.at = "release"
  BY <1>2, KindsAreApart
<1>4. \A d : Open(d)' <=> Open(d) /\ d # e
  BY <1>2, <1>3 DEF Open
<1>5. SlotsTyped' /\ ClaimsApart' /\ OpenIsHeld' /\ HeldIsOpen' /\ JobAgrees' /\ CallsAgree'
  BY <1>1, <1>2, <1>4, ReleaseAdvances
<1>6. ConfAgrees'
  <2>1. \A d \in Spis \cup Adcs : Open(d) => Open(d)'
    BY <1>3, <1>4
  <2> QED
    BY <1>2, <1>3, <1>4, <2>1, ConfKeeps
<1>7. DriversTyped' /\ OneMapping'
  BY <1>2, <1>3 DEF IInv, DriversTyped, OpensAgree, OneMapping
<1>8. LinesAgree'
  BY <1>2, <1>3 DEF IInv, LinesAgree
<1>9. WiresAgree'
  <2>1. \A b \in Buses : Waits(b) => Waits(b)'
    BY <1>1, <1>2, <1>3, WaitsOn
  <2> QED
    BY <1>2, <2>1, WiresKeep DEF Shelling, IInv, DriversTyped
<1>10. SpiIsAsItsOwnerSetIt' /\ ConversionsAgree'
  BY <1>2, SpiStays, ConversionsStay
<1> QED
  BY <1>5, <1>6, <1>7, <1>8, <1>9, <1>10 DEF IInv, OpensAgree

-----------------------------------------------------------------------------
(* A slot changes hands. *)

\* mdl_res_check() keeps declarations apart.
LEMMA CheckedFits ==
  ASSUME NEW s \in Slots, NEW image, ResCheck(image, s)
  PROVE  Fits(image) /\ \A t \in Slots \ {s} : Apart(image, res[t])
  BY DEF ResCheck, HeldByModule, Fits, Apart

LEMMA ImageIsTyped ==
  ASSUME IInv, NEW image \in catalog
  PROVE  image \in Seq(Devs) /\ image # <<>>
  BY CatalogAssumption DEF IInv, SlotsTyped

\* While the supervisor is idle every declaration has been reached.
LEMMA AllReached ==
  ASSUME sup.at = "idle"
  PROVE  ~ Claiming /\ ~ Releasing /\ ~ Shelling /\ \A s, j : Reached(s, j)
  BY DEF Claiming, Releasing, Shelling, Reached

LEMMA LoadKeepsIInv ==
  ASSUME IInv, NEW s \in Slots, NEW image \in catalog, Load(s, image), res[s] = <<>>
  PROVE  IInv'
<1>1. /\ UNCHANGED <<catalog, call, conf, bopen, wire, spi, claimed, up, uopen, irq, sel,
                     running, done, value, wrong>>
      /\ sup.at = "idle" /\ ResCheck(image, s)
      /\ res' = [res EXCEPT ![s] = image] /\ alive' = [alive EXCEPT ![s] = TRUE]
      /\ sup' = [at |-> "claim", slot |-> s, i |-> 1, next |-> <<>>]
  BY DEF Load, uartVars, rings, busVars, adcVars
<1>2. /\ sup'.at = "claim" /\ sup'.slot = s /\ sup'.i = 1 /\ sup'.next = <<>>
      /\ sup' = [at |-> sup'.at, slot |-> sup'.slot, i |-> sup'.i, next |-> sup'.next]
      /\ Claiming' /\ ~ Releasing' /\ ~ Shelling'
  BY <1>1 DEF Claiming, Releasing, Shelling
<1>3. image \in Seq(Devs) /\ Fits(image) /\ \A t \in Slots \ {s} : Apart(image, res[t])
  BY <1>1, CheckedFits, ImageIsTyped
<1>4. /\ res \in [Slots -> Seq(Devs)] /\ alive \in [Slots -> BOOLEAN]
      /\ res'[s] = image /\ alive'[s] /\ \A t \in Slots \ {s} : res'[t] = res[t] /\ alive'[t] = alive[t]
      /\ res' \in [Slots -> Seq(Devs)] /\ alive' \in [Slots -> BOOLEAN]
  BY <1>1, <1>3 DEF IInv, SlotsTyped
<1>5. \A d : ~ Declared(s, d)
  BY DEF Declared
<1>6. ASSUME NEW t \in Slots \ {s}, NEW d PROVE Declared(t, d)' <=> Declared(t, d)
  BY <1>4 DEF Declared
<1>7. \A d : Open(d)' <=> Open(d)
  BY <1>1 DEF Open
<1>8. /\ \A j \in DOMAIN image : ~ Reached(s, j)'
      /\ \A t \in Slots \ {s} : \A j : Reached(t, j)'
  <2>1. DOMAIN image = 1 .. Len(image) /\ Len(image) \in Nat
    BY <1>3, LenProperties
  <2>2. \A j \in DOMAIN image : ~ (j < 1)
    BY <2>1
  <2> QED
    BY <1>2, <2>2 DEF Reached
<1>9. SlotsTyped'
  <2>1. Len(image) \in Nat
    BY <1>3, LenProperties
  <2>2. 1 \in 1 .. Len(image) + 1
    BY <2>1
  <2>3. sup'.next \in Seq(Devs)
    BY <1>2, EmptySeq
  <2> QED
    BY <1>1, <1>2, <1>4, <2>2, <2>3 DEF IInv, SlotsTyped, Kinds
<1>10. ClaimsApart'
  <2>1. \A t \in Slots : Fits(res'[t])
    BY <1>3, <1>4 DEF IInv, ClaimsApart
  <2>2. \A t, u \in Slots : t # u => Apart(res'[t], res'[u])
    <3> SUFFICES ASSUME NEW t \in Slots, NEW u \in Slots, t # u PROVE Apart(res'[t], res'[u])
      OBVIOUS
    <3>1. \A r \in Slots \ {s} : Apart(res[r], image)
      BY <1>3 DEF Apart
    <3> QED
      BY <1>3, <1>4, <3>1 DEF IInv, ClaimsApart
  <2> QED
    BY <1>2, <2>1, <2>2 DEF ClaimsApart
<1>11. OpenIsHeld'
  <2> SUFFICES ASSUME NEW d \in Devs \ Gpios, Open(d)
               PROVE  \E t \in Slots : \E j \in DOMAIN res'[t] : res'[t][j] = d /\ Reached(t, j)'
    BY <1>7 DEF OpenIsHeld, HeldOpen
  <2>1. PICK t \in Slots : \E j \in DOMAIN res[t] : res[t][j] = d
    BY <1>1, AllReached DEF IInv, OpensAgree, OpenIsHeld, HeldOpen
  <2>2. t # s
    BY <1>5, <2>1
  <2> QED
    BY <1>4, <1>8, <2>1, <2>2
<1>12. HeldIsOpen'
  <2> SUFFICES ASSUME NEW t \in Slots, NEW j \in DOMAIN res'[t], NEW d, d = res'[t][j], d \notin Gpios, Reached(t, j)'
               PROVE  Open(d)' \/ \E v \in Uarts \ {d} : PeriphOf[v] = PeriphOf[d]
    BY DEF HeldIsOpen
  <2>1. t # s /\ j \in DOMAIN res[t] /\ d = res[t][j]
    BY <1>4, <1>8
  <2>2. Reached(t, j)
    BY <1>1, AllReached
  <2>3. Open(d) \/ \E v \in Uarts \ {d} : PeriphOf[v] = PeriphOf[d]
    BY <2>1, <2>2 DEF IInv, OpensAgree, HeldIsOpen
  <2> QED
    BY <1>7, <2>3
<1>13. CallsAgree'
  <2> SUFFICES ASSUME NEW t \in Slots, call[t] # NoCall
               PROVE  alive'[t] /\ Declared(t, call[t].dev)' /\ Open(call[t].dev)'
    BY <1>1, <1>2 DEF CallsAgree
  <2>1. alive[t] /\ Declared(t, call[t].dev) /\ Open(call[t].dev)
    BY DEF IInv, CallsAgree
  <2>2. t # s
    BY <1>5, <2>1
  <2>3. Declared(t, call[t].dev)' <=> Declared(t, call[t].dev)
    BY <1>1, <1>4, <2>2 DEF Declared
  <2> QED
    BY <1>1, <1>4, <2>1, <2>2, <2>3 DEF Open
<1>14. JobAgrees' /\ OneMapping' /\ LinesAgree' /\ DriversTyped'
  BY <1>1, <1>2 DEF IInv, JobAgrees, OpensAgree, OneMapping, LinesAgree, DriversTyped
<1>15. ConfAgrees'
  <2> SUFFICES ASSUME NEW pin \in Pins, NEW c, c = conf[pin]
               PROVE  /\ \A d \in Devs \ Gpios : Open(d) /\ pin \in PinsOf[d] => c = d
                      /\ c \in Spis \cup Adcs => Open(c) /\ pin \in PinsOf[c]
                      /\ c \in Gpios => pin \in PinsOf[c] /\ \E t \in Slots : Declared(t, c)'
    <3>1. \A q \in Pins : \A c : c = conf[q] => (Open(c) <=> Open(conf[q])')
      BY <1>1 DEF Open
    <3>2. \A q \in Pins : \A c : c = conf[q] => \A t \in Slots : Declared(t, conf[q])' <=> Declared(t, c)'
      BY <1>1
    <3> QED
      BY <1>1, <1>2, <1>7, <3>1, <3>2 DEF ConfAgrees
  <2>1. /\ \A d \in Devs \ Gpios : Open(d) /\ pin \in PinsOf[d] => c = d
        /\ c \in Spis \cup Adcs => Open(c) /\ pin \in PinsOf[c]
        /\ c \in Gpios => pin \in PinsOf[c] /\ \E t \in Slots : Declared(t, c)
    BY DEF IInv, ConfAgrees
  <2>2. \A t \in Slots : Declared(t, c) => Declared(t, c)'
    BY <1>5, <1>6
  <2> QED
    BY <2>1, <2>2
<1>16. WiresAgree'
  BY <1>1, WiresKeep, AllReached DEF IInv, DriversTyped, Waits
<1>17. SpiIsAsItsOwnerSetIt'
  <2>1. \A t, d : Declared(t, d) => t \in Slots \/ Declared(t, d)'
    BY <1>1 DEF Declared
  <2> QED
    BY <1>1, <1>5, <1>6, SpiKeeps DEF Declared
<1>18. ConversionsAgree'
  BY <1>1, ConversionsStay
<1> QED
  BY <1>9, <1>10, <1>11, <1>12, <1>13, <1>14, <1>15, <1>16, <1>17, <1>18 DEF IInv,
      OpensAgree

\* The slot's task goes first, in the middle of a transfer or a conversion.
LEMMA ReclaimKeepsIInv ==
  ASSUME IInv, NEW s \in Slots, NEW image \in Seq(Devs), sup.at = "idle", ReclaimFor(s, image),
         Fits(image), \A t \in Slots \ {s} : Apart(image, res[t])
  PROVE  IInv'
<1>1. /\ UNCHANGED <<res, catalog, conf, bopen, spi, claimed, up, uopen, irq, sel, running, done, value, wrong>>
      /\ alive' = [alive EXCEPT ![s] = FALSE] /\ call' = [call EXCEPT ![s] = NoCall]
      /\ sup' = [at |-> "release", slot |-> s, i |-> 1, next |-> image]
      /\ wire' = IF call[s].dev \in Buses THEN [wire EXCEPT ![call[s].dev] = "wedged"] ELSE wire
  BY DEF ReclaimFor, BreaksOff, uartVars, rings, adcVars
<1>2. /\ sup'.at = "release" /\ sup'.slot = s /\ sup'.i = 1 /\ sup'.next = image
      /\ sup' = [at |-> sup'.at, slot |-> sup'.slot, i |-> sup'.i, next |-> sup'.next]
      /\ ~ Claiming' /\ Releasing' /\ ~ Shelling'
  BY <1>1 DEF Claiming, Releasing, Shelling
<1>3. /\ alive' \in [Slots -> BOOLEAN] /\ ~ alive'[s] /\ \A t \in Slots \ {s} : alive'[t] = alive[t]
      /\ DOMAIN call' = Slots /\ call'[s] = NoCall /\ \A t \in Slots \ {s} : call'[t] = call[t]
  BY <1>1 DEF IInv, SlotsTyped
<1>4. \A d : Open(d)' <=> Open(d)
  BY <1>1 DEF Open
<1>5. \A t \in Slots : \A j \in DOMAIN res[t] : j \in Nat /\ j >= 1 /\ Reached(t, j)' /\ Reached(t, j)
  <2> SUFFICES ASSUME NEW t \in Slots, NEW j \in DOMAIN res[t]
               PROVE  j \in Nat /\ j >= 1 /\ Reached(t, j)' /\ Reached(t, j)
    OBVIOUS
  <2>1. j \in Nat /\ j >= 1
    BY DeclaredIsDev DEF IInv
  <2> QED
    BY <1>2, <2>1, AllReached DEF Reached
<1>6. SlotsTyped'
  <2>1. Len(res[s]) \in Nat
    BY DeclaredIsDev
  <2>2. 1 \in 1 .. Len(res[s]) + 1
    BY <2>1
  <2>3. /\ \A t \in Slots : /\ call'[t] = [at |-> call'[t].at, dev |-> call'[t].dev, left |-> call'[t].left,
                                           mixed |-> call'[t].mixed]
                            /\ CallOf(call'[t])
    <3>1. call'[s] = [at |-> call'[s].at, dev |-> call'[s].dev, left |-> call'[s].left,
                      mixed |-> call'[s].mixed] /\ CallOf(call'[s])
      BY <1>3 DEF CallOf, NoCall
    <3>2. \A t \in Slots \ {s} : /\ call'[t] = call[t] /\ CallOf(call[t])
                                 /\ call[t] = [at |-> call[t].at, dev |-> call[t].dev, left |-> call[t].left,
                                               mixed |-> call[t].mixed]
      BY <1>3 DEF IInv, SlotsTyped
    <3>3. \A t \in Slots \ {s} : /\ CallOf(call'[t])
                                 /\ call'[t] = [at |-> call'[t].at, dev |-> call'[t].dev,
                                                left |-> call'[t].left, mixed |-> call'[t].mixed]
      BY <3>2
    <3> QED
      BY <3>1, <3>3
  <2>4. /\ catalog' \in Catalogs /\ res' \in [Slots -> Seq(Devs)]
    BY <1>1 DEF IInv, SlotsTyped
  <2>5. sup'.at \in Kinds /\ sup'.next \in Seq(Devs) /\ sup'.slot \in Slots
    BY <1>1, <1>2 DEF IInv, SlotsTyped, Kinds
  <2>6. sup'.i \in 1 .. Len(res'[sup'.slot]) + 1
    BY <1>1, <1>2, <2>2
  <2> QED
    BY <1>2, <1>3, <2>3, <2>4, <2>5, <2>6 DEF SlotsTyped
<1>7. ClaimsApart'
  <2>1. Fits(sup'.next) /\ \A t \in Slots \ {sup'.slot} : Apart(sup'.next, res[t])
    BY <1>2
  <2>2. (\A t \in Slots : Fits(res[t])) /\ \A t, u \in Slots : t # u => Apart(res[t], res[u])
    BY DEF IInv, ClaimsApart
  <2> QED
    BY <1>1, <2>1, <2>2 DEF ClaimsApart
<1>8. OpenIsHeld'
  <2> SUFFICES ASSUME NEW d \in Devs \ Gpios, Open(d)
               PROVE  \E t \in Slots : \E j \in DOMAIN res[t] : res[t][j] = d /\ Reached(t, j)'
    BY <1>1, <1>4 DEF OpenIsHeld, HeldOpen
  <2>1. PICK t \in Slots : \E j \in DOMAIN res[t] : res[t][j] = d
    BY AllReached DEF IInv, OpensAgree, OpenIsHeld, HeldOpen
  <2> QED
    BY <1>5, <2>1
<1>9. HeldIsOpen'
  <2> SUFFICES ASSUME NEW t \in Slots, NEW j \in DOMAIN res[t], NEW d, d = res[t][j], d \notin Gpios
               PROVE  Open(d)' \/ \E v \in Uarts \ {d} : PeriphOf[v] = PeriphOf[d]
    BY <1>1 DEF HeldIsOpen
  <2>1. Open(d) \/ \E v \in Uarts \ {d} : PeriphOf[v] = PeriphOf[d]
    BY <1>5 DEF IInv, OpensAgree, HeldIsOpen
  <2> QED
    BY <1>4, <2>1
<1>10. CallsAgree'
  <2> SUFFICES ASSUME NEW t \in Slots, call'[t] # NoCall
               PROVE  alive'[t] /\ Declared(t, call[t].dev)' /\ Open(call[t].dev)'
    BY <1>2, <1>3 DEF CallsAgree
  <2>1. t # s /\ alive[t] /\ Declared(t, call[t].dev) /\ Open(call[t].dev)
    BY <1>3 DEF IInv, CallsAgree
  <2> QED
    BY <1>1, <1>3, <2>1 DEF Open, Declared
<1>11. DOMAIN wire' = Buses
  BY <1>1 DEF IInv, DriversTyped
<1>12. JobAgrees' /\ OneMapping' /\ LinesAgree' /\ DriversTyped'
  BY <1>1, <1>2, <1>11 DEF IInv, JobAgrees, OpensAgree, OneMapping, LinesAgree, DriversTyped
<1>13. ConfAgrees'
  BY <1>1, <1>2, <1>4, ConfKeeps
<1>14. WiresAgree'
  <2> SUFFICES ASSUME NEW b \in Buses PROVE WireAgrees(b)'
    BY DEF WiresAgree
  <2>1. WireAgrees(b) /\ DOMAIN wire = Buses /\ ~ Releasing /\ ~ Shelling
    BY AllReached DEF IInv, WiresAgree, DriversTyped
  <2>2. CASE call[s].dev = b
    <3>1. call[s] # NoCall
      BY <2>2, KindsAreApart DEF NoCall
    <3>2. Declared(s, b) /\ Open(b)
      BY <2>2, <3>1 DEF IInv, CallsAgree
    <3>3. bopen[b] /\ wire'[b] = "wedged"
      BY <1>1, <2>1, <2>2, <3>2, KindsAreApart DEF Open
    <3>4. Waits(b)'
      BY <1>1, <1>2, <1>5, <3>2 DEF Waits, Declared
    <3> QED
      BY <1>1, <3>3, <3>4 DEF WireAgrees
  <2>3. CASE call[s].dev # b
    <3>1. wire'[b] = wire[b]
      BY <1>1, <2>1, <2>3
    <3>2. (\E t \in Slots : call[t].dev = b) => \E t \in Slots : call'[t].dev = b
      BY <1>3, <2>3
    <3> QED
      BY <1>1, <2>1, <3>1, <3>2 DEF WireAgrees, Waits
  <2> QED
    BY <2>2, <2>3
<1>15. ConversionsAgree'
  <2>1. ~ Converting(s)' /\ \A t \in Slots \ {s} : (Converting(t)' <=> Converting(t)) /\ Channel(t)' = Channel(t)
    BY <1>3 DEF Converting, Steps, NoCall, Channel
  <2> QED
    BY <1>1, <1>3, <2>1 DEF IInv, ConversionsAgree
<1>16. SpiIsAsItsOwnerSetIt'
  BY <1>1, SpiStays
<1> QED
  BY <1>6, <1>7, <1>8, <1>9, <1>10, <1>12, <1>13, <1>14, <1>15, <1>16 DEF IInv, OpensAgree

LEMMA UnloadKeepsIInv ==
  ASSUME IInv, NEW s \in Slots, Unload(s)
  PROVE  IInv'
<1>1. <<>> \in Seq(Devs) /\ Fits(<<>>) /\ \A t \in Slots \ {s} : Apart(<<>>, res[t])
  BY EmptySeq DEF Fits, Apart
<1> QED
  BY <1>1, ReclaimKeepsIInv DEF Unload

\* host_gpio_release_claims(): no pin stays behind, and the image that waited
\* takes the slot.
LEMMA ReleaseEndsKeepsIInv ==
  ASSUME IInv, Release_Ends
  PROVE  IInv'
<1>1. PICK s \in Slots : s = sup.slot
  BY DEF Release_Ends, IInv, SlotsTyped, Releasing
<1>2. PICK image \in Seq(Devs) : image = sup.next
  BY DEF IInv, SlotsTyped
<1>3. /\ UNCHANGED <<catalog, call, bopen, wire, spi, claimed, up, uopen, irq, sel, running, done, value, wrong>>
      /\ sup.at = "release" /\ sup.i > Len(res[s])
      /\ Set(ClaimedGpioPins(s), Default)
      /\ res' = [res EXCEPT ![s] = image] /\ alive' = [alive EXCEPT ![s] = image # <<>>]
      /\ sup' = IF image = <<>> THEN Idle ELSE [at |-> "claim", slot |-> s, i |-> 1, next |-> <<>>]
  BY <1>1, <1>2 DEF Release_Ends, uartVars, rings, busVars, adcVars
<1>4. /\ sup'.at = "idle" \/ (sup'.at = "claim" /\ sup'.slot = s /\ sup'.i = 1)
      /\ sup' = [at |-> sup'.at, slot |-> sup'.slot, i |-> sup'.i, next |-> sup'.next]
      /\ sup'.next = <<>> /\ (Claiming' <=> image # <<>>) /\ ~ Releasing' /\ ~ Shelling'
      /\ Releasing /\ ~ Shelling /\ ~ Claiming
  BY <1>3 DEF Idle, Claiming, Releasing, Shelling
<1>5. /\ res'[s] = image /\ \A t \in Slots \ {s} : res'[t] = res[t] /\ alive'[t] = alive[t]
      /\ res' \in [Slots -> Seq(Devs)] /\ alive' \in [Slots -> BOOLEAN] /\ ~ alive[s]
  BY <1>1, <1>3, <1>4 DEF IInv, SlotsTyped, CallsAgree
<1>6. \A d : Open(d)' <=> Open(d)
  BY <1>3 DEF Open
<1>7. \A j \in DOMAIN res[s] : j \in Nat /\ ~ (j >= sup.i)
  <2>1. DOMAIN res[s] = 1 .. Len(res[s]) /\ Len(res[s]) \in Nat /\ sup.i \in Int
    BY <1>1, <1>4, DeclaredIsDev DEF IInv, SlotsTyped
  <2> QED
    BY <1>3, <2>1
<1>8. /\ \A j \in DOMAIN image : ~ Reached(s, j)'
      /\ \A t \in Slots \ {s} : \A j : Reached(t, j)'
      /\ \A t \in Slots \ {s} : \A j : Reached(t, j)
      /\ \A j \in DOMAIN res[s] : ~ Reached(s, j)
  <2>1. DOMAIN image = 1 .. Len(image) /\ Len(image) \in Nat
    BY LenProperties
  <2>2. \A j \in DOMAIN image : ~ (j < 1) /\ image # <<>>
    BY <2>1
  <2>3. \A j \in DOMAIN image : ~ Reached(s, j)'
    BY <1>3, <1>4, <2>2 DEF Reached
  <2> QED
    BY <1>1, <1>4, <1>7, <2>3 DEF Reached, Claiming
<1>9. ASSUME NEW d \in Devs \ Gpios, Open(d)
      PROVE  \E t \in Slots \ {s} : Declared(t, d)
  <2>1. HeldOpen(d)
    BY <1>9 DEF IInv, OpensAgree, OpenIsHeld
  <2>2. ~ Shelling
    BY <1>4
  <2>3. PICK t \in Slots : \E j \in DOMAIN res[t] : res[t][j] = d /\ Reached(t, j)
    BY <2>1, <2>2 DEF HeldOpen
  <2>4. t # s
    BY <1>8, <2>3
  <2> QED
    BY <2>3, <2>4 DEF Declared
<1>10. SlotsTyped'
  <2>1. Len(image) \in Nat
    BY LenProperties
  <2>2. 1 \in 1 .. Len(image) + 1
    BY <2>1
  <2>3. sup'.next \in Seq(Devs)
    BY <1>4, EmptySeq
  <2>4. Claiming' => sup'.slot = s /\ sup'.i = 1
    BY <1>4 DEF Claiming
  <2> QED
    <3>1. catalog' \in Catalogs /\ SlotsTyped /\ ~ Releasing' /\ sup'.at \in Kinds
      BY <1>3, <1>4 DEF IInv, SlotsTyped, Kinds
    <3>2. DOMAIN call' = Slots /\ alive' \in [Slots -> BOOLEAN]
      BY <1>3, <1>4, <1>5, <3>1 DEF SlotsTyped
    <3> QED
      BY <1>3, <1>4, <1>5, <2>2, <2>3, <2>4, <3>1, <3>2 DEF SlotsTyped
<1>11. ClaimsApart'
  <2>1. Fits(image) /\ \A t \in Slots \ {s} : Apart(image, res[t]) /\ Apart(res[t], image)
    <3>1. Fits(image) /\ \A t \in Slots \ {s} : Apart(image, res[t])
      BY <1>1, <1>2, <1>4 DEF IInv, ClaimsApart
    <3>2. ASSUME NEW t \in Slots, Apart(image, res[t]) PROVE Apart(res[t], image)
      BY <3>2 DEF Apart
    <3> QED
      BY <3>1, <3>2
  <2>2. \A t \in Slots : Fits(res'[t])
    BY <1>5, <2>1 DEF IInv, ClaimsApart
  <2>3. \A t, u \in Slots : t # u => Apart(res'[t], res'[u])
    BY <1>5, <2>1 DEF IInv, ClaimsApart
  <2> QED
    BY <1>4, <2>2, <2>3 DEF ClaimsApart
<1>12. OpenIsHeld'
  <2> SUFFICES ASSUME NEW d \in Devs \ Gpios, Open(d)
               PROVE  \E t \in Slots : \E j \in DOMAIN res'[t] : res'[t][j] = d /\ Reached(t, j)'
    BY <1>6 DEF OpenIsHeld, HeldOpen
  <2> QED
    BY <1>5, <1>8, <1>9 DEF Declared
<1>13. HeldIsOpen'
  <2> SUFFICES ASSUME NEW t \in Slots, NEW j \in DOMAIN res'[t], NEW d, d = res'[t][j], d \notin Gpios, Reached(t, j)'
               PROVE  Open(d)' \/ \E v \in Uarts \ {d} : PeriphOf[v] = PeriphOf[d]
    BY DEF HeldIsOpen
  <2>1. t # s /\ j \in DOMAIN res[t] /\ d = res[t][j]
    BY <1>5, <1>8
  <2>2. Open(d) \/ \E v \in Uarts \ {d} : PeriphOf[v] = PeriphOf[d]
    BY <1>8, <2>1 DEF IInv, OpensAgree, HeldIsOpen
  <2> QED
    BY <1>6, <2>2
<1>14. CallsAgree'
  <2> SUFFICES ASSUME NEW t \in Slots, call[t] # NoCall
               PROVE  alive'[t] /\ Declared(t, call[t].dev)' /\ Open(call[t].dev)'
    BY <1>3, <1>4 DEF CallsAgree
  <2>1. alive[t] /\ Declared(t, call[t].dev) /\ Open(call[t].dev)
    BY DEF IInv, CallsAgree
  <2>2. t # s
    BY <1>5, <2>1
  <2> QED
    BY <1>3, <1>5, <2>1, <2>2 DEF Open, Declared
<1>15. conf' = [pin \in Pins |-> IF pin \in ClaimedGpioPins(s) THEN Default ELSE conf[pin]]
  BY <1>3 DEF Set
<1>16. conf' \in [Pins -> Devs \cup {Default}]
  BY <1>15 DEF IInv, DriversTyped
<1>17. JobAgrees' /\ OneMapping' /\ LinesAgree' /\ DriversTyped'
  BY <1>3, <1>4, <1>16 DEF IInv, JobAgrees, OpensAgree, OneMapping, LinesAgree, DriversTyped
<1>18. ConfAgrees'
  <2> SUFFICES ASSUME NEW pin \in Pins, NEW c, c = conf'[pin]
               PROVE  /\ \A d \in Devs \ Gpios : Open(d) /\ pin \in PinsOf[d] => c = d
                      /\ c \in Spis \cup Adcs => Open(c) /\ pin \in PinsOf[c]
                      /\ c \in Gpios => pin \in PinsOf[c] /\ \E t \in Slots : Declared(t, c)'
    <3>1. \A q \in Pins : \A c : c = conf'[q] => (Open(c) <=> Open(conf[q])')
      BY <1>3 DEF Open
    <3>2. \A q \in Pins : \A c : c = conf'[q] => \A t \in Slots : Declared(t, conf[q])' <=> Declared(t, c)'
      OBVIOUS
    <3> QED
      BY <1>4, <1>6, <1>16, <3>1, <3>2 DEF ConfAgrees
  <2>1. ASSUME NEW d \in Devs \ Gpios, Open(d) PROVE PinsOf[d] \cap ClaimedGpioPins(s) = {}
    <3>1. \A g \in Gpios : Declared(s, g) => PinsOf[d] \cap PinsOf[g] = {}
      BY <2>1, OpenPins DEF IInv
    <3> QED
      BY <3>1 DEF ClaimedGpioPins
  <2>2. CASE pin \in ClaimedGpioPins(s)
    <3>1. c = Default
      BY <1>15, <2>2
    <3>2. c \notin Spis \cup Adcs /\ c \notin Gpios
      BY <3>1, KindsAreApart
    <3> QED
      BY <2>1, <2>2, <3>2
  <2>3. CASE pin \notin ClaimedGpioPins(s)
    <3>1. c = conf[pin]
      BY <1>15, <2>3
    <3>2. /\ \A d \in Devs \ Gpios : Open(d) /\ pin \in PinsOf[d] => c = d
          /\ c \in Spis \cup Adcs => Open(c) /\ pin \in PinsOf[c]
          /\ c \in Gpios => pin \in PinsOf[c] /\ \E t \in Slots : Declared(t, c)
      BY <3>1 DEF IInv, ConfAgrees
    <3>3. c \in Gpios => \A t \in Slots : Declared(t, c) => Declared(t, c)'
      <4>1. c \in Gpios => ~ Declared(s, c)
        BY <2>3, <3>2 DEF ClaimedGpioPins
      <4>2. \A t \in Slots \ {s} : Declared(t, c) => Declared(t, c)'
        BY <1>5 DEF Declared
      <4> QED
        BY <4>1, <4>2
    <3> QED
      BY <3>2, <3>3
  <2> QED
    BY <2>2, <2>3
<1>19. WiresAgree'
  <2>1. \A b \in Buses : ~ Waits(b)
    BY <1>1, <1>7 DEF Waits
  <2> QED
    BY <1>3, <1>4, <2>1, WiresKeep DEF IInv, DriversTyped
<1>20. SpiIsAsItsOwnerSetIt'
  <2>1. ASSUME NEW b \in Spis, bopen[b], NEW t, Declared(t, b), t \in Slots PROVE Declared(t, b)'
    <3>1. b \in Devs \ Gpios /\ Open(b)
      BY <2>1, KindsAreApart DEF Open
    <3>2. t # s
      BY <1>9, <2>1, <3>1, OneSlotDeclares DEF IInv
    <3> QED
      BY <1>5, <2>1, <3>2 DEF Declared
  <2>2. \A t : t \notin Slots => res'[t] = res[t]
    BY <1>3
  <2> QED
    BY <1>3, <2>1, <2>2, SpiKeeps DEF Declared
<1>21. ConversionsAgree'
  BY <1>3, ConversionsStay
<1> QED
  BY <1>10, <1>11, <1>12, <1>13, <1>14, <1>17, <1>18, <1>19, <1>20, <1>21 DEF IInv,
      OpensAgree

-----------------------------------------------------------------------------
(* The console's transfer. *)

\* A bus that no module has declared is closed, and its lines are idle.
LEMMA FreeBusIsClosed ==
  ASSUME IInv, sup.at = "idle", NEW b \in Buses, ShellBusFree(b)
  PROVE  ~ bopen[b] /\ wire[b] = "idle"
<1>1. ASSUME bopen[b] PROVE FALSE
  <2>1. b \in Devs \ Gpios /\ Open(b)
    BY <1>1, KindsAreApart DEF Open
  <2>2. \E s \in Slots : Declared(s, b)
    BY <2>1, AllReached DEF IInv, OpensAgree, OpenIsHeld, HeldOpen, Declared
  <2> QED
    BY <2>2 DEF ShellBusFree
<1> QED
  BY <1>1 DEF IInv, WiresAgree, WireAgrees

LEMMA ShellBeginsKeepsIInv ==
  ASSUME IInv, NEW e \in I2cs, Shell_Begins(e)
  PROVE  IInv'
<1>1. /\ UNCHANGED <<res, alive, catalog, call, spi, claimed, up, uopen, irq, sel, running, done, value, wrong>>
      /\ sup.at = "idle" /\ ShellBusFree(e) /\ e \in Buses /\ ~ bopen[e] /\ wire[e] = "idle"
      /\ bopen' = [bopen EXCEPT ![e] = TRUE] /\ wire' = [wire EXCEPT ![e] = "busy"]
      /\ Set(PinsOf[e], e)
      /\ sup' = [at |-> "shell, to release", slot |-> e, i |-> 0, next |-> <<>>]
  <2>1. sup.at = "idle" /\ ShellBusFree(e) /\ e \in Buses
    BY DEF Shell_Begins, Shell_Opens, Buses
  <2>2. ~ bopen[e] /\ wire[e] = "idle"
    BY <2>1, FreeBusIsClosed
  <2> QED
    BY <2>1, <2>2 DEF Shell_Begins, Shell_Opens, Drives, slotVars, uartVars, rings, adcVars
<1>2. /\ sup'.at = "shell, to release" /\ sup'.slot = e /\ sup'.next = <<>>
      /\ sup' = [at |-> sup'.at, slot |-> sup'.slot, i |-> sup'.i, next |-> sup'.next]
      /\ ~ Claiming' /\ ~ Releasing' /\ Shelling' /\ ~ Releasing /\ ~ Shelling /\ ~ Claiming
  BY <1>1, AllReached DEF Claiming, Releasing, Shelling
<1>3. /\ e \in Devs \ Gpios /\ e \notin Uarts /\ e \notin Adcs /\ e \notin Spis /\ ~ Open(e)
      /\ bopen \in [Buses -> BOOLEAN] /\ DOMAIN wire = Buses
  BY <1>1, KindsAreApart DEF Open, IInv, DriversTyped
<1>4. /\ bopen' \in [Buses -> BOOLEAN] /\ bopen'[e] /\ \A b \in Buses \ {e} : bopen'[b] = bopen[b]
      /\ DOMAIN wire' = Buses /\ wire'[e] = "busy" /\ \A b \in Buses \ {e} : wire'[b] = wire[b]
  BY <1>1, <1>3
<1>5. \A d : Open(d)' <=> Open(d) \/ d = e
  BY <1>1, <1>3, <1>4 DEF Open
<1>6. \A s, j : Reached(s, j)' /\ Reached(s, j)
  BY <1>1, <1>2, AllReached DEF Reached
<1>7. SlotsTyped'
  BY <1>1, <1>2, EmptySeq DEF IInv, SlotsTyped, Kinds
<1>8. ClaimsApart'
  BY <1>1, <1>2 DEF IInv, ClaimsApart
<1>9. OpenIsHeld'
  <2> SUFFICES ASSUME NEW d \in Devs \ Gpios, Open(d)', d # e
               PROVE  \E t \in Slots : \E j \in DOMAIN res[t] : res[t][j] = d
    BY <1>1, <1>2, <1>6 DEF OpenIsHeld, HeldOpen
  <2>1. Open(d) /\ ~ Shelling
    BY <1>2, <1>5
  <2>2. HeldOpen(d)
    BY <2>1 DEF IInv, OpensAgree, OpenIsHeld
  <2> QED
    BY <2>1, <2>2 DEF HeldOpen
<1>10. HeldIsOpen'
  <2> SUFFICES ASSUME NEW t \in Slots, NEW j \in DOMAIN res'[t], NEW d, d = res'[t][j], d \notin Gpios
               PROVE  Open(d)' \/ \E v \in Uarts \ {d} : PeriphOf[v] = PeriphOf[d]
    BY DEF HeldIsOpen
  <2>1. Open(d) \/ \E v \in Uarts \ {d} : PeriphOf[v] = PeriphOf[d]
    <3>1. d = res[t][j] /\ j \in DOMAIN res[t] /\ Reached(t, j)
      BY <1>1, <1>6
    <3>2. HeldIsOpen
      BY DEF IInv, OpensAgree
    <3> QED
      BY <3>1, <3>2 DEF HeldIsOpen
  <2> QED
    BY <1>5, <2>1
<1>11. JobAgrees'
  <2>1. res' = res /\ ShellBusFree(e) /\ e \in I2cs
    BY <1>1
  <2>2. ShellBusFree(e)'
    BY <2>1 DEF ShellBusFree, Declared
  <2> QED
    BY <1>2, <1>4, <2>1, <2>2 DEF JobAgrees
<1>12. CallsAgree'
  <2>1. \A t \in Slots : /\ Open(call[t].dev) => Open(call[t].dev)'
                         /\ Declared(t, call[t].dev)' <=> Declared(t, call[t].dev)
    BY <1>1, <1>4, <1>5 DEF Declared
  <2> QED
    BY <1>1, <1>2, <2>1 DEF IInv, CallsAgree
<1>13. conf' = [pin \in Pins |-> IF pin \in PinsOf[e] THEN e ELSE conf[pin]]
  BY <1>1 DEF Set
<1>14. conf' \in [Pins -> Devs \cup {Default}]
  BY <1>3, <1>13 DEF IInv, DriversTyped
<1>15. DriversTyped' /\ OneMapping' /\ LinesAgree'
  BY <1>1, <1>4, <1>14 DEF IInv, DriversTyped, OpensAgree, OneMapping, LinesAgree
<1>16. ConfAgrees'
  <2> SUFFICES ASSUME NEW pin \in Pins, NEW c, c = conf'[pin]
               PROVE  /\ \A d \in Devs \ Gpios : Open(d)' /\ pin \in PinsOf[d] => c = d
                      /\ c \in Spis \cup Adcs => Open(c)' /\ pin \in PinsOf[c]
                      /\ c \in Gpios => pin \in PinsOf[c] /\ \E t \in Slots : Declared(t, c)
    <3>1. \A q \in Pins : \A c : c = conf'[q] => (Open(c)' <=> Open(conf[q])')
      OBVIOUS
    <3>2. \A q \in Pins : \A c : c = conf'[q] => \A t \in Slots : Declared(t, conf[q])' <=> Declared(t, c)
      BY <1>1 DEF Declared
    <3> QED
      BY <1>1, <1>2, <1>14, <3>1, <3>2 DEF ConfAgrees
  <2>1. CASE pin \in PinsOf[e]
    <3>1. c = e /\ \A d \in Devs : pin \in PinsOf[d] => d = e
      BY <1>13, <2>1, KindsAreApart
    <3> QED
      BY <1>3, <3>1, KindsAreApart
  <2>2. CASE pin \notin PinsOf[e]
    <3>1. c = conf[pin]
      BY <1>13, <2>2
    <3>2. /\ \A d \in Devs \ Gpios : Open(d) /\ pin \in PinsOf[d] => c = d
          /\ c \in Spis \cup Adcs => Open(c) /\ pin \in PinsOf[c]
          /\ c \in Gpios => pin \in PinsOf[c] /\ \E t \in Slots : Declared(t, c)
      BY <3>1 DEF IInv, ConfAgrees
    <3> QED
      BY <1>5, <2>2, <3>2
  <2> QED
    BY <2>1, <2>2
<1>17. WiresAgree'
  <2> SUFFICES ASSUME NEW b \in Buses PROVE WireAgrees(b)'
    BY DEF WiresAgree
  <2>1. CASE b = e
    BY <1>2, <1>4, <2>1 DEF WireAgrees
  <2>2. CASE b # e
    <3>1. WireAgrees(b) /\ ~ Waits(b) /\ ~ (Shelling /\ sup.slot = b)
      BY <1>1, <1>2, <2>2 DEF IInv, WiresAgree, Waits
    <3>2. wire'[b] = wire[b] /\ bopen'[b] = bopen[b]
      BY <1>4, <2>2
    <3> QED
      BY <1>1, <3>1, <3>2 DEF WireAgrees
  <2> QED
    BY <2>1, <2>2
<1>18. SpiIsAsItsOwnerSetIt'
  <2>1. \A b \in Spis : bopen'[b] => bopen[b]
    BY <1>3, <1>4 DEF Buses
  <2> QED
    BY <1>1, <2>1, SpiKeeps DEF Declared
<1>19. ConversionsAgree'
  BY <1>1, ConversionsStay
<1> QED
  BY <1>7, <1>8, <1>9, <1>10, <1>11, <1>12, <1>15, <1>16, <1>17, <1>18, <1>19 DEF IInv,
      OpensAgree

LEMMA ShellEndsKeepsIInv ==
  ASSUME IInv, Shell_Ends
  PROVE  IInv'
<1>1. PICK e \in I2cs : e = sup.slot
  BY DEF Shell_Ends, IInv, SlotsTyped, Kinds, OpensAgree, JobAgrees, Shelling
<1>2. /\ UNCHANGED <<res, alive, catalog, call, spi, conf, claimed, up, uopen, irq, sel, running, done, value, wrong>>
      /\ sup.at = "shell, to release" /\ Shelling /\ ShellBusFree(e) /\ e \in Buses /\ bopen[e]
      /\ bopen' = [bopen EXCEPT ![e] = FALSE] /\ wire' = [wire EXCEPT ![e] = "idle"]
      /\ sup' = [at |-> "idle", slot |-> NoDev, i |-> 0, next |-> <<>>]
  <2>1. sup.at = "shell, to release"
    BY DEF Shell_Ends, IInv, SlotsTyped, Kinds
  <2>2. Shelling /\ ShellBusFree(e) /\ bopen[e] /\ e \in Buses
    BY <1>1, <2>1 DEF IInv, OpensAgree, JobAgrees, Shelling, Buses
  <2>3. (sup.at = "shell") = FALSE
    BY <2>1
  <2> QED
    BY <1>1, <2>1, <2>2, <2>3 DEF Shell_Ends, Shell_Closes, Idle, slotVars, uartVars, rings,
        adcVars
<1>3. /\ sup'.at = "idle" /\ sup'.next = <<>>
      /\ sup' = [at |-> sup'.at, slot |-> sup'.slot, i |-> sup'.i, next |-> sup'.next]
      /\ ~ Claiming' /\ ~ Releasing' /\ ~ Shelling' /\ ~ Releasing /\ ~ Claiming
  BY <1>2 DEF Claiming, Releasing, Shelling
<1>4. /\ e \in Devs \ Gpios /\ e \notin Uarts /\ e \notin Adcs /\ e \notin Spis
      /\ bopen \in [Buses -> BOOLEAN] /\ DOMAIN wire = Buses
  BY <1>2, KindsAreApart DEF IInv, DriversTyped
<1>5. /\ bopen' \in [Buses -> BOOLEAN] /\ ~ bopen'[e] /\ \A b \in Buses \ {e} : bopen'[b] = bopen[b]
      /\ DOMAIN wire' = Buses /\ wire'[e] = "idle" /\ \A b \in Buses \ {e} : wire'[b] = wire[b]
  BY <1>2, <1>4
<1>6. \A d : Open(d)' <=> Open(d) /\ d # e
  BY <1>2, <1>4, <1>5 DEF Open
<1>7. \A s, j : Reached(s, j)' /\ Reached(s, j)
  BY <1>3 DEF Reached
<1>8. ASSUME NEW t \in Slots, NEW d, Declared(t, d) PROVE d # e
  BY <1>2, <1>8 DEF ShellBusFree
<1>9. SlotsTyped'
  <2>1. UNCHANGED <<catalog, res, alive, call>> /\ SlotsTyped
    BY <1>2 DEF IInv
  <2>2. sup'.at \in Kinds /\ sup'.next \in Seq(Devs)
    BY <1>3, EmptySeq DEF Kinds
  <2> QED
    BY <1>3, <2>1, <2>2 DEF SlotsTyped
<1>10. ClaimsApart'
  BY <1>2, <1>3 DEF IInv, ClaimsApart
<1>11. OpenIsHeld'
  <2> SUFFICES ASSUME NEW d \in Devs \ Gpios, Open(d)' PROVE HeldOpen(d)'
    BY DEF OpenIsHeld
  <2> SUFFICES \E t \in Slots : \E j \in DOMAIN res[t] : res[t][j] = d
    BY <1>2, <1>7 DEF HeldOpen
  <2>1. Open(d) /\ d # e
    BY <1>6
  <2>2. HeldOpen(d)
    BY <2>1 DEF IInv, OpensAgree, OpenIsHeld
  <2> QED
    BY <1>1, <2>1, <2>2 DEF HeldOpen
<1>12. HeldIsOpen'
  <2> SUFFICES ASSUME NEW t \in Slots, NEW j \in DOMAIN res'[t], NEW d, d = res'[t][j], d \notin Gpios
               PROVE  Open(d)' \/ \E v \in Uarts \ {d} : PeriphOf[v] = PeriphOf[d]
    BY DEF HeldIsOpen
  <2>1. Open(d) \/ \E v \in Uarts \ {d} : PeriphOf[v] = PeriphOf[d]
    <3>1. d = res[t][j] /\ j \in DOMAIN res[t] /\ Reached(t, j)
      BY <1>2, <1>7
    <3>2. HeldIsOpen
      BY DEF IInv, OpensAgree
    <3> QED
      BY <3>1, <3>2 DEF HeldIsOpen
  <2> QED
    BY <1>2, <1>6, <1>8, <2>1 DEF Declared
<1>13. JobAgrees'
  BY <1>3 DEF JobAgrees
<1>14. CallsAgree'
  <2>1. ASSUME NEW t \in Slots, call[t] # NoCall
        PROVE  alive[t] /\ Declared(t, call[t].dev) /\ Open(call[t].dev) /\ call[t].dev # e
    BY <1>8, <2>1 DEF IInv, CallsAgree
  <2>2. \A t \in Slots : /\ Open(call[t].dev) /\ call[t].dev # e => Open(call[t].dev)'
                         /\ Declared(t, call[t].dev)' <=> Declared(t, call[t].dev)
    BY <1>2, <1>5 DEF Open, Declared
  <2> QED
    BY <1>2, <1>3, <2>1, <2>2 DEF CallsAgree
<1>15. DriversTyped' /\ OneMapping' /\ LinesAgree'
  BY <1>2, <1>5 DEF IInv, DriversTyped, OpensAgree, OneMapping, LinesAgree
<1>16. ConfAgrees'
  <2>1. \A d \in Spis \cup Adcs : Open(d) => Open(d)'
    BY <1>4, <1>6
  <2> QED
    BY <1>2, <1>3, <1>6, <2>1, ConfKeeps
<1>17. WiresAgree'
  <2> SUFFICES ASSUME NEW b \in Buses PROVE WireAgrees(b)'
    BY DEF WiresAgree
  <2>1. CASE b = e
    BY <1>5, <2>1 DEF WireAgrees
  <2>2. CASE b # e
    <3>1. WireAgrees(b) /\ ~ Waits(b) /\ ~ (Shelling /\ sup.slot = b)
      BY <1>1, <1>2, <1>3, <2>2 DEF IInv, WiresAgree, Waits
    <3>2. wire'[b] = wire[b] /\ bopen'[b] = bopen[b]
      BY <1>5, <2>2
    <3> QED
      BY <1>2, <3>1, <3>2 DEF WireAgrees
  <2> QED
    BY <2>1, <2>2
<1>18. SpiIsAsItsOwnerSetIt'
  <2>1. \A b \in Spis : bopen'[b] => bopen[b]
    BY <1>4, <1>5 DEF Buses
  <2> QED
    BY <1>2, <2>1, SpiKeeps DEF Declared
<1>19. ConversionsAgree'
  BY <1>2, ConversionsStay
<1> QED
  BY <1>9, <1>10, <1>11, <1>12, <1>13, <1>14, <1>15, <1>16, <1>17, <1>18, <1>19 DEF IInv,
      OpensAgree

-----------------------------------------------------------------------------
(* The theorems. *)

LEMMA InitInv == DevInit => IInv
<1> SUFFICES ASSUME DevInit PROVE IInv
  OBVIOUS
<1>1. /\ res = [s \in Slots |-> <<>>] /\ alive = [s \in Slots |-> FALSE] /\ call = [s \in Slots |-> NoCall]
      /\ catalog \in Catalogs /\ sup = [at |-> "idle", slot |-> NoDev, i |-> 0, next |-> <<>>]
      /\ conf = [pin \in Pins |-> Default]
      /\ uopen = [u \in Uarts |-> FALSE] /\ irq = [p \in Periphs |-> FALSE]
      /\ bopen = [b \in Buses |-> FALSE] /\ wire = [b \in Buses |-> "idle"]
      /\ spi = [b \in Spis |-> [mode |-> 0, hz |-> SpiDefault, asked |-> SpiDefault, by |-> NoDev]]
      /\ claimed = [c \in Adcs |-> FALSE] /\ up = FALSE /\ done = FALSE /\ wrong = {}
  BY DEF DevInit, UartInit, BusesInit, AdcInit, Idle
<1>2. /\ sup.at = "idle" /\ sup.next = <<>>
      /\ sup = [at |-> sup.at, slot |-> sup.slot, i |-> sup.i, next |-> sup.next]
      /\ ~ Claiming /\ ~ Releasing /\ ~ Shelling
  BY <1>1 DEF Claiming, Releasing, Shelling
<1>3. /\ \A d : ~ Open(d)
      /\ \A s \in Slots : DOMAIN res[s] = {} /\ \A d : ~ Declared(s, d)
  BY <1>1 DEF Open, Declared
<1>4. SlotsTyped
  BY <1>1, <1>2, EmptySeq DEF SlotsTyped, Kinds, CallOf, NoCall
<1>5. DriversTyped
  <2>1. \A b \in Spis : spi[b] = [mode |-> spi[b].mode, hz |-> spi[b].hz, asked |-> spi[b].asked, by |-> spi[b].by]
    BY <1>1
  <2> QED
    BY <1>1, <2>1 DEF DriversTyped
<1>6. ClaimsApart
  BY <1>2, <1>3 DEF ClaimsApart, Fits, Apart
<1>7. OpensAgree
  BY <1>1, <1>2, <1>3 DEF OpensAgree, OpenIsHeld, HeldIsOpen, JobAgrees, OneMapping
<1>8. LinesAgree
  <2>1. \A p \in Periphs : ~ irq[p]
    BY <1>1
  <2> QED
    BY <1>1, <1>2, <2>1 DEF LinesAgree
<1>9. CallsAgree
  BY <1>1, <1>2 DEF CallsAgree
<1>10. ConfAgrees
  BY <1>1, <1>2, <1>3, KindsAreApart DEF ConfAgrees
<1>11. WiresAgree
  BY <1>1 DEF WiresAgree, WireAgrees
<1>12. SpiIsAsItsOwnerSetIt
  BY <1>1 DEF SpiIsAsItsOwnerSetIt, Buses
<1>13. ConversionsAgree
  BY <1>1 DEF ConversionsAgree, Converting, NoCall, Steps
<1> QED
  BY <1>4, <1>5, <1>6, <1>7, <1>8, <1>9, <1>10, <1>11, <1>12, <1>13 DEF IInv

LEMMA SupervisorKeepsIInv ==
  ASSUME IInv, SupervisorStep
  PROVE  IInv'
<1>1. ASSUME NEW s \in Slots, NEW image \in catalog, Load(s, image)
      PROVE  IInv'
  <2>1. CASE res[s] = <<>>
    BY <1>1, <2>1, LoadKeepsIInv
  <2>2. CASE res[s] # <<>>
    <3>1. sup.at = "idle" /\ ResCheck(image, s) /\ ReclaimFor(s, image)
      BY <1>1, <2>2 DEF Load
    <3> QED
      BY <3>1, ImageIsTyped, CheckedFits, ReclaimKeepsIInv
  <2> QED
    BY <2>1, <2>2
<1> QED
  BY <1>1, UnloadKeepsIInv, ClaimNothingKeepsIInv, ClaimBusKeepsIInv, ClaimAdcKeepsIInv, ClaimUartKeepsIInv,
     ClaimUartIrqKeepsIInv, ClaimUartOpenKeepsIInv, ClaimEndsKeepsIInv, ReleaseNothingKeepsIInv,
     ReleaseBusKeepsIInv, ReleaseAdcKeepsIInv, ReleaseUartKeepsIInv, ReleaseUartClosesKeepsIInv,
     ReleaseEndsKeepsIInv, ShellBeginsKeepsIInv, ShellEndsKeepsIInv DEF SupervisorStep

LEMMA NextInv ==
  ASSUME IInv, [DevNext]_devVars
  PROVE  IInv'
<1>1. CASE UNCHANGED devVars
  BY <1>1, NothingKeepsIInv DEF devVars, slotVars, uartVars, rings, busVars, adcVars
<1>2. ASSUME NEW s \in Slots, ModuleStep(s)
      PROVE  IInv'
  BY <1>2, UartCallKeepsIInv, BusCallKeepsIInv, AdcCallKeepsIInv, GpioKeepsIInv
      DEF ModuleStep
<1> QED
  BY <1>1, <1>2, SupervisorKeepsIInv, InterruptsKeepIInv, CompletesKeepsIInv DEF DevNext

(* The invariant of the slots, the drivers, the pins and the calls in them  *)
(* holds at every moment, whoever runs and whichever interrupt comes        *)
(* (supervisor.c:134-170, 296-317; host_uart.c, host_i2c.c, host_spi.c and  *)
(* host_adc.c).                                                             *)
THEOREM DevicesInvariant == DevSpec => []IInv
<1>1. DevInit => IInv
  BY InitInv
<1>2. IInv /\ [DevNext]_devVars => IInv'
  BY NextInv
<1> QED
  BY <1>1, <1>2, PTL DEF DevSpec

(* Between two jobs of the supervisor the open devices and the pins are     *)
(* those of the declarations, for any images and any pin table              *)
(* (supervisor.c:134-170, 296-317; host_api.c:430-459).                     *)
THEOREM DevicesAlwaysFollowTheClaims == DevSpec => []DevicesFollowTheClaims
<1>1. IInv => DevicesFollowTheClaims
  <2> SUFFICES ASSUME IInv, sup.at = "idle"
               PROVE  /\ \A d \in Devs \ Gpios :
                           /\ Open(d) => /\ \E s \in Slots : Declared(s, d)
                                         /\ \A pin \in PinsOf[d] : conf[pin] = d
                           /\ \A s \in Slots : Declared(s, d) =>
                                Open(d) \/ \E v \in Uarts \ {d} : PeriphOf[v] = PeriphOf[d]
                      /\ \A u, v \in Uarts : uopen[u] /\ uopen[v] /\ PeriphOf[u] = PeriphOf[v] => u = v
                      /\ \A pin \in Pins : ~ HeldByModule(pin, NoDev) => conf[pin] \in {Default} \cup Uarts \cup I2cs
                      /\ up <=> \E c \in Adcs : claimed[c]
    BY DEF DevicesFollowTheClaims
  <2>1. ASSUME NEW d \in Devs \ Gpios, Open(d)
        PROVE  (\E s \in Slots : Declared(s, d)) /\ \A pin \in PinsOf[d] : conf[pin] = d
    <3>1. \E s \in Slots : Declared(s, d)
      BY <2>1, AllReached DEF IInv, OpensAgree, OpenIsHeld, HeldOpen, Declared
    <3>2. \A pin \in PinsOf[d] : pin \in Pins
      BY DEF Pins
    <3> QED
      BY <2>1, <3>1, <3>2 DEF IInv, ConfAgrees
  <2>2. ASSUME NEW d \in Devs \ Gpios, NEW s \in Slots, Declared(s, d)
        PROVE  Open(d) \/ \E v \in Uarts \ {d} : PeriphOf[v] = PeriphOf[d]
    BY <2>2, AllReached DEF IInv, OpensAgree, HeldIsOpen, Declared
  <2>3. ASSUME NEW pin \in Pins, ~ HeldByModule(pin, NoDev)
        PROVE  conf[pin] \in {Default} \cup Uarts \cup I2cs
    <3> DEFINE c == conf[pin]
    <3>1. c \in Devs \cup {Default}
      BY DEF IInv, DriversTyped
    <3>2. \A s \in Slots : \A d : Declared(s, d) => pin \notin PinsOf[d]
      BY <2>3, KindsAreApart DEF HeldByModule, Declared
    <3>3. c \notin Gpios
      BY <3>2 DEF IInv, ConfAgrees
    <3>4. c \notin Spis \cup Adcs
      <4> SUFFICES ASSUME c \in Spis \cup Adcs PROVE FALSE
        OBVIOUS
      <4>1. Open(c) /\ pin \in PinsOf[c] /\ c \in Devs \ Gpios
        BY KindsAreApart DEF IInv, ConfAgrees
      <4> QED
        BY <2>1, <3>2, <4>1
    <3> QED
      BY <3>1, <3>3, <3>4, KindsAreApart
  <2> QED
    BY <2>1, <2>2, <2>3 DEF IInv, OpensAgree, OneMapping
<1> QED
  BY <1>1, DevicesInvariant, PTL

(* An interrupt that nobody serves comes within one claim, before it sets   *)
(* open, and nowhere else, whichever peripherals and instances there are    *)
(* (host_uart.c:56-65, 228-234, 262-272).                                   *)
THEOREM OnlyAClaimSticks == DevSpec => []OnlyAClaimCanStick
<1>1. IInv => OnlyAClaimCanStick
  <2> SUFFICES ASSUME IInv, NEW p \in Periphs, Pending(p), Serves(p) = {}
               PROVE  sup.at = "open" /\ PeriphOf[Dev] = p
    BY DEF OnlyAClaimCanStick
  <2>1. irq[p]
    BY DEF Pending
  <2>2. p \in LooksUp
    BY DEF Serves, Periphs
  <2>3. ~ \E u \in Uarts : PeriphOf[u] = p /\ uopen[u]
    BY DEF Serves
  <2> QED
    BY <2>1, <2>2, <2>3 DEF IInv, LinesAgree
<1> QED
  BY <1>1, DevicesInvariant, PTL

(* No two transfers meet on a bus, also not when an unload broke the first  *)
(* one off or the console drives the bus (host_i2c.c:202-246, 308-330).     *)
THEOREM WiresStayClean == DevSpec => []WireIsNeverGarbled
<1>1. IInv => WireIsNeverGarbled
  BY DEF IInv, WiresAgree, WireAgrees, WireIsNeverGarbled
<1> QED
  BY <1>1, DevicesInvariant, PTL

(* An SPI bus runs as its present owner set it up, for any dividers and     *)
(* speeds (host_spi.c:86-94, 213-215).                                      *)
THEOREM SpiStaysAsSet == DevSpec => []SpiIsAsItsOwnerSetIt
<1>1. IInv => SpiIsAsItsOwnerSetIt
  BY DEF IInv
<1> QED
  BY <1>1, DevicesInvariant, PTL

(* A reading that no other module's overlapped is of the module's own pin   *)
(* and in time, for any number of modules and channels                      *)
(* (host_adc.c:149-165).                                                    *)
THEOREM ReadingsStayUnmixed == DevSpec => []OnlyAnOverlapMixesReadings
<1>1. IInv => OnlyAnOverlapMixesReadings
  BY DEF IInv, ConversionsAgree, OnlyAnOverlapMixesReadings
<1> QED
  BY <1>1, DevicesInvariant, PTL

-----------------------------------------------------------------------------
(* A receive ring: what is at each place, and what a byte does to it. *)

\* Of a ring r that is read at t, after l was read: what is read i-th.
EntryOf(r, t, l, i) == IF i = 0 THEN l ELSE r[(t + i - 1) % Ring]

Count(h, t) == (h - t) % Ring

Ordered(h, t, r, l, x, lp, n, d, o, w, z) ==
  /\ \A i, j \in 0 .. Count(h, t) : i < j => EntryOf(r, t, l, i) < EntryOf(r, t, l, j)
  /\ \A i \in 0 .. Count(h, t) : EntryOf(r, t, l, i) <= n /\ (d # 0 => EntryOf(r, t, l, i) < d)
  /\ \A i \in 1 .. Count(h, t) : EntryOf(r, t, l, i) > w \/ EntryOf(r, t, l, i) = z
  /\ d # 0 => d > w \/ d = z
  /\ x = 0 /\ ~ lp /\ ~ o =>
       /\ \A i \in 0 .. Count(h, t) : EntryOf(r, t, l, i) = l + i
       /\ l + Count(h, t) + (IF d # 0 THEN 1 ELSE 0) = n

RingTyped(h, t, r, l, x, lp) ==
  /\ h \in 0 .. Ring - 1 /\ t \in 0 .. Ring - 1 /\ r \in [0 .. Ring - 1 -> Nat]
  /\ l \in Nat /\ x \in Nat /\ lp \in BOOLEAN

RegisterTyped(n, d, o) ==
  /\ n \in Nat /\ d \in Nat /\ o \in BOOLEAN
  /\ d <= n /\ (d # 0 /\ ~ o => d = n)

LEMMA RingSize == Ring \in Nat /\ Ring >= 2
  BY UartAssumption

LEMMA Wraps ==
  ASSUME NEW n \in Nat \ {0}, NEW x \in Int
  PROVE  /\ x \in 0 .. n - 1 => x % n = x
         /\ x \in -n .. -1 => x % n = x + n
         /\ x \in n .. n + n - 1 => x % n = x - n
  OBVIOUS

LEMMA PlaceIs ==
  ASSUME NEW t \in 0 .. Ring - 1, NEW i \in 0 .. Ring
  PROVE  /\ (t + i) % Ring = IF t + i < Ring THEN t + i ELSE t + i - Ring
         /\ (t + i) % Ring \in 0 .. Ring - 1
<1>1. t + i \in Int /\ Ring \in Nat \ {0} /\ t + i >= 0 /\ t + i <= Ring + Ring - 1
  BY RingSize
<1> DEFINE x == t + i
<1>2. x \in 0 .. Ring - 1 \/ x \in Ring .. Ring + Ring - 1
  BY <1>1
<1>3. x \in Int BY <1>1
<1> HIDE DEF x
<1>4. /\ x \in 0 .. Ring - 1 => x % Ring = x
      /\ x \in Ring .. Ring + Ring - 1 => x % Ring = x - Ring
  BY <1>1, <1>3, Wraps
<1>5. x % Ring = IF x < Ring THEN x ELSE x - Ring
  BY <1>1, <1>2, <1>4
<1>6. x % Ring \in 0 .. Ring - 1
  BY <1>1, <1>2, <1>4
<1> QED
  BY <1>1, <1>5, <1>6 DEF x

LEMMA CountIs ==
  ASSUME NEW h \in 0 .. Ring - 1, NEW t \in 0 .. Ring - 1
  PROVE  /\ Count(h, t) = IF t <= h THEN h - t ELSE h - t + Ring
         /\ Count(h, t) \in 0 .. Ring - 1
<1> DEFINE x == h - t
<1>1. /\ x \in Int /\ Ring \in Nat \ {0} /\ x >= - (Ring - 1) /\ x <= Ring - 1
      /\ (t <= h <=> x >= 0)
  BY RingSize
<1> HIDE DEF x
<1>2. x \in 0 .. Ring - 1 \/ x \in -Ring .. -1
  BY <1>1
<1>3. /\ x \in 0 .. Ring - 1 => x % Ring = x
      /\ x \in -Ring .. -1 => x % Ring = x + Ring
  BY <1>1, Wraps
<1>4. x % Ring = IF t <= h THEN x ELSE x + Ring
  BY <1>1, <1>2, <1>3
<1>5. x % Ring \in 0 .. Ring - 1
  BY <1>1, <1>2, <1>3
<1> QED
  BY <1>4, <1>5 DEF x, Count

\* What the reader finds behind the first byte, with one byte read.
LEMMA EntryTyped ==
  ASSUME NEW t \in 0 .. Ring - 1, NEW r \in [0 .. Ring - 1 -> Nat], NEW l \in Nat, NEW i \in 0 .. Ring
  PROVE  EntryOf(r, t, l, i) \in Nat
<1>1. CASE i = 0
  BY <1>1 DEF EntryOf
<1>2. CASE i # 0
  <2>1. i - 1 \in 0 .. Ring /\ t + i - 1 = t + (i - 1)
    BY <1>2, RingSize
  <2> QED
    BY <1>2, <2>1, PlaceIs DEF EntryOf
<1> QED
  BY <1>1, <1>2

\* A byte arrives at a free register, or is lost at one that is not.
LEMMA ByteArrives ==
  ASSUME NEW h, NEW t, NEW r, NEW l, NEW x, NEW lp, NEW n, NEW d, NEW o, NEW w \in Nat, NEW z, w <= n,
         RingTyped(h, t, r, l, x, lp), RegisterTyped(n, d, o), Ordered(h, t, r, l, x, lp, n, d, o, w, z)
  PROVE  /\ d = 0 => Ordered(h, t, r, l, x, lp, n + 1, n + 1, o, w, z) /\ RegisterTyped(n + 1, n + 1, o)
         /\ d # 0 => Ordered(h, t, r, l, x, lp, n + 1, d, TRUE, w, z) /\ RegisterTyped(n + 1, d, TRUE)
<1>1. /\ h \in 0 .. Ring - 1 /\ t \in 0 .. Ring - 1 /\ r \in [0 .. Ring - 1 -> Nat] /\ l \in Nat
      /\ n \in Nat /\ d \in Nat
  BY DEF RingTyped, RegisterTyped
<1> DEFINE c == Count(h, t)
<1>2. c \in 0 .. Ring - 1
  BY <1>1, CountIs
<1>3. /\ \A i, j \in 0 .. c : i < j => EntryOf(r, t, l, i) < EntryOf(r, t, l, j)
      /\ \A i \in 0 .. c : EntryOf(r, t, l, i) <= n /\ (d # 0 => EntryOf(r, t, l, i) < d)
      /\ \A i \in 1 .. c : EntryOf(r, t, l, i) > w \/ EntryOf(r, t, l, i) = z
      /\ d # 0 => d > w \/ d = z
      /\ x = 0 /\ ~ lp /\ ~ o =>
           /\ \A i \in 0 .. c : EntryOf(r, t, l, i) = l + i
           /\ l + c + (IF d # 0 THEN 1 ELSE 0) = n
  BY DEF Ordered
<1> HIDE DEF c
<1>4. \A i \in 0 .. c : i \in 0 .. Ring
  BY <1>2, RingSize
<1>5. \A i \in 0 .. c : EntryOf(r, t, l, i) \in Nat
  BY <1>1, <1>4, EntryTyped
<1>6. \A i \in 0 .. c : EntryOf(r, t, l, i) <= n + 1 /\ EntryOf(r, t, l, i) < n + 1
  BY <1>1, <1>3, <1>5
<1>7. c \in Nat
  BY <1>2, RingSize
<1>8. d = 0 => Ordered(h, t, r, l, x, lp, n + 1, n + 1, o, w, z)
  <2> SUFFICES ASSUME d = 0 PROVE Ordered(h, t, r, l, x, lp, n + 1, n + 1, o, w, z)
    OBVIOUS
  <2>1. n + 1 # 0 /\ n + 1 > w
    BY <1>1
  <2>2. x = 0 /\ ~ lp /\ ~ o => l + c + 1 = n + 1
    BY <1>1, <1>3, <1>7
  <2> QED
    BY <1>3, <1>6, <2>1, <2>2 DEF Ordered, c
<1>9. d # 0 => Ordered(h, t, r, l, x, lp, n + 1, d, TRUE, w, z)
  BY <1>3, <1>6 DEF Ordered, c
<1>10. d <= n /\ o \in BOOLEAN
  BY DEF RegisterTyped
<1>11. n + 1 \in Nat /\ d <= n + 1 /\ n + 1 # 0 /\ n + 1 <= n + 1
  BY <1>1, <1>10
<1>12. d = 0 => RegisterTyped(n + 1, n + 1, o)
  BY <1>10, <1>11 DEF RegisterTyped
<1>13. d # 0 => RegisterTyped(n + 1, d, TRUE)
  BY <1>1, <1>11 DEF RegisterTyped
<1> QED
  BY <1>8, <1>9, <1>12, <1>13

\* The interrupt puts the byte behind the others.
LEMMA ByteIsPut ==
  ASSUME NEW h, NEW t, NEW r, NEW l, NEW x, NEW lp, NEW n, NEW d, NEW o, NEW w, NEW z, NEW y, NEW m,
         RingTyped(h, t, r, l, x, lp), RegisterTyped(n, d, o), Ordered(h, t, r, l, x, lp, n, d, o, w, z),
         d # 0, (h + 1) % Ring # t, (y = x /\ m = n) \/ (y = x + 1 /\ m = n + 1)
  PROVE  /\ Ordered((h + 1) % Ring, t, [r EXCEPT ![h] = d], l, y, lp, m, 0, o, w, z)
         /\ RingTyped((h + 1) % Ring, t, [r EXCEPT ![h] = d], l, y, lp)
<1> DEFINE g == (h + 1) % Ring  q == [r EXCEPT ![h] = d]  c == Count(h, t)
<1>1. /\ h \in 0 .. Ring - 1 /\ t \in 0 .. Ring - 1 /\ r \in [0 .. Ring - 1 -> Nat] /\ l \in Nat /\ x \in Nat
      /\ n \in Nat /\ d \in Nat /\ d <= n /\ (~ o => d = n) /\ lp \in BOOLEAN /\ o \in BOOLEAN
  BY DEF RingTyped, RegisterTyped
<1>2. g = (IF h + 1 < Ring THEN h + 1 ELSE h + 1 - Ring) /\ g \in 0 .. Ring - 1
  BY <1>1, PlaceIs, RingSize
<1>3. c = (IF t <= h THEN h - t ELSE h - t + Ring) /\ c \in 0 .. Ring - 1
  BY <1>1, CountIs
<1>4. Count(g, t) = (IF t <= g THEN g - t ELSE g - t + Ring) /\ Count(g, t) \in 0 .. Ring - 1
  BY <1>1, <1>2, CountIs
<1>5. g # t
  OBVIOUS
<1> HIDE DEF g, c
<1>6. Count(g, t) = c + 1 /\ c + 1 \in 0 .. Ring - 1
  <2> DEFINE k == Count(g, t)
  <2>1. k = (IF t <= g THEN g - t ELSE g - t + Ring)
    BY <1>4
  <2> HIDE DEF k
  <2>2. k = c + 1 /\ c + 1 \in 0 .. Ring - 1
    BY <1>1, <1>2, <1>3, <1>5, <2>1, RingSize
  <2> QED
    BY <2>2 DEF k
<1>7. \A i \in 0 .. c : EntryOf(q, t, l, i) = EntryOf(r, t, l, i) /\ EntryOf(r, t, l, i) \in Nat
  <2> SUFFICES ASSUME NEW i \in 0 .. c
               PROVE  EntryOf(q, t, l, i) = EntryOf(r, t, l, i) /\ EntryOf(r, t, l, i) \in Nat
    OBVIOUS
  <2>1. i \in 0 .. Ring /\ i \in Nat /\ i <= c
    BY <1>3, RingSize
  <2>2. CASE i = 0
    BY <1>1, <2>1, <2>2 DEF EntryOf
  <2>3. CASE i # 0
    <3> DEFINE k == i - 1
    <3>1. k \in 0 .. Ring /\ t + i - 1 = t + k /\ k < c
      BY <2>1, <2>3, <1>1, <1>3, RingSize
    <3> HIDE DEF k
    <3>2. (t + k) % Ring = (IF t + k < Ring THEN t + k ELSE t + k - Ring) /\ (t + k) % Ring \in 0 .. Ring - 1
      BY <1>1, <3>1, PlaceIs
    <3> DEFINE a == (t + k) % Ring
    <3>3. a = (IF t + k < Ring THEN t + k ELSE t + k - Ring)
      BY <3>2
    <3> HIDE DEF a
    <3>4. a # h
      BY <1>1, <1>3, <3>1, <3>3, RingSize
    <3> QED
      BY <1>1, <2>3, <3>1, <3>2, <3>4 DEF EntryOf, a
  <2> QED
    BY <2>2, <2>3
<1>8. EntryOf(q, t, l, c + 1) = d
  <2>0. c \in 0 .. Ring
    BY <1>3, RingSize
  <2> DEFINE a == (t + c) % Ring
  <2>1. a = (IF t + c < Ring THEN t + c ELSE t + c - Ring)
    BY <1>1, <2>0, PlaceIs
  <2> HIDE DEF a
  <2>2. a = h
    BY <1>1, <1>3, <2>1, RingSize
  <2>3. t + (c + 1) - 1 = t + c /\ c + 1 # 0
    BY <1>1, <1>3
  <2> QED
    BY <1>1, <2>2, <2>3 DEF EntryOf, a
<1>9. /\ \A i, j \in 0 .. c : i < j => EntryOf(r, t, l, i) < EntryOf(r, t, l, j)
      /\ \A i \in 0 .. c : EntryOf(r, t, l, i) <= n /\ EntryOf(r, t, l, i) < d
      /\ \A i \in 1 .. c : EntryOf(r, t, l, i) > w \/ EntryOf(r, t, l, i) = z
      /\ d > w \/ d = z
      /\ x = 0 /\ ~ lp /\ ~ o => /\ \A i \in 0 .. c : EntryOf(r, t, l, i) = l + i
                                 /\ l + c + 1 = n
  BY DEF Ordered, c
<1> DEFINE E(i) == EntryOf(r, t, l, i)  F(i) == EntryOf(q, t, l, i)
<1>10. c \in Nat /\ \A i \in 0 .. c + 1 : i \in Nat /\ (i \in 0 .. c \/ i = c + 1)
  BY <1>3, RingSize
<1>16. F(c + 1) = d /\ \A i \in 0 .. c : F(i) = E(i) /\ E(i) \in Nat
  BY <1>7, <1>8
<1>17. /\ \A i, j \in 0 .. c : i < j => E(i) < E(j)
       /\ \A i \in 0 .. c : E(i) <= n /\ E(i) < d
       /\ \A i \in 1 .. c : E(i) > w \/ E(i) = z
       /\ x = 0 /\ ~ lp /\ ~ o => /\ \A i \in 0 .. c : E(i) = l + i
                                  /\ l + c + 1 = n
  BY <1>9
<1> HIDE DEF E, F
<1>11. \A i, j \in 0 .. c + 1 : i < j => F(i) < F(j)
  <2>1. ASSUME NEW i \in 0 .. c, NEW j \in 0 .. c, i < j PROVE F(i) < F(j)
    BY <1>16, <1>17, <2>1
  <2>2. \A i \in 0 .. c : F(i) < F(c + 1)
    BY <1>16, <1>17
  <2>3. \A i \in 0 .. c + 1 : ~ (c + 1 < i) /\ (i = c + 1 => ~ (i < i))
    BY <1>10
  <2> QED
    BY <1>10, <2>1, <2>2, <2>3
<1>12. \A i \in 0 .. c + 1 : F(i) <= m
  <2>1. m \in Nat /\ n <= m /\ d <= m
    BY <1>1
  <2>2. \A i \in 0 .. c : F(i) \in Nat /\ F(i) <= n
    BY <1>16, <1>17
  <2>3. \A i \in 0 .. c : F(i) <= m
    BY <1>1, <2>1, <2>2
  <2> QED
    BY <1>10, <1>16, <2>1, <2>3
<1>18. \A i \in 1 .. c + 1 : F(i) > w \/ F(i) = z
  <2>1. \A i \in 1 .. c + 1 : (i \in 1 .. c /\ i \in 0 .. c) \/ i = c + 1
    BY <1>10
  <2> QED
    BY <1>9, <1>16, <1>17, <2>1
<1>13. y = 0 /\ ~ lp /\ ~ o => /\ \A i \in 0 .. c + 1 : F(i) = l + i
                               /\ l + (c + 1) + 0 = m
  <2> SUFFICES ASSUME y = 0, ~ lp, ~ o
               PROVE  (\A i \in 0 .. c + 1 : F(i) = l + i) /\ l + (c + 1) + 0 = m
    OBVIOUS
  <2>1. x = 0 /\ m = n
    BY <1>1
  <2>2. l + c + 1 = n /\ d = n
    BY <1>1, <1>17, <2>1
  <2>3. \A i \in 0 .. c : F(i) = l + i
    BY <1>16, <1>17, <2>1, ~ lp, ~ o
  <2>4. l + (c + 1) = n /\ l + (c + 1) + 0 = n
    <3>1. l \in Nat /\ c \in Nat /\ n \in Nat
      BY <1>1, <1>10
    <3> QED
      BY <2>2, <3>1
  <2>5. F(c + 1) = l + (c + 1)
    BY <1>16, <2>2, <2>4
  <2> QED
    BY <1>10, <2>1, <2>3, <2>4, <2>5
<1>14. Ordered(g, t, q, l, y, lp, m, 0, o, w, z)
  BY <1>6, <1>11, <1>12, <1>13, <1>18 DEF Ordered, F
<1>19. y \in Nat
  BY <1>1
<1>15. RingTyped(g, t, q, l, y, lp)
  BY <1>1, <1>2, <1>19 DEF RingTyped
<1> QED
  BY <1>14, <1>15 DEF g

\* The ring is full: the byte is lost and counted.
LEMMA ByteIsLost ==
  ASSUME NEW h, NEW t, NEW r, NEW l, NEW x, NEW lp, NEW n, NEW d, NEW o, NEW w, NEW z,
         NEW y \in Nat, y > x, NEW m \in Nat, m >= n,
         RingTyped(h, t, r, l, x, lp), RegisterTyped(n, d, o), Ordered(h, t, r, l, x, lp, n, d, o, w, z)
  PROVE  Ordered(h, t, r, l, y, lp, m, 0, o, w, z) /\ RingTyped(h, t, r, l, y, lp)
<1>1. /\ h \in 0 .. Ring - 1 /\ t \in 0 .. Ring - 1 /\ r \in [0 .. Ring - 1 -> Nat] /\ l \in Nat
      /\ n \in Nat /\ x \in Nat
  BY DEF RingTyped, RegisterTyped
<1>2. \A i \in 0 .. Count(h, t) : EntryOf(r, t, l, i) \in Nat
  <2>1. Count(h, t) \in 0 .. Ring - 1
    BY <1>1, CountIs
  <2>2. \A i \in 0 .. Count(h, t) : i \in 0 .. Ring
    BY <2>1, RingSize
  <2> QED
    BY <1>1, <2>2, EntryTyped
<1>3. \A i \in 0 .. Count(h, t) : EntryOf(r, t, l, i) <= m
  BY <1>1, <1>2 DEF Ordered
<1> QED
  BY <1>1, <1>3 DEF Ordered, RingTyped

\* The reader takes the first byte.
LEMMA ByteIsTaken ==
  ASSUME NEW h, NEW t, NEW r, NEW l, NEW x, NEW lp, NEW n, NEW d, NEW o, NEW w, NEW z,
         RingTyped(h, t, r, l, x, lp), RegisterTyped(n, d, o), Ordered(h, t, r, l, x, lp, n, d, o, w, z), h # t
  PROVE  /\ Ordered(h, (t + 1) % Ring, r, r[t], x, lp, n, d, o, w, z)
         /\ RingTyped(h, (t + 1) % Ring, r, r[t], x, lp)
<1> DEFINE u == (t + 1) % Ring  c == Count(h, t)  m == r[t]
<1>1. /\ h \in 0 .. Ring - 1 /\ t \in 0 .. Ring - 1 /\ r \in [0 .. Ring - 1 -> Nat] /\ l \in Nat /\ x \in Nat
      /\ n \in Nat /\ d \in Nat /\ lp \in BOOLEAN /\ o \in BOOLEAN /\ m \in Nat
  BY DEF RingTyped, RegisterTyped
<1>2. u = (IF t + 1 < Ring THEN t + 1 ELSE t + 1 - Ring) /\ u \in 0 .. Ring - 1
  BY <1>1, PlaceIs, RingSize
<1>3. c = (IF t <= h THEN h - t ELSE h - t + Ring) /\ c \in 0 .. Ring - 1
  BY <1>1, CountIs
<1>4. Count(h, u) = (IF u <= h THEN h - u ELSE h - u + Ring)
  BY <1>1, <1>2, CountIs
<1> HIDE DEF u, c
<1>5. Count(h, u) = c - 1 /\ c - 1 \in 0 .. Ring - 1
  <2> DEFINE k == Count(h, u)
  <2>1. k = (IF u <= h THEN h - u ELSE h - u + Ring)
    BY <1>4
  <2> HIDE DEF k
  <2>2. k = c - 1 /\ c - 1 \in 0 .. Ring - 1
    BY <1>1, <1>2, <1>3, <2>1, RingSize
  <2> QED
    BY <2>2 DEF k
<1>6. \A i \in 0 .. c - 1 : EntryOf(r, u, m, i) = EntryOf(r, t, l, i + 1)
  <2> SUFFICES ASSUME NEW i \in 0 .. c - 1
               PROVE  EntryOf(r, u, m, i) = EntryOf(r, t, l, i + 1)
    OBVIOUS
  <2>1. i \in 0 .. Ring /\ i + 1 # 0 /\ t + (i + 1) - 1 = t + i
    BY <1>1, <1>3, RingSize
  <2>2. CASE i = 0
    <3>1. (t + 0) % Ring = t
      <4>1. 0 \in 0 .. Ring /\ t + 0 = t /\ t < Ring
        BY <1>1, RingSize
      <4> QED
        BY <1>1, <4>1, PlaceIs
    <3> QED
      BY <2>1, <2>2, <3>1 DEF EntryOf
  <2>3. CASE i # 0
    <3> DEFINE k == i - 1
    <3>1. k \in 0 .. Ring /\ u + i - 1 = u + k /\ i = k + 1 /\ i \in 0 .. Ring - 1
      BY <1>2, <1>3, <2>1, <2>3, RingSize
    <3> HIDE DEF k
    <3>2. (u + k) % Ring = IF u + k < Ring THEN u + k ELSE u + k - Ring
      BY <1>2, <3>1, PlaceIs
    <3>3. (t + i) % Ring = IF t + i < Ring THEN t + i ELSE t + i - Ring
      BY <1>1, <2>1, PlaceIs
    <3>4. (u + k) % Ring = (t + i) % Ring
      <4>1. t \in Nat /\ i \in Nat /\ t < Ring /\ i < Ring /\ u \in Nat /\ k \in Nat /\ Ring \in Nat
        BY <1>1, <1>2, <3>1, RingSize
      <4>2. CASE u = t + 1
        <5>1. u + k = t + i
          BY <3>1, <4>1, <4>2
        <5> QED
          BY <5>1
      <4>3. CASE u = 0 /\ t + 1 = Ring
        <5>1. u + k = t + i - Ring /\ u + k < Ring /\ ~ (t + i < Ring)
          BY <3>1, <4>1, <4>3
        <5> QED
          BY <3>2, <3>3, <5>1
      <4>4. u = t + 1 \/ (u = 0 /\ t + 1 = Ring)
        BY <1>1, <1>2, <4>1
      <4> QED
        BY <4>2, <4>3, <4>4
    <3> QED
      BY <2>1, <2>3, <3>1, <3>4 DEF EntryOf
  <2> QED
    BY <2>2, <2>3
<1> DEFINE E(i) == EntryOf(r, t, l, i)
<1>7. /\ \A i, j \in 0 .. c : i < j => E(i) < E(j)
      /\ \A i \in 0 .. c : E(i) <= n /\ (d # 0 => E(i) < d)
      /\ \A i \in 1 .. c : E(i) > w \/ E(i) = z
      /\ d # 0 => d > w \/ d = z
      /\ x = 0 /\ ~ lp /\ ~ o => /\ \A i \in 0 .. c : E(i) = l + i
                                 /\ l + c + (IF d # 0 THEN 1 ELSE 0) = n
  BY DEF Ordered, c
<1>8. m = E(1)
  <2>1. 0 \in 0 .. c - 1 /\ 0 + 1 = 1
    BY <1>3, <1>5
  <2>2. EntryOf(r, u, m, 0) = m
    BY DEF EntryOf
  <2> QED
    BY <1>6, <2>1, <2>2
<1> HIDE DEF E, m
<1> DEFINE F(i) == EntryOf(r, u, m, i)
<1>9. \A i \in 0 .. c - 1 : F(i) = E(i + 1) /\ i + 1 \in 0 .. c
  BY <1>3, <1>6 DEF E
<1> HIDE DEF F
<1>10. \A i, j \in 0 .. c - 1 : i < j => F(i) < F(j)
  BY <1>3, <1>7, <1>9
<1>11. \A i \in 0 .. c - 1 : F(i) <= n /\ (d # 0 => F(i) < d)
  BY <1>7, <1>9
<1>12. 1 \in 0 .. c
  BY <1>3, <1>5
<1>16. \A i \in 1 .. c - 1 : F(i) > w \/ F(i) = z
  <2>1. \A i \in 1 .. c - 1 : i \in 0 .. c - 1 /\ i + 1 \in 1 .. c
    BY <1>3
  <2> QED
    BY <1>7, <1>9, <2>1
<1>13. ASSUME x = 0, ~ lp, ~ o
       PROVE  /\ \A i \in 0 .. c - 1 : F(i) = m + i
              /\ m + (c - 1) + (IF d # 0 THEN 1 ELSE 0) = n
  <2>1. m = l + 1
    BY <1>7, <1>8, <1>12, <1>13
  <2>2. \A i \in 0 .. c - 1 : F(i) = l + (i + 1)
    BY <1>7, <1>9, <1>13
  <2>3. l \in Int /\ c \in Int /\ m + (c - 1) = l + c
    BY <1>1, <1>3, <2>1
  <2>4. \A i \in 0 .. c - 1 : F(i) = m + i
    BY <2>1, <2>2, <2>3
  <2>5. l + c + (IF d # 0 THEN 1 ELSE 0) = n
    BY <1>7, <1>13
  <2> QED
    BY <2>3, <2>4, <2>5
<1>14. Ordered(h, u, r, m, x, lp, n, d, o, w, z)
  BY <1>5, <1>7, <1>10, <1>11, <1>13, <1>16 DEF Ordered, F
<1>15. RingTyped(h, u, r, m, x, lp)
  BY <1>1, <1>2 DEF RingTyped
<1> QED
  BY <1>14, <1>15 DEF u, m

\* A ring that has just been emptied.
LEMMA EmptyIsOrdered ==
  ASSUME NEW r, NEW l \in Nat, NEW x, NEW lp \in BOOLEAN, NEW n, NEW d, NEW o, RegisterTyped(n, d, o),
         NEW w, NEW z, l <= n, d # 0 => l < d, d # 0 => d > w \/ d = z,
         x = 0 /\ ~ lp /\ ~ o => l + (IF d # 0 THEN 1 ELSE 0) = n
  PROVE  Ordered(0, 0, r, l, x, lp, n, d, o, w, z)
<1>1. Count(0, 0) = 0
  BY CountIs, RingSize
<1>2. 0 .. 0 = {0} /\ EntryOf(r, 0, l, 0) = l
  BY DEF EntryOf
<1>3. l + 0 = l
  OBVIOUS
<1> QED
  BY <1>1, <1>2, <1>3 DEF Ordered, RegisterTyped

-----------------------------------------------------------------------------
(* The receive rings: the invariant of the order in which bytes are read. *)

InOrder(u) ==
  Ordered(head[u], tail[u], ring[u], last[u], dropped[u], looped[u],
          sent[PeriphOf[u]], data[PeriphOf[u]], lost[PeriphOf[u]], own[u], stale[u])

\* The rings that have a reader, or are being opened for one.
Watched(u) ==
  \/ /\ uopen[u] /\ ~ Resetting(u)
     /\ ~ (Releasing /\ Declared(sup.slot, u))
  \/ sup.at \in {"irq", "open"} /\ Dev = u

UartTyped ==
  /\ DOMAIN head = Uarts /\ DOMAIN tail = Uarts /\ DOMAIN ring = Uarts
  /\ DOMAIN last = Uarts /\ DOMAIN dropped = Uarts /\ DOMAIN looped = Uarts
  /\ DOMAIN sent = Periphs /\ DOMAIN data = Periphs /\ DOMAIN lost = Periphs
  /\ \A u \in Uarts : RingTyped(head[u], tail[u], ring[u], last[u], dropped[u], looped[u])
  /\ \A p \in Periphs : RegisterTyped(sent[p], data[p], lost[p])

LinesAreOn ==
  /\ \A u \in Uarts : uopen[u] => irq[PeriphOf[u]] \/ (sup.at = "close" /\ Dev = u)
  /\ sup.at = "open" => irq[PeriphOf[Dev]]

\* What a call has in hand is what the ring has at its place.
HandsAgree ==
  \A s \in Slots :
    /\ call[s].at = "copied" => /\ head[call[s].dev] # tail[call[s].dev]
                                /\ call[s].left = ring[call[s].dev][tail[call[s].dev]]
    /\ call[s].at = "tail" => tail[call[s].dev] = 0
    /\ call[s].at = "head" => looped[call[s].dev]

OrderKept == \A u \in Uarts : Watched(u) => InOrder(u)

\* An error flag comes with a byte, and is cleared with it.
FlagsAgree ==
  /\ DOMAIN err = Periphs
  /\ \A p \in Periphs : err[p] => data[p] # 0

OwnersAgree ==
  /\ DOMAIN own = Uarts /\ DOMAIN stale = Uarts
  /\ \A u \in Uarts : own[u] \in Nat /\ own[u] <= sent[PeriphOf[u]]

UartInv == UartTyped /\ FlagsAgree /\ OwnersAgree /\ LinesAreOn /\ HandsAgree /\ OrderKept

LEMMA FlagsStay ==
  ASSUME UartInv, UNCHANGED <<err, data, sent, own, stale>>
  PROVE  FlagsAgree' /\ OwnersAgree'
  BY DEF UartInv, FlagsAgree, OwnersAgree

LEMMA PeriphOfUart == \A u \in Uarts : PeriphOf[u] \in Periphs
  BY DEF Periphs

\* Steps that leave the rings, the lines and the calls of the driver alone.
LEMMA RingsStay ==
  ASSUME UartInv, UNCHANGED uartVars,
         \A s \in Slots : call'[s] # call[s] => call'[s].at \notin UartSteps,
         \A u \in Uarts : Watched(u)' => Watched(u),
         \A u \in Uarts : sup.at = "close" /\ Dev = u => (sup.at = "close" /\ Dev = u)',
         sup'.at = "open" => sup.at = "open" /\ Dev' = Dev
  PROVE  UartInv'
<1>1. UNCHANGED <<uopen, head, tail, ring, dropped, irq, data, err, sent, lost, last, looped, own, stale>>
  BY DEF uartVars, rings, owners
<1>2. UartTyped'
  BY <1>1 DEF UartInv, UartTyped
<1>3. LinesAreOn'
  BY <1>1 DEF UartInv, LinesAreOn
<1>4. HandsAgree'
  BY <1>1 DEF UartInv, HandsAgree, UartSteps
<1>5. OrderKept'
  BY <1>1 DEF UartInv, OrderKept, InOrder
<1> QED
  BY <1>1, <1>2, <1>3, <1>4, <1>5, FlagsStay DEF UartInv

\* Who is in a call of the driver is the reader of an open ring, alone.
LEMMA CallerIsReader ==
  ASSUME IInv, UartInv, NEW s \in Slots, call[s].at \in UartSteps
  PROVE  /\ call[s].dev \in Uarts /\ uopen[call[s].dev] /\ PeriphOf[call[s].dev] \in Periphs
         /\ irq[PeriphOf[call[s].dev]]
         /\ \A t \in Slots : call[t].dev = call[s].dev => t = s
         /\ call[s].at # "tail" => Watched(call[s].dev)
         /\ ~ (Releasing /\ Declared(sup.slot, call[s].dev))
<1> DEFINE u == call[s].dev
<1>1. u \in Uarts /\ call[s] # NoCall /\ u # NoDev
  BY CallRecord, KindsAreApart DEF NoCall, UartSteps
<1>2. alive[s] /\ Declared(s, u) /\ Open(u)
  BY <1>1 DEF IInv, CallsAgree
<1>3. uopen[u]
  BY <1>1, <1>2, KindsAreApart DEF Open
<1>4. \A t \in Slots : call[t].dev = u => t = s
  <2> SUFFICES ASSUME NEW t \in Slots, call[t].dev = u PROVE t = s
    OBVIOUS
  <2>1. Declared(t, u)
    BY <1>1 DEF IInv, CallsAgree, NoCall
  <2> QED
    BY <1>2, <2>1, OneSlotDeclares DEF IInv
<1>5. ~ (Releasing /\ Declared(sup.slot, u))
  <2> SUFFICES ASSUME Releasing, Declared(sup.slot, u) PROVE FALSE
    OBVIOUS
  <2>1. sup.slot \in Slots /\ ~ alive[sup.slot]
    BY DEF IInv, SlotsTyped, CallsAgree
  <2> QED
    BY <1>2, <2>1, OneSlotDeclares DEF IInv
<1>6. ~ (sup.at = "close" /\ Dev = u)
  <2> SUFFICES ASSUME sup.at = "close", Dev = u PROVE FALSE
    OBVIOUS
  <2>1. AtDev(sup.at) /\ Releasing
    BY DEF IInv, OpensAgree, JobAgrees, Releasing
  <2> QED
    BY <1>5, <2>1, AtDeclaration
<1>7. irq[PeriphOf[u]]
  BY <1>1, <1>3, <1>6 DEF UartInv, LinesAreOn
<1>8. call[s].at # "tail" => Watched(u)
  BY <1>3, <1>4, <1>5 DEF Watched, Resetting, Is
<1> QED
  BY <1>1, <1>3, <1>4, <1>5, <1>7, <1>8, PeriphOfUart

\* The instance that an interrupt is served for is the watched one, if any.
LEMMA OneIsWatched ==
  ASSUME IInv, NEW p \in Periphs, NEW v \in Serves(p), NEW u \in Uarts, Watched(u), PeriphOf[u] = p
  PROVE  u = v
<1>1. v \in Uarts /\ PeriphOf[v] = p /\ (p \in LooksUp => uopen[v])
  BY DEF Serves
<1>2. CASE p \notin LooksUp
  BY <1>1, <1>2, UartAssumption
<1>3. CASE p \in LooksUp
  <2>1. CASE uopen[u]
    BY <1>1, <1>3, <2>1 DEF IInv, OpensAgree, OneMapping
  <2>2. CASE sup.at \in {"irq", "open"} /\ Dev = u
    <3>1. ~ UartClaimRefuses(u)
      BY <2>2 DEF IInv, OpensAgree, JobAgrees
    <3> QED
      BY <1>1, <1>3, <3>1 DEF UartClaimRefuses, OtherMappingOpen
  <2> QED
    BY <2>1, <2>2 DEF Watched
<1> QED
  BY <1>2, <1>3

LEMMA WatchedStays ==
  ASSUME UNCHANGED <<uopen, call, sup, res>>, NEW u
  PROVE  Watched(u)' <=> Watched(u)
  BY DEF Watched, Resetting, Releasing, Declared, Dev, Is

LEMMA ByteKeepsOrder ==
  ASSUME IInv, UartInv, NEW p \in Periphs, Byte(p), UNCHANGED <<call, sup, res>>
  PROVE  UartInv'
<1>1. /\ UNCHANGED <<uopen, head, tail, ring, dropped, irq, last, looped, own, stale>>
      /\ sent' = [sent EXCEPT ![p] = sent[p] + 1]
      /\ \/ /\ data[p] = 0 /\ data' = [data EXCEPT ![p] = sent[p] + 1] /\ lost' = lost
         \/ /\ data[p] # 0 /\ lost' = [lost EXCEPT ![p] = TRUE] /\ data' = data
      /\ \E flag : err' = [err EXCEPT ![p] = flag]
  BY DEF Byte, rings, owners
<1>2. UartTyped
  BY DEF UartInv
<1>3. /\ DOMAIN sent' = Periphs /\ DOMAIN data' = Periphs /\ DOMAIN lost' = Periphs
      /\ \A q \in Periphs \ {p} : sent'[q] = sent[q] /\ data'[q] = data[q] /\ lost'[q] = lost[q]
      /\ sent'[p] = sent[p] + 1
      /\ data[p] = 0 => data'[p] = sent[p] + 1 /\ lost'[p] = lost[p]
      /\ data[p] # 0 => data'[p] = data[p] /\ lost'[p] = TRUE
  BY <1>1, <1>2 DEF UartTyped
<1>4. RegisterTyped(sent[p], data[p], lost[p])
  BY <1>2 DEF UartTyped
<1>5. RegisterTyped(sent'[p], data'[p], lost'[p])
  <2>1. CASE data[p] = 0
    <3>1. RegisterTyped(sent[p] + 1, sent[p] + 1, lost[p])
      BY <1>4, <2>1 DEF RegisterTyped
    <3> QED
      BY <1>3, <2>1, <3>1
  <2>2. CASE data[p] # 0
    <3>1. RegisterTyped(sent[p] + 1, data[p], TRUE)
      BY <1>4, <2>2 DEF RegisterTyped
    <3> QED
      BY <1>3, <2>2, <3>1
  <2> QED
    BY <2>1, <2>2
<1>6. UartTyped'
  <2>1. \A q \in Periphs : RegisterTyped(sent'[q], data'[q], lost'[q])
    BY <1>2, <1>3, <1>5 DEF UartTyped
  <2> QED
    BY <1>1, <1>2, <1>3, <2>1 DEF UartTyped
<1>9. sent[p] \in Nat /\ data'[p] # 0
  BY <1>3, <1>4 DEF RegisterTyped
<1>10. FlagsAgree' /\ OwnersAgree'
  <2>1. FlagsAgree'
    BY <1>1, <1>3, <1>9 DEF UartInv, FlagsAgree
  <2>2. \A u \in Uarts : own[u] <= sent'[PeriphOf[u]]
    <3> SUFFICES ASSUME NEW u \in Uarts PROVE own[u] <= sent'[PeriphOf[u]]
      OBVIOUS
    <3>1. own[u] \in Nat /\ own[u] <= sent[PeriphOf[u]] /\ PeriphOf[u] \in Periphs
      BY PeriphOfUart DEF UartInv, OwnersAgree
    <3>2. CASE PeriphOf[u] = p
      BY <1>3, <1>9, <3>1, <3>2
    <3>3. CASE PeriphOf[u] # p
      BY <1>3, <3>1, <3>3
    <3> QED
      BY <3>2, <3>3
  <2> QED
    BY <1>1, <2>1, <2>2 DEF UartInv, OwnersAgree
<1>7. LinesAreOn' /\ HandsAgree'
  BY <1>1 DEF UartInv, LinesAreOn, HandsAgree, Dev
<1>8. OrderKept'
  <2> SUFFICES ASSUME NEW u \in Uarts, Watched(u)' PROVE InOrder(u)'
    BY DEF OrderKept
  <2>1. InOrder(u) /\ PeriphOf[u] \in Periphs
    BY <1>1, WatchedStays, PeriphOfUart DEF UartInv, OrderKept
  <2>2. RingTyped(head[u], tail[u], ring[u], last[u], dropped[u], looped[u])
    BY <1>2 DEF UartTyped
  <2>5. own[u] \in Nat /\ own[u] <= sent[PeriphOf[u]]
    BY DEF UartInv, OwnersAgree
  <2>3. CASE PeriphOf[u] # p
    BY <1>1, <1>3, <2>1, <2>3 DEF InOrder
  <2>4. CASE PeriphOf[u] = p
    <3>1. /\ data[p] = 0 => Ordered(head[u], tail[u], ring[u], last[u], dropped[u], looped[u],
                                    sent[p] + 1, sent[p] + 1, lost[p], own[u], stale[u])
          /\ data[p] # 0 => Ordered(head[u], tail[u], ring[u], last[u], dropped[u], looped[u],
                                    sent[p] + 1, data[p], TRUE, own[u], stale[u])
      BY <1>4, <2>1, <2>2, <2>4, <2>5, ByteArrives DEF InOrder
    <3> QED
      BY <1>1, <1>3, <2>4, <3>1 DEF InOrder
  <2> QED
    BY <2>3, <2>4
<1> QED
  BY <1>6, <1>7, <1>8, <1>10 DEF UartInv

\* What the interrupt does to a ring keeps the types, watched or not.
LEMMA PutKeepsTypes ==
  ASSUME NEW h, NEW t, NEW r, NEW l, NEW x, NEW lp, RingTyped(h, t, r, l, x, lp), NEW d \in Nat, NEW y \in Nat
  PROVE  RingTyped((h + 1) % Ring, t, [r EXCEPT ![h] = d], l, y, lp) /\ RingTyped(h, t, r, l, y, lp)
<1>1. h \in 0 .. Ring - 1
  BY DEF RingTyped
<1>2. (h + 1) % Ring \in 0 .. Ring - 1
  BY <1>1, PlaceIs, RingSize
<1> QED
  BY <1>2 DEF RingTyped

LEMMA IsrKeepsOrder ==
  ASSUME IInv, UartInv, NEW p \in Periphs, Isr(p), UNCHANGED <<call, sup, res>>
  PROVE  UartInv'
<1>1. CASE UNCHANGED uartVars
  <2>1. uopen' = uopen /\ Dev' = Dev
    BY <1>1 DEF uartVars, rings, Dev
  <2> QED
    BY <1>1, <2>1, RingsStay, WatchedStays
<1>2. ASSUME NEW v \in Serves(p), Serve(v)
      PROVE  UartInv'
  <2>1. v \in Uarts /\ PeriphOf[v] = p
    BY <1>2 DEF Serves
  <2>0. PICK late \in BOOLEAN :
          /\ dropped' = [dropped EXCEPT ![v] = dropped[v] + (IF data[p] # 0 /\ IsFull(v) THEN 1 ELSE 0)
                                  + (IF late \/ (err[p] /\ ~ (data[p] # 0)) THEN 1 ELSE 0)]
          /\ sent' = [sent EXCEPT ![p] = IF late THEN sent[p] + 1 ELSE sent[p]]
    BY <1>2, <2>1 DEF Serve
  <2> DEFINE y == dropped[v] + (IF IsFull(v) THEN 1 ELSE 0) + (IF late THEN 1 ELSE 0)
             m == IF late THEN sent[p] + 1 ELSE sent[p]
  <2>2. /\ UNCHANGED <<uopen, tail, irq, lost, last, looped, own, stale>>
        /\ \/ /\ data[p] # 0 /\ ~ IsFull(v)
              /\ ring' = [ring EXCEPT ![v][head[v]] = data[p]]
              /\ head' = [head EXCEPT ![v] = (head[v] + 1) % Ring]
           \/ /\ ~ (data[p] # 0 /\ ~ IsFull(v)) /\ UNCHANGED <<ring, head>>
        /\ data' = [data EXCEPT ![p] = 0]
        /\ err' = [err EXCEPT ![p] = FALSE]
    BY <1>2, <2>1 DEF Serve, owners
  <2>3. UartTyped
    BY DEF UartInv
  <2>4. /\ RegisterTyped(sent[p], data[p], lost[p])
        /\ RingTyped(head[v], tail[v], ring[v], last[v], dropped[v], looped[v])
    BY <2>1, <2>3 DEF UartTyped
  <2>5. data[p] # 0
    BY DEF Isr, Pending, UartInv, FlagsAgree
  <2>6. /\ ~ IsFull(v) => (y = dropped[v] /\ m = sent[p]) \/ (y = dropped[v] + 1 /\ m = sent[p] + 1)
        /\ IsFull(v) => y > dropped[v]
        /\ y \in Nat /\ m \in Nat /\ m >= sent[p]
    <3>1. dropped[v] \in Nat /\ sent[p] \in Nat
      BY <2>4 DEF RingTyped, RegisterTyped
    <3>2. CASE late
      BY <3>1, <3>2
    <3>3. CASE ~ late
      BY <3>1, <3>3
    <3> QED
      BY <3>2, <3>3
  <2>7. /\ DOMAIN head' = Uarts /\ DOMAIN ring' = Uarts /\ DOMAIN dropped' = Uarts
        /\ DOMAIN data' = Periphs /\ DOMAIN sent' = Periphs
        /\ \A u \in Uarts \ {v} : head'[u] = head[u] /\ ring'[u] = ring[u] /\ dropped'[u] = dropped[u]
        /\ \A q \in Periphs \ {p} : data'[q] = data[q] /\ sent'[q] = sent[q]
        /\ data'[p] = 0 /\ sent'[p] = m /\ dropped'[v] = y
        /\ IsFull(v) => head'[v] = head[v] /\ ring'[v] = ring[v]
        /\ ~ IsFull(v) => /\ head'[v] = (head[v] + 1) % Ring
                          /\ ring'[v] = [ring[v] EXCEPT ![head[v]] = data[p]]
    BY <2>0, <2>1, <2>2, <2>3, <2>5 DEF UartTyped
  <2> HIDE DEF y, m
  <2>8. RingTyped(head'[v], tail'[v], ring'[v], last'[v], dropped'[v], looped'[v])
    <3>1. data[p] \in Nat
      BY <2>4 DEF RegisterTyped
    <3>2. /\ RingTyped((head[v] + 1) % Ring, tail[v], [ring[v] EXCEPT ![head[v]] = data[p]], last[v], y, looped[v])
          /\ RingTyped(head[v], tail[v], ring[v], last[v], y, looped[v])
      BY <2>4, <2>6, <3>1, PutKeepsTypes
    <3>3. tail'[v] = tail[v] /\ last'[v] = last[v] /\ looped'[v] = looped[v]
      BY <2>2
    <3> QED
      BY <2>7, <3>2, <3>3
  <2>9. UartTyped'
    <3>1. \A u \in Uarts : RingTyped(head'[u], tail'[u], ring'[u], last'[u], dropped'[u], looped'[u])
      <4> SUFFICES ASSUME NEW u \in Uarts, u # v
                   PROVE  RingTyped(head'[u], tail'[u], ring'[u], last'[u], dropped'[u], looped'[u])
        BY <2>8
      <4>1. /\ head'[u] = head[u] /\ ring'[u] = ring[u] /\ dropped'[u] = dropped[u]
            /\ tail'[u] = tail[u] /\ last'[u] = last[u] /\ looped'[u] = looped[u]
        BY <2>2, <2>7
      <4> QED
        BY <2>3, <4>1 DEF UartTyped
    <3>2. \A q \in Periphs : RegisterTyped(sent'[q], data'[q], lost'[q])
      <4>1. RegisterTyped(sent'[p], 0, lost'[p])
        BY <2>2, <2>4, <2>6, <2>7 DEF RegisterTyped
      <4>2. \A q \in Periphs \ {p} : RegisterTyped(sent'[q], data'[q], lost'[q])
        BY <2>2, <2>3, <2>7 DEF UartTyped
      <4> QED
        BY <2>7, <4>1, <4>2
    <3> QED
      BY <2>2, <2>3, <2>7, <3>1, <3>2 DEF UartTyped
  <2>13. FlagsAgree' /\ OwnersAgree'
    <3>1. FlagsAgree'
      BY <2>2, <2>7 DEF UartInv, FlagsAgree
    <3>2. \A u \in Uarts : own[u] <= sent'[PeriphOf[u]]
      <4> SUFFICES ASSUME NEW u \in Uarts PROVE own[u] <= sent'[PeriphOf[u]]
        OBVIOUS
      <4>1. own[u] \in Nat /\ own[u] <= sent[PeriphOf[u]] /\ PeriphOf[u] \in Periphs
        BY PeriphOfUart DEF UartInv, OwnersAgree
      <4>2. CASE PeriphOf[u] = p
        <5>1. sent[p] \in Nat
          BY <2>4 DEF RegisterTyped
        <5> QED
          BY <2>6, <2>7, <4>1, <4>2, <5>1
      <4>3. CASE PeriphOf[u] # p
        BY <2>7, <4>1, <4>3
      <4> QED
        BY <4>2, <4>3
    <3> QED
      BY <2>2, <3>1, <3>2 DEF UartInv, OwnersAgree
  <2>10. LinesAreOn'
    BY <2>2 DEF UartInv, LinesAreOn, Dev
  <2>11. HandsAgree'
    <3> SUFFICES ASSUME NEW s \in Slots, call[s].at = "copied"
                 PROVE  /\ head'[call[s].dev] # tail'[call[s].dev]
                        /\ call[s].left = ring'[call[s].dev][tail'[call[s].dev]]
      BY <2>2 DEF UartInv, HandsAgree
    <3>1. /\ head[call[s].dev] # tail[call[s].dev] /\ call[s].dev \in Uarts
          /\ call[s].left = ring[call[s].dev][tail[call[s].dev]] /\ tail' = tail
      BY <2>2, CallRecord DEF UartInv, HandsAgree, UartSteps
    <3>2. CASE call[s].dev # v \/ IsFull(v)
      BY <2>7, <3>1, <3>2
    <3>3. CASE call[s].dev = v /\ ~ IsFull(v)
      <4>1. (head[v] + 1) % Ring # tail[v]
        BY <3>3 DEF IsFull
      <4>2. ring[v] \in [0 .. Ring - 1 -> Nat] /\ tail[v] \in 0 .. Ring - 1
        BY <2>4 DEF RingTyped
      <4> QED
        BY <2>7, <3>1, <3>3, <4>1, <4>2
    <3> QED
      BY <3>2, <3>3
  <2>12. OrderKept'
    <3> SUFFICES ASSUME NEW u \in Uarts, Watched(u)' PROVE InOrder(u)'
      BY DEF OrderKept
    <3>1. Watched(u) /\ InOrder(u) /\ PeriphOf[u] \in Periphs
      BY <2>2, WatchedStays, PeriphOfUart DEF UartInv, OrderKept
    <3>2. CASE PeriphOf[u] # p
      BY <2>1, <2>2, <2>7, <3>1, <3>2 DEF InOrder
    <3>3. CASE PeriphOf[u] = p
      <4>1. u = v
        BY <3>1, <3>3, OneIsWatched
      <4>2. Ordered(head[v], tail[v], ring[v], last[v], dropped[v], looped[v], sent[p], data[p], lost[p],
                    own[v], stale[v])
        BY <3>1, <3>3, <4>1 DEF InOrder
      <4>3. CASE IsFull(v)
        <5>1. Ordered(head[v], tail[v], ring[v], last[v], y, looped[v], m, 0, lost[p], own[v], stale[v])
          BY <2>4, <2>6, <4>2, <4>3, ByteIsLost
        <5> QED
          BY <2>1, <2>2, <2>7, <4>1, <4>3, <5>1 DEF InOrder
      <4>4. CASE ~ IsFull(v)
        <5>1. (head[v] + 1) % Ring # tail[v]
          BY <4>4 DEF IsFull
        <5>2. Ordered((head[v] + 1) % Ring, tail[v], [ring[v] EXCEPT ![head[v]] = data[p]], last[v], y,
                      looped[v], m, 0, lost[p], own[v], stale[v])
          BY <2>4, <2>5, <2>6, <4>2, <4>4, <5>1, ByteIsPut
        <5> QED
          BY <2>1, <2>2, <2>7, <4>1, <4>4, <5>2 DEF InOrder
      <4> QED
        BY <4>3, <4>4
    <3> QED
      BY <3>2, <3>3
  <2> QED
    BY <2>9, <2>10, <2>11, <2>12, <2>13 DEF UartInv
<1> QED
  BY <1>1, <1>2 DEF Isr

-----------------------------------------------------------------------------
(* The calls of the driver. *)

\* A step of slot s that leaves the rings alone and puts nothing in its hand.
LEMMA CallKeepsOrder ==
  ASSUME IInv, UartInv, NEW s \in Slots, UNCHANGED <<uartVars, sup, res>>,
         \A t \in Slots \ {s} : call'[t] = call[t],
         call[s].at # "tail", call'[s].at \notin {"copied", "tail", "head"}
  PROVE  UartInv'
<1>1. UNCHANGED <<uopen, head, tail, ring, dropped, irq, data, err, sent, lost, last, looped, own, stale>>
  BY DEF uartVars, rings, owners
<1>2. UartTyped' /\ LinesAreOn'
  BY <1>1 DEF UartInv, UartTyped, LinesAreOn, Dev
<1>3. HandsAgree'
  BY <1>1 DEF UartInv, HandsAgree
<1>4. \A u \in Uarts : Watched(u)' => Watched(u)
  BY <1>1 DEF Watched, Resetting, Releasing, Declared, Dev, Is
<1>5. OrderKept'
  BY <1>1, <1>4 DEF UartInv, OrderKept, InOrder
<1> QED
  BY <1>1, <1>2, <1>3, <1>5, FlagsStay DEF UartInv

LEMMA BeginsKeepsOrder ==
  ASSUME IInv, UartInv, NEW s \in Slots, NEW u, UartRead_Begins(s, u) \/ Loop_Begins(s, u),
         UNCHANGED <<sup, res>>
  PROVE  UartInv'
<1>1. PICK at \in {"read", "loop"} : Enters(s, u, at) /\ UNCHANGED uartVars
  BY DEF UartRead_Begins, Loop_Begins
<1>2. /\ call[s] = NoCall /\ \A t \in Slots \ {s} : call'[t] = call[t]
      /\ call'[s] = [at |-> at, dev |-> u, left |-> 0, mixed |-> FALSE]
  BY <1>1, CallRecord DEF Enters
<1>3. call'[s].at = at
  BY <1>2
<1> QED
  BY <1>1, <1>2, <1>3, CallKeepsOrder DEF NoCall

LEMMA EndsKeepsOrder ==
  ASSUME IInv, UartInv, NEW s \in Slots, UartRead_Ends(s), UNCHANGED <<sup, res>>
  PROVE  UartInv'
<1>1. /\ call[s].at = "read" /\ UNCHANGED uartVars /\ \A t \in Slots \ {s} : call'[t] = call[t]
      /\ call'[s] = NoCall
  BY CallRecord DEF UartRead_Ends, Is, Returns
<1> QED
  BY <1>1, CallKeepsOrder DEF NoCall

HandAgrees(s) ==
  /\ call[s].at = "copied" => /\ head[call[s].dev] # tail[call[s].dev]
                              /\ call[s].left = ring[call[s].dev][tail[call[s].dev]]
  /\ call[s].at = "tail" => tail[call[s].dev] = 0
  /\ call[s].at = "head" => looped[call[s].dev]

LEMMA CopiesKeepsOrder ==
  ASSUME IInv, UartInv, NEW s \in Slots, UartRead_Copies(s), UNCHANGED <<sup, res>>
  PROVE  UartInv'
<1>0. PICK u : u = call[s].dev
  OBVIOUS
<1>9. PICK b : b = ring[u][tail[u]]
  OBVIOUS
<1>1. /\ call[s].at = "read" /\ tail[u] # head[u]
      /\ call' = [call EXCEPT ![s].at = "copied", ![s].left = b]
      /\ UNCHANGED <<uopen, head, tail, ring, dropped, irq, data, err, sent, lost, last, looped, own, stale>>
  BY <1>0, <1>9 DEF UartRead_Copies, Is, rings, owners, uartVars
<1>2. call'[s] = [call[s] EXCEPT !.at = "copied", !.left = b]
  BY <1>1, CallShape
<1>3. \A t \in Slots \ {s} : call'[t] = call[t]
  BY <1>1, CallShape
<1>4. call'[s].at = "copied" /\ call'[s].dev = u /\ call'[s].left = ring[u][tail[u]]
  <2>1. call'[s] = [at |-> "copied", dev |-> call[s].dev, left |-> b, mixed |-> call[s].mixed]
    BY <1>2, Rewritten
  <2> QED
    BY <1>0, <1>9, <2>1
<1>5. UartTyped' /\ LinesAreOn'
  BY <1>1 DEF UartInv, UartTyped, LinesAreOn, Dev
<1>6. HandsAgree'
  <2>1. ASSUME NEW t \in Slots, t # s
        PROVE  HandAgrees(t)'
    <3>1. HandAgrees(t) /\ call'[t] = call[t]
      BY <1>3, <2>1 DEF UartInv, HandsAgree, HandAgrees
    <3> QED
      BY <1>1, <3>1 DEF HandAgrees
  <2>2. HandAgrees(s)'
    BY <1>1, <1>4 DEF HandAgrees
  <2>3. \A t \in Slots : HandAgrees(t)'
    BY <2>1, <2>2
  <2> QED
    BY <2>3 DEF HandsAgree, HandAgrees
<1>7. \A v \in Uarts : Watched(v)' => Watched(v)
  BY <1>1, <1>3 DEF Watched, Resetting, Releasing, Declared, Dev, Is
<1>8. OrderKept'
  BY <1>1, <1>7 DEF UartInv, OrderKept, InOrder
<1> QED
  BY <1>1, <1>5, <1>6, <1>8, FlagsStay DEF UartInv

\* A step of slot s in a call for u that changes the ring of u.
RingMoves(s, u, at) ==
  /\ call[s].dev = u /\ call'[s].at = at /\ call'[s].dev = u
  /\ \A t \in Slots \ {s} : call'[t] = call[t]
  /\ UNCHANGED <<uopen, irq, data, err, sent, lost, own, stale, sup, res>>
  /\ DOMAIN head' = Uarts /\ DOMAIN tail' = Uarts /\ DOMAIN ring' = Uarts
  /\ DOMAIN last' = Uarts /\ DOMAIN dropped' = Uarts /\ DOMAIN looped' = Uarts
  /\ \A v \in Uarts \ {u} : /\ head'[v] = head[v] /\ tail'[v] = tail[v] /\ ring'[v] = ring[v]
                            /\ last'[v] = last[v] /\ dropped'[v] = dropped[v] /\ looped'[v] = looped[v]

LEMMA RingMovesKeep ==
  ASSUME IInv, UartInv, NEW s \in Slots, NEW u \in Uarts, NEW at, RingMoves(s, u, at),
         call[s].at \in UartSteps, at # "copied",
         at = "tail" => tail'[u] = 0, at = "head" => looped'[u],
         RingTyped(head'[u], tail'[u], ring'[u], last'[u], dropped'[u], looped'[u]),
         at # "tail" => InOrder(u)'
  PROVE  UartInv'
<1>1. /\ call[s].dev = u /\ call'[s].at = at /\ call'[s].dev = u
      /\ \A t \in Slots \ {s} : call'[t] = call[t]
      /\ UNCHANGED <<uopen, irq, data, err, sent, lost, own, stale, sup, res>>
      /\ \A v \in Uarts \ {u} : /\ head'[v] = head[v] /\ tail'[v] = tail[v] /\ ring'[v] = ring[v]
                                /\ last'[v] = last[v] /\ dropped'[v] = dropped[v] /\ looped'[v] = looped[v]
  BY DEF RingMoves
<1>2. \A t \in Slots \ {s} : call[t].dev # u
  BY <1>1, CallerIsReader
<1>3. UartTyped'
  <2>1. \A v \in Uarts : RingTyped(head'[v], tail'[v], ring'[v], last'[v], dropped'[v], looped'[v])
    <3> SUFFICES ASSUME NEW v \in Uarts \ {u}
                 PROVE  RingTyped(head'[v], tail'[v], ring'[v], last'[v], dropped'[v], looped'[v])
      OBVIOUS
    <3>1. RingTyped(head[v], tail[v], ring[v], last[v], dropped[v], looped[v])
      BY DEF UartInv, UartTyped
    <3> QED
      BY <1>1, <3>1
  <2> QED
    BY <1>1, <2>1 DEF UartInv, UartTyped, RingMoves
<1>4. LinesAreOn'
  BY <1>1 DEF UartInv, LinesAreOn, Dev
<1>5. HandsAgree'
  <2>1. ASSUME NEW t \in Slots, t # s
        PROVE  /\ call'[t].at = "copied" => /\ head'[call'[t].dev] # tail'[call'[t].dev]
                                            /\ call'[t].left = ring'[call'[t].dev][tail'[call'[t].dev]]
               /\ call'[t].at = "tail" => tail'[call'[t].dev] = 0
               /\ call'[t].at = "head" => looped'[call'[t].dev]
    <3>1. call'[t] = call[t] /\ call[t].dev # u
      BY <1>1, <1>2, <2>1
    <3>2. CASE call[t].at \in UartSteps
      <4>1. call[t].dev \in Uarts \ {u}
        BY <3>1, <3>2, CallRecord
      <4> QED
        BY <1>1, <3>1, <4>1 DEF UartInv, HandsAgree
    <3>3. CASE call[t].at \notin UartSteps
      BY <3>1, <3>3 DEF UartSteps
    <3> QED
      BY <3>2, <3>3
  <2> QED
    BY <1>1, <2>1 DEF HandsAgree
<1>6. OrderKept'
  <2> SUFFICES ASSUME NEW v \in Uarts, Watched(v)' PROVE InOrder(v)'
    BY DEF OrderKept
  <2>1. CASE v = u
    <3>1. CASE at # "tail"
      BY <2>1, <3>1
    <3>2. CASE at = "tail"
      <4>1. Resetting(u)'
        BY <1>1, <3>2 DEF Resetting, Is
      <4>2. sup.at \in {"irq", "open"} /\ Dev = u
        BY <1>1, <2>1, <4>1 DEF Watched, Dev
      <4>3. ~ uopen[u]
        BY <4>2 DEF IInv, OpensAgree, JobAgrees, UartClaimRefuses
      <4> QED
        BY <1>1, <4>3, CallerIsReader
    <3> QED
      BY <3>1, <3>2
  <2>2. CASE v # u
    <3>1. Watched(v)
      BY <1>1, <1>2, <2>2 DEF Watched, Resetting, Releasing, Declared, Dev, Is
    <3>2. InOrder(v)
      BY <3>1 DEF UartInv, OrderKept
    <3>3. /\ head'[v] = head[v] /\ tail'[v] = tail[v] /\ ring'[v] = ring[v]
          /\ last'[v] = last[v] /\ dropped'[v] = dropped[v] /\ looped'[v] = looped[v]
      BY <1>1, <2>2
    <3> QED
      BY <1>1, <3>2, <3>3 DEF InOrder
  <2> QED
    BY <2>1, <2>2
<1> QED
  BY <1>1, <1>3, <1>4, <1>5, <1>6, FlagsStay DEF UartInv

LEMMA AdvancesKeepsOrder ==
  ASSUME IInv, UartInv, NEW s \in Slots, UartRead_Advances(s), UNCHANGED <<sup, res>>
  PROVE  UartInv'
<1>1. PICK u : u = call[s].dev
  OBVIOUS
<1>2. /\ call[s].at = "copied"
      /\ tail' = [tail EXCEPT ![u] = (tail[u] + 1) % Ring] /\ last' = [last EXCEPT ![u] = call[s].left]
      /\ call' = [call EXCEPT ![s].at = "read", ![s].left = 0]
      /\ UNCHANGED <<uopen, ring, head, dropped, irq, data, err, sent, lost, looped, own, stale>>
  BY <1>1 DEF UartRead_Advances, Is, owners
<1>3. call[s].at \in UartSteps
  BY <1>2 DEF UartSteps
<1>4. u \in Uarts /\ Watched(u) /\ PeriphOf[u] \in Periphs
  BY <1>1, <1>2, <1>3, CallerIsReader
<1>5. head[u] # tail[u] /\ call[s].left = ring[u][tail[u]]
  BY <1>1, <1>2 DEF UartInv, HandsAgree
<1>6. call'[s] = [call[s] EXCEPT !.at = "read", !.left = 0]
  BY <1>2, CallRecord
<1>7. /\ call'[s].at = "read" /\ call'[s].dev = u
      /\ \A t \in Slots \ {s} : call'[t] = call[t]
  BY <1>1, <1>2, <1>6, CallRecord
<1>8. /\ DOMAIN tail' = Uarts /\ DOMAIN last' = Uarts
      /\ \A v \in Uarts \ {u} : tail'[v] = tail[v] /\ last'[v] = last[v]
      /\ tail'[u] = (tail[u] + 1) % Ring /\ last'[u] = ring[u][tail[u]]
  BY <1>2, <1>4, <1>5 DEF UartInv, UartTyped
<1>9. RingMoves(s, u, "read")
  BY <1>1, <1>2, <1>7, <1>8 DEF RingMoves, UartInv, UartTyped
<1>10. /\ RingTyped(head[u], tail[u], ring[u], last[u], dropped[u], looped[u])
       /\ RegisterTyped(sent[PeriphOf[u]], data[PeriphOf[u]], lost[PeriphOf[u]])
       /\ InOrder(u)
  BY <1>4 DEF UartInv, UartTyped, OrderKept
<1>11. /\ Ordered(head[u], (tail[u] + 1) % Ring, ring[u], ring[u][tail[u]], dropped[u], looped[u],
                  sent[PeriphOf[u]], data[PeriphOf[u]], lost[PeriphOf[u]], own[u], stale[u])
       /\ RingTyped(head[u], (tail[u] + 1) % Ring, ring[u], ring[u][tail[u]], dropped[u], looped[u])
  BY <1>5, <1>10, ByteIsTaken DEF InOrder
<1>12. InOrder(u)' /\ RingTyped(head'[u], tail'[u], ring'[u], last'[u], dropped'[u], looped'[u])
  BY <1>2, <1>8, <1>11 DEF InOrder
<1> QED
  BY <1>3, <1>4, <1>9, <1>12, RingMovesKeep

\* The loopback call: the tail, the head, the counter.
LEMMA LoopTailKeepsOrder ==
  ASSUME IInv, UartInv, NEW s \in Slots, Loop_Tail(s), UNCHANGED <<sup, res>>
  PROVE  UartInv'
<1>1. PICK u : u = call[s].dev
  OBVIOUS
<1>2. /\ call[s].at = "loop" /\ tail' = [tail EXCEPT ![u] = 0]
      /\ call' = [call EXCEPT ![s].at = "tail"]
      /\ UNCHANGED <<uopen, ring, head, dropped, irq, data, err, sent, lost, last, looped, own, stale>>
  BY <1>1 DEF Loop_Tail, Is, Goes, owners
<1>3. call[s].at \in UartSteps
  BY <1>2 DEF UartSteps
<1>4. u \in Uarts
  BY <1>1, <1>3, CallerIsReader
<1>5. call'[s] = [at |-> "tail", dev |-> u, left |-> call[s].left, mixed |-> call[s].mixed]
  <2>1. call'[s] = [call[s] EXCEPT !.at = "tail"]
    BY <1>2, CallRecord
  <2> QED
    BY <1>1, <2>1, CallRecord
<1>6. /\ call'[s].at = "tail" /\ call'[s].dev = u /\ \A t \in Slots \ {s} : call'[t] = call[t]
  BY <1>1, <1>2, <1>5, CallRecord
<1>7. DOMAIN tail' = Uarts /\ tail'[u] = 0 /\ \A v \in Uarts \ {u} : tail'[v] = tail[v]
  BY <1>2, <1>4 DEF UartInv, UartTyped
<1>8. RingMoves(s, u, "tail")
  BY <1>1, <1>2, <1>6, <1>7 DEF RingMoves, UartInv, UartTyped
<1>9. RingTyped(head[u], 0, ring[u], last[u], dropped[u], looped[u])
  BY <1>4, RingSize DEF UartInv, UartTyped, RingTyped
<1>10. RingTyped(head'[u], tail'[u], ring'[u], last'[u], dropped'[u], looped'[u])
  BY <1>2, <1>7, <1>9
<1> QED
  BY <1>3, <1>4, <1>7, <1>8, <1>10, RingMovesKeep

LEMMA LoopHeadKeepsOrder ==
  ASSUME IInv, UartInv, TasksRun, NEW s \in Slots, Loop_Head(s), UNCHANGED <<sup, res>>
  PROVE  UartInv'
<1>1. PICK u : u = call[s].dev
  OBVIOUS
<1>2. PICK p : p = PeriphOf[u]
  OBVIOUS
<1>3. /\ call[s].at = "tail" /\ head' = [head EXCEPT ![u] = 0]
      /\ last' = [last EXCEPT ![u] = sent[p]] /\ looped' = [looped EXCEPT ![u] = TRUE]
      /\ call' = [call EXCEPT ![s].at = "head"]
      /\ UNCHANGED <<uopen, ring, tail, dropped, irq, data, err, sent, lost, own, stale>>
  BY <1>1, <1>2 DEF Loop_Head, Is, Goes, owners
<1>4. call[s].at \in UartSteps
  BY <1>3 DEF UartSteps
<1>5. u \in Uarts /\ p \in Periphs /\ irq[p]
  BY <1>1, <1>2, <1>4, CallerIsReader
<1>6. RegisterTyped(sent[p], data[p], lost[p]) /\ data[p] = 0
  BY <1>5 DEF UartInv, UartTyped, TasksRun, Pending
<1>7. tail[u] = 0
  BY <1>1, <1>3 DEF UartInv, HandsAgree
<1>8. call'[s] = [at |-> "head", dev |-> u, left |-> call[s].left, mixed |-> call[s].mixed]
  <2>1. call'[s] = [call[s] EXCEPT !.at = "head"]
    BY <1>3, CallRecord
  <2> QED
    BY <1>1, <2>1, CallRecord
<1>9. /\ call'[s].at = "head" /\ call'[s].dev = u /\ \A t \in Slots \ {s} : call'[t] = call[t]
  BY <1>1, <1>3, <1>8, CallRecord
<1>10. /\ DOMAIN head' = Uarts /\ DOMAIN last' = Uarts /\ DOMAIN looped' = Uarts
       /\ head'[u] = 0 /\ last'[u] = sent[p] /\ looped'[u] = TRUE
       /\ \A v \in Uarts \ {u} : head'[v] = head[v] /\ last'[v] = last[v] /\ looped'[v] = looped[v]
  BY <1>3, <1>5 DEF UartInv, UartTyped
<1>11. RingMoves(s, u, "head")
  BY <1>1, <1>3, <1>9, <1>10 DEF RingMoves, UartInv, UartTyped
<1>12. RingTyped(head[u], tail[u], ring[u], last[u], dropped[u], looped[u])
  BY <1>5 DEF UartInv, UartTyped
<1>13. sent[p] \in Nat
  BY <1>6 DEF RegisterTyped
<1>14. RingTyped(0, 0, ring[u], sent[p], dropped[u], TRUE)
  BY <1>7, <1>12, <1>13, RingSize DEF RingTyped
<1>15. Ordered(0, 0, ring[u], sent[p], dropped[u], TRUE, sent[p], data[p], lost[p], own[u], stale[u])
  <2>1. /\ sent[p] <= sent[p] /\ (data[p] # 0 => sent[p] < data[p]) /\ TRUE \in BOOLEAN
        /\ dropped[u] = 0 /\ ~ TRUE /\ ~ lost[p] =>
             sent[p] + (IF data[p] # 0 THEN 1 ELSE 0) = sent[p]
        /\ data[p] # 0 => data[p] > own[u] \/ data[p] = stale[u]
    BY <1>6, <1>13
  <2> QED
    BY <1>6, <1>13, <2>1, EmptyIsOrdered
<1>16. InOrder(u)' /\ RingTyped(head'[u], tail'[u], ring'[u], last'[u], dropped'[u], looped'[u])
  BY <1>2, <1>3, <1>7, <1>10, <1>14, <1>15 DEF InOrder
<1> QED
  BY <1>4, <1>5, <1>10, <1>11, <1>16, RingMovesKeep

LEMMA LoopEndsKeepsOrder ==
  ASSUME IInv, UartInv, NEW s \in Slots, Loop_Ends(s), UNCHANGED <<sup, res>>
  PROVE  UartInv'
<1>1. PICK u : u = call[s].dev
  OBVIOUS
<1>2. /\ call[s].at = "head" /\ dropped' = [dropped EXCEPT ![u] = 0]
      /\ call' = [call EXCEPT ![s] = NoCall]
      /\ UNCHANGED <<uopen, ring, head, tail, irq, data, err, sent, lost, last, looped, own, stale>>
  BY <1>1 DEF Loop_Ends, Is, Returns, owners
<1>3. call[s].at \in UartSteps
  BY <1>2 DEF UartSteps
<1>4. u \in Uarts /\ Watched(u) /\ looped[u] /\ \A t \in Slots \ {s} : call[t].dev # u
  BY <1>1, <1>2, <1>3, CallerIsReader DEF UartInv, HandsAgree
<1>5. call'[s] = NoCall /\ \A t \in Slots \ {s} : call'[t] = call[t]
  BY <1>2, CallRecord
<1>6. DOMAIN dropped' = Uarts /\ dropped'[u] = 0 /\ \A v \in Uarts \ {u} : dropped'[v] = dropped[v]
  BY <1>2, <1>4 DEF UartInv, UartTyped
<1>7. \A v \in Uarts : RingTyped(head[v], tail[v], ring[v], last[v], dropped'[v], looped[v])
  <2> SUFFICES ASSUME NEW v \in Uarts
               PROVE  RingTyped(head[v], tail[v], ring[v], last[v], dropped'[v], looped[v])
    OBVIOUS
  <2>1. RingTyped(head[v], tail[v], ring[v], last[v], dropped[v], looped[v])
    BY DEF UartInv, UartTyped
  <2>2. dropped'[v] = dropped[v] \/ dropped'[v] = 0
    BY <1>6
  <2> QED
    BY <2>1, <2>2 DEF RingTyped
<1>8. UartTyped' /\ LinesAreOn'
  BY <1>2, <1>6, <1>7 DEF UartInv, UartTyped, LinesAreOn, Dev
<1>9. HandsAgree'
  BY <1>2, <1>5 DEF UartInv, HandsAgree, NoCall
<1>10. OrderKept'
  <2> SUFFICES ASSUME NEW v \in Uarts, Watched(v)' PROVE InOrder(v)'
    BY DEF OrderKept
  <2>1. Watched(v)
    BY <1>2, <1>5 DEF Watched, Resetting, Releasing, Declared, Dev, Is
  <2>2. InOrder(v)
    BY <2>1 DEF UartInv, OrderKept
  <2>3. CASE v = u
    <3>1. Ordered(head[u], tail[u], ring[u], last[u], 0, looped[u],
                  sent[PeriphOf[u]], data[PeriphOf[u]], lost[PeriphOf[u]], own[u], stale[u])
      BY <1>4, <2>2, <2>3 DEF InOrder, Ordered
    <3> QED
      BY <1>2, <1>6, <2>3, <3>1 DEF InOrder
  <2>4. CASE v # u
    BY <1>2, <1>6, <2>2, <2>4 DEF InOrder
  <2> QED
    BY <2>3, <2>4
<1> QED
  BY <1>2, <1>8, <1>9, <1>10, FlagsStay DEF UartInv

LEMMA UartCallKeepsOrder ==
  ASSUME IInv, UartInv, TasksRun, NEW s \in Slots, UartCall(s), UNCHANGED <<sup, res>>
  PROVE  UartInv'
  BY BeginsKeepsOrder, CopiesKeepsOrder, AdvancesKeepsOrder, EndsKeepsOrder, LoopTailKeepsOrder,
     LoopHeadKeepsOrder, LoopEndsKeepsOrder DEF UartCall

-----------------------------------------------------------------------------
(* The other steps. *)

\* Steps of the modules that are in no call of the driver before or after.
LEMMA OthersKeepOrder ==
  ASSUME UartInv, UNCHANGED <<uartVars, sup, res>>,
         \A t \in Slots : call'[t] # call[t] => call[t].at \notin UartSteps /\ call'[t].at \notin UartSteps
  PROVE  UartInv'
<1>1. uopen' = uopen /\ Dev' = Dev
  BY DEF uartVars, rings, Dev
<1>2. \A u \in Uarts : Watched(u)' => Watched(u)
  BY <1>1 DEF Watched, Resetting, Releasing, Declared, Is, UartSteps
<1> QED
  BY <1>1, <1>2, RingsStay

LEMMA AdcLeavesRings ==
  ASSUME IInv, NEW s \in Slots, AdcCall(s)
  PROVE  \A t \in Slots : call'[t] # call[t] => call[t].at \notin UartSteps /\ call'[t].at \notin UartSteps
<1> DEFINE FarApart == \A t \in Slots : call'[t] # call[t] =>
                       call[t].at \notin UartSteps /\ call'[t].at \notin UartSteps
<1>1. \A t \in Slots : Converting(t) =>
        call[t].at \notin UartSteps /\ [call[t] EXCEPT !.mixed = TRUE].at \notin UartSteps
  <2> SUFFICES ASSUME NEW t \in Slots, Converting(t)
               PROVE  call[t].at \notin UartSteps /\ [call[t] EXCEPT !.mixed = TRUE].at \notin UartSteps
    OBVIOUS
  <2>1. call[t].at \notin UartSteps
    BY DEF Converting, Steps, UartSteps
  <2>2. [call[t] EXCEPT !.mixed = TRUE].at = call[t].at
    BY CallRecord
  <2> QED
    BY <2>1, <2>2
<1>2. ASSUME NEW at \in Steps, Converts(s, at), call[s].at \notin UartSteps PROVE FarApart
  <2>1. [call[s] EXCEPT !.at = at].at = at
    BY CallRecord
  <2>2. at \notin UartSteps
    BY DEF Steps, UartSteps
  <2> QED
    BY <1>1, <1>2, <2>1, <2>2 DEF Converts
<1>3. ASSUME Returns(s), call[s].at \notin UartSteps PROVE FarApart
  BY <1>3, CallRecord DEF Returns, NoCall, UartSteps
<1>4. CASE \E c \in Adcs : Adc_Begins(s, c)
  <2>1. PICK c \in Adcs : Enters(s, c, "select")
    BY <1>4 DEF Adc_Begins
  <2>2. /\ call'[s] = [at |-> "select", dev |-> c, left |-> 0, mixed |-> FALSE] /\ call[s] = NoCall
        /\ \A t \in Slots \ {s} : call'[t] = call[t]
    BY <2>1, CallRecord DEF Enters
  <2>3. call'[s].at = "select"
    BY <2>2
  <2> QED
    BY <2>2, <2>3 DEF NoCall, UartSteps
<1>5. CASE Adc_Selects(s)
  <2> DEFINE m == ~ Alone(s)
  <2>1. call[s].at = "select" /\ [call[s] EXCEPT !.at = "clear", !.mixed = m].at = "clear"
    BY <1>5, CallRecord DEF Adc_Selects, Is
  <2>2. call' = [t \in Slots |->
                   IF t = s THEN [call[s] EXCEPT !.at = "clear", !.mixed = m]
                   ELSE IF Converting(t) THEN [call[t] EXCEPT !.mixed = TRUE] ELSE call[t]]
    BY <1>5 DEF Adc_Selects
  <2> HIDE DEF m
  <2> QED
    BY <1>1, <2>1, <2>2 DEF UartSteps
<1>6. CASE Adc_Clears(s) \/ Adc_Triggers(s) \/ Adc_SeesFlag(s) \/ Adc_Stops(s)
  BY <1>2, <1>6 DEF Adc_Clears, Adc_Triggers, Adc_SeesFlag, Adc_Stops, Is, Steps, UartSteps
<1>7. CASE Adc_TimesOut(s)
  BY <1>3, <1>7 DEF Adc_TimesOut, Is, UartSteps
<1>8. CASE Adc_Reads(s)
  <2>1. call[s].at = "data" /\ (Returns(s) \/ call' = [call EXCEPT ![s].at = "select", ![s].left = 2])
    BY <1>8 DEF Adc_Reads, Is
  <2>2. CASE Returns(s)
    BY <1>3, <2>1, <2>2 DEF UartSteps
  <2>3. CASE call' = [call EXCEPT ![s].at = "select", ![s].left = 2]
    <3>1. call'[s] = [call[s] EXCEPT !.at = "select", !.left = 2] /\ \A t \in Slots \ {s} : call'[t] = call[t]
      BY <2>3, CallRecord
    <3>2. call'[s].at = "select"
      BY <3>1, CallRecord
    <3> QED
      BY <2>1, <3>1, <3>2 DEF UartSteps
  <2> QED
    BY <2>1, <2>2, <2>3
<1> QED
  BY <1>4, <1>5, <1>6, <1>7, <1>8 DEF AdcCall

LEMMA ModuleKeepsOrder ==
  ASSUME IInv, UartInv, TasksRun, NEW s \in Slots, ModuleStep(s)
  PROVE  UartInv'
<1>1. CASE UartCall(s) /\ UNCHANGED <<slotVars, sup>>
  BY <1>1, UartCallKeepsOrder DEF slotVars
<1>2. CASE BusCall(s) /\ UNCHANGED <<slotVars, sup, uartVars>>
  <2>1. \A t \in Slots : call'[t] # call[t] => call[t].at \notin UartSteps /\ call'[t].at \notin UartSteps
    BY <1>2, BusCallMoves DEF OnlyMoves, BusSteps, UartSteps, NoCall
  <2> QED
    BY <1>2, <2>1, OthersKeepOrder DEF slotVars
<1>3. CASE AdcCall(s) /\ UNCHANGED <<slotVars, sup, uartVars>>
  BY <1>3, AdcLeavesRings, OthersKeepOrder DEF slotVars
<1>4. CASE UNCHANGED <<slotVars, sup, uartVars, call>>
  BY <1>4, OthersKeepOrder DEF slotVars
<1> QED
  BY <1>1, <1>2, <1>3, <1>4 DEF ModuleStep, Gpio_Sets, slotVars

-----------------------------------------------------------------------------
(* The supervisor's steps. *)

\* A job that is no release leaves the rings as they are.
LEMMA OtherJobsKeepOrder ==
  ASSUME UartInv, UNCHANGED <<uartVars, call>>,
         ~ Releasing, sup.at \notin {"irq", "open"}, sup'.at \notin {"irq", "open"}
  PROVE  UartInv'
<1>1. uopen' = uopen
  BY DEF uartVars, rings
<1>2. \A u \in Uarts : Watched(u)' => Watched(u)
  BY <1>1 DEF Watched, Resetting, Is
<1>3. sup.at # "close"
  BY DEF Releasing
<1> QED
  BY <1>2, <1>3, RingsStay

\* So does the next step of the same release.
LEMMA ReleaseKeepsOrder ==
  ASSUME UartInv, UNCHANGED <<uartVars, call, res>>,
         sup.at = "release", sup'.at = "release", sup'.slot = sup.slot
  PROVE  UartInv'
<1>1. uopen' = uopen
  BY DEF uartVars, rings
<1>2. \A u \in Uarts : Watched(u)' => Watched(u)
  BY <1>1 DEF Watched, Resetting, Releasing, Declared, Is
<1> QED
  BY <1>2, RingsStay

LEMMA ReleaseEndsKeepsOrder ==
  ASSUME IInv, UartInv, Release_Ends
  PROVE  UartInv'
<1>1. /\ sup.at = "release" /\ sup.i > Len(res[sup.slot]) /\ UNCHANGED <<uartVars, call>>
      /\ sup'.at \in {"idle", "claim"}
  BY DEF Release_Ends, Idle
<1>2. Releasing /\ ~ Shelling /\ sup.slot \in Slots
  BY <1>1 DEF Releasing, Shelling, IInv, SlotsTyped
<1>3. \A u \in Uarts : uopen[u] => ~ Declared(sup.slot, u)
  <2> SUFFICES ASSUME NEW u \in Uarts, uopen[u], NEW j \in DOMAIN res[sup.slot], res[sup.slot][j] = u
               PROVE  FALSE
    BY DEF Declared
  <2>1. Open(u) /\ u \in Devs \ Gpios
    BY KindsAreApart DEF Open
  <2>2. PICK t \in Slots : \E k \in DOMAIN res[t] : res[t][k] = u /\ Reached(t, k)
    BY <1>2, <2>1 DEF IInv, OpensAgree, OpenIsHeld, HeldOpen
  <2>3. PICK k \in DOMAIN res[t] : res[t][k] = u /\ Reached(t, k)
    BY <2>2
  <2>4. t = sup.slot
    BY <1>2, <2>3, OneHolder DEF IInv
  <2>5. k >= sup.i /\ k \in 1 .. Len(res[sup.slot]) /\ sup.i \in Nat /\ Len(res[sup.slot]) \in Nat
    BY <1>2, <2>3, <2>4, DeclaredIsDev DEF Reached, IInv, SlotsTyped
  <2> QED
    BY <1>1, <2>5
<1>4. uopen' = uopen
  BY <1>1 DEF uartVars, rings
<1>5. \A u \in Uarts : Watched(u)' => Watched(u)
  BY <1>1, <1>3, <1>4 DEF Watched, Resetting, Is
<1> QED
  BY <1>1, <1>5, RingsStay

\* The task of the slot goes, and its calls with it.
LEMMA ReclaimKeepsOrder ==
  ASSUME IInv, UartInv, NEW s \in Slots, NEW image, sup.at = "idle", ReclaimFor(s, image)
  PROVE  UartInv'
<1>1. /\ UNCHANGED <<uartVars, res>> /\ sup'.at = "release" /\ sup'.slot = s
      /\ call'[s] = NoCall /\ \A t \in Slots \ {s} : call'[t] = call[t]
  BY CallRecord DEF ReclaimFor
<1>2. uopen' = uopen
  BY <1>1 DEF uartVars, rings
<1>3. \A t \in Slots : call'[t] # call[t] => call'[t].at \notin UartSteps
  BY <1>1 DEF NoCall, UartSteps
<1>4. \A u \in Uarts : Watched(u)' => Watched(u)
  <2> SUFFICES ASSUME NEW u \in Uarts, Watched(u)' PROVE Watched(u)
    OBVIOUS
  <2>1. uopen[u] /\ ~ Resetting(u)' /\ ~ Declared(s, u)
    BY <1>1, <1>2 DEF Watched, Releasing, Declared
  <2>2. ~ Resetting(u)
    <3> SUFFICES ASSUME NEW t \in Slots, call[t].at = "tail", call[t].dev = u PROVE FALSE
      BY DEF Resetting, Is
    <3>1. t # s
      BY <2>1 DEF IInv, CallsAgree, NoCall
    <3> QED
      BY <1>1, <2>1, <3>1 DEF Resetting, Is
  <2> QED
    BY <2>1, <2>2 DEF Watched, Releasing
<1> QED
  BY <1>1, <1>3, <1>4, RingsStay

\* A claim empties the ring before anything can fill it.
LEMMA ClaimUartKeepsOrder ==
  ASSUME IInv, UartInv, Claim_Uart
  PROVE  UartInv'
<1>1. PICK u : u = Dev
  OBVIOUS
<1>2. PICK p : p = PeriphOf[u]
  OBVIOUS
<1>3. PICK l : l = IF data[p] # 0 THEN data[p] - 1 ELSE sent[p]
  OBVIOUS
<1>4. /\ AtDev("claim") /\ u \in Uarts /\ ~ uopen[u] /\ sup' = [sup EXCEPT !.at = "irq"]
      /\ head' = [head EXCEPT ![u] = 0] /\ tail' = [tail EXCEPT ![u] = 0]
      /\ dropped' = [dropped EXCEPT ![u] = 0] /\ last' = [last EXCEPT ![u] = l]
      /\ looped' = [looped EXCEPT ![u] = FALSE]
      /\ lost' = [lost EXCEPT ![p] = lost[p] /\ data[p] # 0]
      /\ own' = [own EXCEPT ![u] = sent[p]] /\ stale' = [stale EXCEPT ![u] = data[p]]
      /\ UNCHANGED <<uopen, ring, irq, data, err, sent, call, res>>
  BY <1>1, <1>2, <1>3 DEF Claim_Uart, UartClaim_Applies, UartClaimRefuses, slotVars
<1>5. /\ sup.at = "claim" /\ sup'.at = "irq" /\ Dev' = u
  <2>1. sup' = [at |-> "irq", slot |-> sup.slot, i |-> sup.i, next |-> sup.next]
    BY <1>4, NextDeclaration
  <2>2. sup.at = "claim" /\ res' = res
    BY <1>4 DEF AtDev
  <2>3. sup'.at = "irq" /\ sup'.slot = sup.slot /\ sup'.i = sup.i
    BY <2>1
  <2> QED
    BY <1>1, <2>2, <2>3 DEF Dev
<1>6. UartTyped /\ p \in Periphs
  BY <1>2, <1>4, PeriphOfUart DEF UartInv
<1>7. RegisterTyped(sent[p], data[p], lost[p])
  BY <1>6 DEF UartTyped
<1>8. /\ l \in Nat /\ l <= sent[p] /\ (data[p] # 0 => l < data[p])
      /\ ~ (lost[p] /\ data[p] # 0) => l + (IF data[p] # 0 THEN 1 ELSE 0) = sent[p]
  <2>1. sent[p] \in Nat /\ data[p] \in Nat /\ data[p] <= sent[p]
    BY <1>7 DEF RegisterTyped
  <2>2. data[p] # 0 /\ ~ lost[p] => data[p] = sent[p]
    BY <1>7 DEF RegisterTyped
  <2>3. CASE data[p] = 0
    BY <1>3, <2>1, <2>3
  <2>4. CASE data[p] # 0
    BY <1>3, <2>1, <2>2, <2>4
  <2> QED
    BY <2>3, <2>4
<1>9. /\ DOMAIN head' = Uarts /\ DOMAIN tail' = Uarts /\ DOMAIN dropped' = Uarts
      /\ DOMAIN last' = Uarts /\ DOMAIN looped' = Uarts
      /\ head'[u] = 0 /\ tail'[u] = 0 /\ dropped'[u] = 0 /\ last'[u] = l /\ looped'[u] = FALSE
      /\ \A v \in Uarts \ {u} : /\ head'[v] = head[v] /\ tail'[v] = tail[v] /\ dropped'[v] = dropped[v]
                                /\ last'[v] = last[v] /\ looped'[v] = looped[v]
  BY <1>4, <1>6 DEF UartTyped
<1>14. /\ DOMAIN lost' = Periphs /\ lost'[p] = (lost[p] /\ data[p] # 0)
       /\ \A q \in Periphs \ {p} : lost'[q] = lost[q]
       /\ DOMAIN own' = Uarts /\ DOMAIN stale' = Uarts /\ own'[u] = sent[p] /\ stale'[u] = data[p]
       /\ \A v \in Uarts \ {u} : own'[v] = own[v] /\ stale'[v] = stale[v]
  BY <1>4, <1>6 DEF UartInv, UartTyped, OwnersAgree
<1>15. RegisterTyped(sent[p], data[p], lost'[p])
  BY <1>7, <1>14 DEF RegisterTyped
<1>16. FlagsAgree' /\ OwnersAgree'
  <2>1. \A v \in Uarts : own'[v] \in Nat /\ own'[v] <= sent[PeriphOf[v]]
    <3>1. sent[p] \in Nat /\ sent[p] <= sent[p]
      BY <1>7 DEF RegisterTyped
    <3>2. \A v \in Uarts \ {u} : own'[v] \in Nat /\ own'[v] <= sent[PeriphOf[v]]
      BY <1>14 DEF UartInv, OwnersAgree
    <3> QED
      BY <1>2, <1>14, <3>1, <3>2
  <2> QED
    BY <1>4, <1>14, <2>1 DEF UartInv, FlagsAgree, OwnersAgree
<1>10. UartTyped'
  <2>1. RingTyped(0, 0, ring[u], l, 0, FALSE)
    <3>1. ring[u] \in [0 .. Ring - 1 -> Nat]
      BY <1>4, <1>6 DEF UartTyped, RingTyped
    <3>2. 0 \in 0 .. Ring - 1
      BY RingSize
    <3> QED
      BY <1>8, <3>1, <3>2 DEF RingTyped
  <2>2. \A v \in Uarts : RingTyped(head'[v], tail'[v], ring'[v], last'[v], dropped'[v], looped'[v])
    <3> SUFFICES ASSUME NEW v \in Uarts, v # u
                 PROVE  RingTyped(head'[v], tail'[v], ring'[v], last'[v], dropped'[v], looped'[v])
      BY <1>4, <1>9, <2>1
    <3>1. /\ head'[v] = head[v] /\ tail'[v] = tail[v] /\ dropped'[v] = dropped[v]
          /\ last'[v] = last[v] /\ looped'[v] = looped[v] /\ ring'[v] = ring[v]
      BY <1>4, <1>9
    <3> QED
      BY <1>6, <3>1 DEF UartTyped
  <2>3. \A q \in Periphs : RegisterTyped(sent[q], data[q], lost'[q])
    <3>1. \A q \in Periphs \ {p} : RegisterTyped(sent[q], data[q], lost'[q])
      BY <1>6, <1>14 DEF UartTyped
    <3> QED
      BY <1>15, <3>1
  <2> QED
    BY <1>4, <1>6, <1>9, <1>14, <2>2, <2>3 DEF UartTyped
<1>11. LinesAreOn'
  BY <1>4, <1>5 DEF UartInv, LinesAreOn
<1>12. HandsAgree'
  <2> SUFFICES ASSUME NEW s \in Slots, call[s].at \in {"copied", "tail", "head"}
               PROVE  call[s].dev \in Uarts \ {u}
    BY <1>4, <1>9 DEF UartInv, HandsAgree
  <2> QED
    BY <1>4, CallerIsReader DEF UartSteps
<1>13. OrderKept'
  <2> SUFFICES ASSUME NEW v \in Uarts, Watched(v)' PROVE InOrder(v)'
    BY DEF OrderKept
  <2>1. CASE v = u
    <3>1. Ordered(0, 0, ring[u], l, 0, FALSE, sent[p], data[p], lost'[p], sent[p], data[p])
      BY <1>8, <1>14, <1>15, EmptyIsOrdered
    <3> QED
      BY <1>2, <1>4, <1>9, <1>14, <2>1, <3>1 DEF InOrder
  <2>2. CASE v # u
    <3>1. Watched(v)
      BY <1>4, <1>5, <2>2 DEF Watched, Resetting, Releasing, Is
    <3>2. uopen[v]
      BY <1>5, <3>1 DEF Watched
    <3>3. PeriphOf[v] \in Periphs \ {p}
      BY <1>1, <1>2, <1>4, <2>2, <3>2, PeriphOfUart DEF Claim_Uart, UartClaim_Applies, UartClaimRefuses,
         OtherMappingOpen
    <3> QED
      BY <1>4, <1>9, <1>14, <2>2, <3>1, <3>3 DEF UartInv, OrderKept, InOrder
  <2> QED
    BY <2>1, <2>2
<1> QED
  BY <1>10, <1>11, <1>12, <1>13, <1>16 DEF UartInv

LEMMA ClaimUartIrqKeepsOrder ==
  ASSUME IInv, UartInv, Claim_UartIrq
  PROVE  UartInv'
<1>1. /\ AtDev("irq") /\ sup' = [sup EXCEPT !.at = "open"] /\ irq' = [irq EXCEPT ![PeriphOf[Dev]] = TRUE]
      /\ UNCHANGED <<uopen, head, tail, ring, dropped, data, err, sent, lost, last, looped, own, stale, call, res>>
  BY DEF Claim_UartIrq, UartClaim_IrqOn, rings, owners, slotVars
<1>2. sup.at = "irq" /\ sup'.at = "open" /\ Dev' = Dev
  <2>1. sup' = [at |-> "open", slot |-> sup.slot, i |-> sup.i, next |-> sup.next]
    BY <1>1, NextDeclaration
  <2>2. sup.at = "irq" /\ res' = res
    BY <1>1 DEF AtDev
  <2>3. sup'.at = "open" /\ sup'.slot = sup.slot /\ sup'.i = sup.i
    BY <2>1
  <2> QED
    BY <2>2, <2>3 DEF Dev
<1>3. Dev \in Uarts /\ PeriphOf[Dev] \in Periphs
  BY <1>2, PeriphOfUart DEF IInv, OpensAgree, JobAgrees
<1>4. irq'[PeriphOf[Dev]] /\ \A p \in Periphs : irq[p] => irq'[p]
  BY <1>1, <1>3 DEF IInv, DriversTyped
<1>5. UartTyped' /\ HandsAgree'
  BY <1>1 DEF UartInv, UartTyped, HandsAgree
<1>6. LinesAreOn'
  BY <1>1, <1>2, <1>4, PeriphOfUart DEF UartInv, LinesAreOn
<1>7. \A u \in Uarts : Watched(u)' => Watched(u)
  BY <1>1, <1>2 DEF Watched, Resetting, Releasing, Is
<1>8. OrderKept'
  BY <1>1, <1>7 DEF UartInv, OrderKept, InOrder
<1> QED
  BY <1>1, <1>5, <1>6, <1>8, FlagsStay DEF UartInv

LEMMA ClaimUartOpenKeepsOrder ==
  ASSUME IInv, UartInv, Claim_UartOpen
  PROVE  UartInv'
<1>1. /\ AtDev("open") /\ sup' = [sup EXCEPT !.at = "claim", !.i = @ + 1]
      /\ uopen' = [uopen EXCEPT ![Dev] = TRUE]
      /\ UNCHANGED <<head, tail, ring, dropped, irq, data, err, sent, lost, last, looped, own, stale, call, res>>
  BY DEF Claim_UartOpen, UartClaim_Opens, owners, slotVars
<1>2. sup.at = "open" /\ sup'.at = "claim"
  BY <1>1, NextDeclaration DEF AtDev
<1>3. \A u \in Uarts \ {Dev} : uopen'[u] = uopen[u]
  BY <1>1 DEF IInv, DriversTyped
<1>4. UartTyped' /\ HandsAgree'
  BY <1>1 DEF UartInv, UartTyped, HandsAgree
<1>5. LinesAreOn'
  BY <1>1, <1>2, <1>3 DEF UartInv, LinesAreOn
<1>6. \A u \in Uarts : Watched(u)' => Watched(u)
  BY <1>1, <1>2, <1>3 DEF Watched, Resetting, Releasing, Is
<1>7. OrderKept'
  BY <1>1, <1>6 DEF UartInv, OrderKept, InOrder
<1> QED
  BY <1>1, <1>4, <1>5, <1>7, FlagsStay DEF UartInv

LEMMA ReleaseUartKeepsOrder ==
  ASSUME IInv, UartInv, Release_Uart
  PROVE  UartInv'
<1>1. /\ AtDev("release") /\ Dev \in Uarts /\ uopen[Dev] /\ sup' = [sup EXCEPT !.at = "close"]
      /\ irq' = [irq EXCEPT ![PeriphOf[Dev]] = FALSE]
      /\ UNCHANGED <<uopen, head, tail, ring, dropped, data, err, sent, lost, last, looped, own, stale, call, res>>
  BY DEF Release_Uart, UartRelease_IrqOff, rings, owners, slotVars
<1>2. /\ sup.at = "release" /\ sup'.at = "close" /\ sup'.slot = sup.slot /\ Dev' = Dev
  <2>1. sup' = [at |-> "close", slot |-> sup.slot, i |-> sup.i, next |-> sup.next]
    BY <1>1, NextDeclaration
  <2> QED
    BY <1>1, <2>1 DEF AtDev, Dev
<1>3. \A u \in Uarts \ {Dev} : uopen[u] => PeriphOf[u] # PeriphOf[Dev]
  BY <1>1 DEF IInv, OpensAgree, OneMapping
<1>4. \A p \in Periphs \ {PeriphOf[Dev]} : irq'[p] = irq[p]
  BY <1>1 DEF IInv, DriversTyped
<1>5. UartTyped' /\ HandsAgree'
  BY <1>1 DEF UartInv, UartTyped, HandsAgree
<1>6. LinesAreOn'
  BY <1>1, <1>2, <1>3, <1>4, PeriphOfUart DEF UartInv, LinesAreOn
<1>7. \A u \in Uarts : Watched(u)' => Watched(u)
  BY <1>1, <1>2 DEF Watched, Resetting, Releasing, Declared, Is
<1>8. OrderKept'
  BY <1>1, <1>7 DEF UartInv, OrderKept, InOrder
<1> QED
  BY <1>1, <1>5, <1>6, <1>8, FlagsStay DEF UartInv

\* The other instances of the peripheral are closed, so nobody misses what the
\* closing clears.
LEMMA ReleaseUartClosesKeepsOrder ==
  ASSUME IInv, UartInv, Release_UartCloses
  PROVE  UartInv'
<1>1. PICK u : u = Dev
  OBVIOUS
<1>2. PICK p : p = PeriphOf[u]
  OBVIOUS
<1>3. PICK kept \in BOOLEAN :
        /\ data' = [data EXCEPT ![p] = IF kept THEN data[p] ELSE 0]
        /\ lost' = [lost EXCEPT ![p] = kept /\ lost[p]]
        /\ err' = [err EXCEPT ![p] = kept /\ err[p]]
  BY <1>1, <1>2 DEF Release_UartCloses, UartRelease_Closes
<1>4. /\ AtDev("close") /\ sup' = [sup EXCEPT !.at = "release", !.i = @ + 1]
      /\ uopen' = [uopen EXCEPT ![u] = FALSE]
      /\ head' = [head EXCEPT ![u] = 0] /\ tail' = [tail EXCEPT ![u] = 0]
      /\ last' = [last EXCEPT ![u] = 0] /\ own' = [own EXCEPT ![u] = 0] /\ stale' = [stale EXCEPT ![u] = 0]
      /\ UNCHANGED <<ring, dropped, irq, sent, looped, call, res>>
  BY <1>1 DEF Release_UartCloses, UartRelease_Closes, slotVars
<1>5. /\ sup.at = "close" /\ sup'.at = "release" /\ sup'.slot = sup.slot
  <2>1. sup' = [at |-> "release", slot |-> sup.slot, i |-> sup.i + 1, next |-> sup.next]
    BY <1>4, NextDeclaration
  <2> QED
    BY <1>4, <2>1 DEF AtDev
<1>6. u \in Uarts /\ uopen[u] /\ p \in Periphs /\ UartTyped
  BY <1>1, <1>2, <1>5, PeriphOfUart DEF IInv, OpensAgree, JobAgrees, UartInv
<1>7. \A v \in Uarts \ {u} : uopen[v] => PeriphOf[v] # p
  BY <1>2, <1>6 DEF IInv, OpensAgree, OneMapping
<1>8. /\ DOMAIN head' = Uarts /\ DOMAIN tail' = Uarts /\ DOMAIN last' = Uarts
      /\ head'[u] = 0 /\ tail'[u] = 0 /\ last'[u] = 0
      /\ \A v \in Uarts \ {u} : head'[v] = head[v] /\ tail'[v] = tail[v] /\ last'[v] = last[v]
  BY <1>4, <1>6 DEF UartTyped
<1>15. /\ DOMAIN own' = Uarts /\ DOMAIN stale' = Uarts /\ own'[u] = 0
       /\ \A v \in Uarts \ {u} : own'[v] = own[v] /\ stale'[v] = stale[v]
  BY <1>4, <1>6 DEF UartInv, OwnersAgree
<1>9. ~ uopen'[u] /\ \A v \in Uarts \ {u} : uopen'[v] = uopen[v]
  BY <1>4, <1>6 DEF IInv, DriversTyped
<1>10. /\ DOMAIN data' = Periphs /\ DOMAIN lost' = Periphs
       /\ \A q \in Periphs \ {p} : data'[q] = data[q] /\ lost'[q] = lost[q]
       /\ kept => data'[p] = data[p] /\ lost'[p] = lost[p]
       /\ ~ kept => data'[p] = 0 /\ lost'[p] = FALSE
  <2>1. RegisterTyped(sent[p], data[p], lost[p])
    BY <1>6 DEF UartTyped
  <2>2. lost[p] \in BOOLEAN
    BY <2>1 DEF RegisterTyped
  <2> QED
    BY <1>3, <1>6, <2>2 DEF UartTyped
<1>11. UartTyped'
  <2>1. \A v \in Uarts : RingTyped(head'[v], tail'[v], ring'[v], last'[v], dropped'[v], looped'[v])
    <3>1. RingTyped(0, 0, ring[u], 0, dropped[u], looped[u])
      <4>1. 0 \in 0 .. Ring - 1
        BY RingSize
      <4> QED
        BY <1>6, <4>1 DEF UartTyped, RingTyped
    <3>2. \A v \in Uarts \ {u} : RingTyped(head'[v], tail'[v], ring'[v], last'[v], dropped'[v], looped'[v])
      <4> SUFFICES ASSUME NEW v \in Uarts \ {u}
                   PROVE  RingTyped(head'[v], tail'[v], ring'[v], last'[v], dropped'[v], looped'[v])
        OBVIOUS
      <4>1. RingTyped(head[v], tail[v], ring[v], last[v], dropped[v], looped[v])
        BY <1>6 DEF UartTyped
      <4> QED
        BY <1>4, <1>8, <4>1
    <3> QED
      BY <1>4, <1>8, <3>1, <3>2
  <2>2. \A q \in Periphs : RegisterTyped(sent'[q], data'[q], lost'[q])
    <3>1. RegisterTyped(sent[p], 0, FALSE) /\ RegisterTyped(sent[p], data[p], lost[p])
      BY <1>6 DEF UartTyped, RegisterTyped
    <3>2. RegisterTyped(sent'[p], data'[p], lost'[p])
      BY <1>4, <1>10, <3>1
    <3>3. \A q \in Periphs \ {p} : RegisterTyped(sent'[q], data'[q], lost'[q])
      BY <1>4, <1>6, <1>10 DEF UartTyped
    <3> QED
      BY <3>2, <3>3
  <2> QED
    BY <1>4, <1>6, <1>8, <1>10, <2>1, <2>2 DEF UartTyped
<1>16. FlagsAgree' /\ OwnersAgree'
  <2>1. FlagsAgree'
    <3>1. DOMAIN err' = Periphs /\ \A q \in Periphs : err'[q] => err[q] /\ (q = p => kept)
      BY <1>3, <1>6 DEF UartInv, FlagsAgree
    <3> QED
      BY <1>10, <3>1 DEF UartInv, FlagsAgree
  <2>2. \A v \in Uarts : own'[v] \in Nat /\ own'[v] <= sent[PeriphOf[v]]
    <3>1. sent[p] \in Nat /\ sent[p] >= 0
      BY <1>6 DEF UartTyped, RegisterTyped
    <3>2. \A v \in Uarts \ {u} : own'[v] \in Nat /\ own'[v] <= sent[PeriphOf[v]]
      BY <1>15 DEF UartInv, OwnersAgree
    <3> QED
      BY <1>2, <1>15, <3>1, <3>2
  <2> QED
    BY <1>4, <1>15, <2>1, <2>2 DEF OwnersAgree
<1>12. LinesAreOn'
  BY <1>1, <1>4, <1>5, <1>9 DEF UartInv, LinesAreOn
<1>13. HandsAgree'
  <2> SUFFICES ASSUME NEW s \in Slots, call[s].at \in {"copied", "tail", "head"}
               PROVE  call[s].dev \in Uarts \ {u}
    BY <1>4, <1>8 DEF UartInv, HandsAgree
  <2>1. call[s] # NoCall /\ Releasing /\ AtDev(sup.at)
    BY <1>4, <1>5 DEF NoCall, Releasing
  <2> QED
    BY <1>1, <2>1, CallerIsReader, NoCallForReleased DEF UartSteps
<1>14. OrderKept'
  <2> SUFFICES ASSUME NEW v \in Uarts, Watched(v)' PROVE InOrder(v)'
    BY DEF OrderKept
  <2>1. uopen'[v] /\ v # u /\ uopen[v]
    BY <1>5, <1>9 DEF Watched
  <2>2. Watched(v)
    BY <1>4, <1>5, <2>1 DEF Watched, Resetting, Releasing, Declared, Is
  <2>3. InOrder(v) /\ PeriphOf[v] \in Periphs /\ PeriphOf[v] # p
    BY <1>7, <2>1, <2>2, PeriphOfUart DEF UartInv, OrderKept
  <2> QED
    BY <1>4, <1>8, <1>10, <1>15, <2>1, <2>3 DEF InOrder
<1> QED
  BY <1>11, <1>12, <1>13, <1>14, <1>16 DEF UartInv

LEMMA SupervisorKeepsOrder ==
  ASSUME IInv, UartInv, SupervisorStep
  PROVE  UartInv'
<1>1. ASSUME NEW s \in Slots, NEW image \in catalog, Load(s, image)
      PROVE  UartInv'
  <2>1. CASE res[s] = <<>>
    BY <1>1, <2>1, OtherJobsKeepOrder DEF Load, Releasing
  <2>2. CASE res[s] # <<>>
    BY <1>1, <2>2, ReclaimKeepsOrder DEF Load
  <2> QED
    BY <2>1, <2>2
<1>2. ASSUME NEW s \in Slots, Unload(s)
      PROVE  UartInv'
  BY <1>2, ReclaimKeepsOrder DEF Unload
<1>3. CASE Claim_Nothing \/ Claim_Bus \/ Claim_Adc
  <2>1. sup.at = "claim" /\ UNCHANGED <<uartVars, call>> /\ GoesOn
    BY <1>3 DEF Claim_Nothing, Claim_Bus, Claim_Adc, AtDev, BusClaim, AdcClaim, slotVars
  <2>2. sup' = [at |-> sup.at, slot |-> sup.slot, i |-> sup.i + 1, next |-> sup.next]
    BY <2>1, NextDeclaration DEF GoesOn
  <2>3. sup'.at = "claim"
    BY <2>1, <2>2
  <2> QED
    BY <2>1, <2>3, OtherJobsKeepOrder DEF Releasing
<1>4. CASE Claim_Ends
  BY <1>4, OtherJobsKeepOrder DEF Claim_Ends, Releasing, Idle
<1>5. CASE Release_Nothing \/ Release_Bus \/ Release_Adc
  <2>1. sup.at = "release" /\ UNCHANGED <<uartVars, call, res>> /\ GoesOn
    BY <1>5 DEF Release_Nothing, Release_Bus, Release_Adc, AtDev, BusRelease, AdcRelease, slotVars
  <2>2. sup' = [at |-> sup.at, slot |-> sup.slot, i |-> sup.i + 1, next |-> sup.next]
    BY <2>1, NextDeclaration DEF GoesOn
  <2>3. sup'.at = "release" /\ sup'.slot = sup.slot
    BY <2>1, <2>2
  <2> QED
    BY <2>1, <2>3, ReleaseKeepsOrder
<1>6. ASSUME NEW b \in I2cs, Shell_Begins(b)
      PROVE  UartInv'
  BY <1>6, OtherJobsKeepOrder DEF Shell_Begins, Shell_Opens, Releasing
<1>7. CASE Shell_Ends
  BY <1>7, OtherJobsKeepOrder DEF Shell_Ends, Shell_Closes, Releasing, Idle
<1> QED
  BY <1>1, <1>2, <1>3, <1>4, <1>5, <1>6, <1>7, ClaimUartKeepsOrder, ClaimUartIrqKeepsOrder,
     ClaimUartOpenKeepsOrder, ReleaseUartKeepsOrder, ReleaseUartClosesKeepsOrder, ReleaseEndsKeepsOrder
     DEF SupervisorStep

LEMMA InitOrder == DevInit => UartInv
<1> SUFFICES ASSUME DevInit PROVE UartInv
  OBVIOUS
<1>1. /\ sup = Idle /\ call = [s \in Slots |-> NoCall]
      /\ uopen = [u \in Uarts |-> FALSE] /\ looped = uopen
      /\ ring = [u \in Uarts |-> [i \in 0 .. Ring - 1 |-> 0]]
      /\ head = [u \in Uarts |-> 0] /\ tail = head /\ dropped = head /\ last = head
      /\ lost = [p \in Periphs |-> FALSE] /\ err = lost
      /\ own = head /\ stale = head
      /\ data = [p \in Periphs |-> 0] /\ sent = data
  BY DEF DevInit, UartInit
<1>2. UartTyped
  <2>1. 0 \in 0 .. Ring - 1 /\ [i \in 0 .. Ring - 1 |-> 0] \in [0 .. Ring - 1 -> Nat]
    BY RingSize
  <2>2. RingTyped(0, 0, [i \in 0 .. Ring - 1 |-> 0], 0, 0, FALSE) /\ RegisterTyped(0, 0, FALSE)
    BY <2>1 DEF RingTyped, RegisterTyped
  <2>3. \A u \in Uarts : RingTyped(head[u], tail[u], ring[u], last[u], dropped[u], looped[u])
    BY <1>1, <2>2
  <2>4. \A p \in Periphs : RegisterTyped(sent[p], data[p], lost[p])
    BY <1>1, <2>2
  <2> QED
    BY <1>1, <2>3, <2>4 DEF UartTyped
<1>3. LinesAreOn /\ HandsAgree
  BY <1>1 DEF LinesAreOn, HandsAgree, Idle, NoCall
<1>4. OrderKept
  BY <1>1 DEF OrderKept, Watched, Idle
<1>5. FlagsAgree /\ OwnersAgree
  BY <1>1, PeriphOfUart DEF FlagsAgree, OwnersAgree
<1> QED
  BY <1>2, <1>3, <1>4, <1>5 DEF UartInv

LEMMA NextOrder ==
  ASSUME IInv, UartInv, [DevNext]_devVars
  PROVE  UartInv'
<1>1. CASE UNCHANGED devVars
  BY <1>1, OthersKeepOrder DEF devVars, slotVars
<1>2. ASSUME NEW p \in Periphs, Byte(p) \/ Isr(p), UNCHANGED <<slotVars, sup, conf, call, busVars, adcVars>>
      PROVE  UartInv'
  BY <1>2, ByteKeepsOrder, IsrKeepsOrder DEF slotVars
<1>3. CASE AdcCompletes /\ UNCHANGED <<slotVars, sup, conf, uartVars, busVars>>
  BY <1>3, OthersKeepOrder DEF AdcCompletes, slotVars
<1> QED
  BY <1>1, <1>2, <1>3, SupervisorKeepsOrder, ModuleKeepsOrder DEF DevNext

(* The receive rings agree with what their peripherals have received and    *)
(* with what their readers hold, at every step of a read, of a claim, of a  *)
(* release and of the loopback call (host_uart.c:56-65, 118-141, 205-272).  *)
THEOREM RingsInvariant == DevSpec => []UartInv
<1>1. DevInit => UartInv
  BY InitOrder
<1>2. IInv /\ UartInv /\ [DevNext]_devVars => UartInv'
  BY NextOrder
<1> QED
  BY <1>1, <1>2, DevicesInvariant, PTL DEF DevSpec

(* A module reads bytes in the order they came, all of its own time but for *)
(* the one its peripheral held at the claim; while dropped is 0 and the     *)
(* peripheral overran none it reads all, for any length of the ring, any    *)
(* peripherals and any number of bytes (host_uart.c:56-65, 118-141).        *)
THEOREM BytesArriveInOrder == DevSpec => []ReceivedInOrder
<1>1. IInv /\ UartInv => ReceivedInOrder
  <2> SUFFICES ASSUME IInv, UartInv, NEW u \in Uarts, uopen[u], HasReader(u), ~ Resetting(u)
               PROVE  LET q == <<last[u]>> \o Unread(u)
                          p == PeriphOf[u]
                      IN  /\ \A i \in 1 .. Len(q) - 1 : q[i] < q[i + 1]
                          /\ \A i \in 2 .. Len(q) : q[i] > own[u] \/ q[i] = stale[u]
                          /\ dropped[u] = 0 /\ ~ lost[p] /\ ~ looped[u] =>
                               last[u] + Used(u) + (IF data[p] # 0 THEN 1 ELSE 0) = sent[p]
    BY DEF ReceivedInOrder
  <2> DEFINE q == <<last[u]>> \o Unread(u)  p == PeriphOf[u]
             At(i) == EntryOf(ring[u], tail[u], last[u], i)
  <2>1. Watched(u)
    <3>1. ~ (Releasing /\ Declared(sup.slot, u))
      <4> SUFFICES ASSUME Releasing, Declared(sup.slot, u) PROVE FALSE
        OBVIOUS
      <4>1. sup.slot \in Slots /\ ~ alive[sup.slot]
        BY DEF IInv, SlotsTyped, CallsAgree
      <4> QED
        BY <4>1, OneSlotDeclares DEF IInv, HasReader
    <3> QED
      BY <3>1 DEF Watched
  <2>2. /\ RingTyped(head[u], tail[u], ring[u], last[u], dropped[u], looped[u])
        /\ Ordered(head[u], tail[u], ring[u], last[u], dropped[u], looped[u], sent[p], data[p], lost[p],
                   own[u], stale[u])
    BY <2>1 DEF UartInv, UartTyped, OrderKept, InOrder
  <2>3. /\ head[u] \in 0 .. Ring - 1 /\ tail[u] \in 0 .. Ring - 1 /\ ring[u] \in [0 .. Ring - 1 -> Nat]
        /\ last[u] \in Nat
    BY <2>2 DEF RingTyped
  <2>4. Used(u) = Count(head[u], tail[u]) /\ Used(u) \in 0 .. Ring - 1 /\ Used(u) \in Nat
    <3>1. Used(u) = Count(head[u], tail[u]) /\ Used(u) \in 0 .. Ring - 1
      BY <2>3, CountIs DEF Used, Count
    <3> QED
      BY <3>1, RingSize
  <2>5. PICK n \in Nat : n = Used(u) /\ n \in 0 .. Ring - 1
    BY <2>4
  <2>6. \A i \in 1 .. n : ring[u][(tail[u] + i - 1) % Ring] = At(i) /\ At(i) \in Nat
    <3> SUFFICES ASSUME NEW i \in 1 .. n
                 PROVE  ring[u][(tail[u] + i - 1) % Ring] = At(i) /\ At(i) \in Nat
      OBVIOUS
    <3>1. i # 0 /\ i \in 0 .. Ring
      BY <2>5, RingSize
    <3> QED
      BY <2>3, <3>1, EntryTyped DEF EntryOf
  <2>7. Unread(u) = [i \in 1 .. n |-> At(i)]
    BY <2>5, <2>6 DEF Unread
  <2>8. At(0) = last[u]
    BY DEF EntryOf
  <2>9. /\ \A i, j \in 0 .. n : i < j => At(i) < At(j)
        /\ \A i \in 1 .. n : At(i) > own[u] \/ At(i) = stale[u]
        /\ dropped[u] = 0 /\ ~ looped[u] /\ ~ lost[p] =>
             last[u] + n + (IF data[p] # 0 THEN 1 ELSE 0) = sent[p]
    BY <2>2, <2>4, <2>5 DEF Ordered
  <2> HIDE DEF At
  <2>10. Unread(u) \in Seq(Nat) /\ Len(Unread(u)) = n
    BY <2>6, <2>7
  <2>11. Len(q) = n + 1 /\ \A i \in 1 .. n + 1 : q[i] = At(i - 1)
    <3>1. <<last[u]>> \in Seq(Nat) /\ Len(<<last[u]>>) = 1
      BY <2>3
    <3>2. /\ Len(q) = 1 + n
          /\ \A i \in 1 .. 1 + n : q[i] = IF i <= 1 THEN <<last[u]>>[i] ELSE Unread(u)[i - 1]
      BY <2>10, <3>1, ConcatProperties
    <3> QED
      BY <2>7, <2>8, <3>2
  <2> HIDE DEF q
  <2>12. \A i \in 1 .. Len(q) - 1 : q[i] < q[i + 1]
    <3> SUFFICES ASSUME NEW i \in 1 .. n PROVE q[i] < q[i + 1]
      BY <2>11
    <3>1. i \in 1 .. n + 1 /\ i + 1 \in 1 .. n + 1 /\ i - 1 \in 0 .. n /\ i \in 0 .. n /\ i + 1 - 1 = i
      OBVIOUS
    <3>2. q[i] = At(i - 1) /\ q[i + 1] = At(i)
      BY <2>11, <3>1
    <3> QED
      BY <2>9, <3>1, <3>2
  <2>13. \A i \in 2 .. Len(q) : q[i] > own[u] \/ q[i] = stale[u]
    <3> SUFFICES ASSUME NEW i \in 2 .. n + 1 PROVE q[i] > own[u] \/ q[i] = stale[u]
      BY <2>11
    <3>1. i \in 1 .. n + 1 /\ i - 1 \in 1 .. n
      OBVIOUS
    <3> QED
      BY <2>9, <2>11, <3>1
  <2> QED
    BY <2>5, <2>9, <2>12, <2>13 DEF q
<1> QED
  BY <1>1, DevicesInvariant, RingsInvariant, PTL
=============================================================================
