-------------------------------- MODULE Uart --------------------------------
(***************************************************************************)
(* The UART driver (src/mdl/host/host_uart.c): a receive ring that the     *)
(* interrupt fills and a module's read empties, and the steps in which the *)
(* supervisor opens and closes an instance.  The interrupt may come        *)
(* between any two steps, and nothing else runs while one is pending.      *)
(* A byte is the number of its arrival.  STS followed by DT is read to     *)
(* clear the error flags that STS showed, as this part does.               *)
(***************************************************************************)
EXTENDS Resources

CONSTANTS
  Ring,        \* UART_RX_RING
  PeriphOf,    \* PeriphOf[u]: the peripheral of an instance; 2 and 4 share one
  LooksUp,     \* the peripherals whose handler serves an OPEN instance only
  MaxBytes     \* bound on the bytes that arrive at a peripheral

\* A handler that does not look for an open instance has one to serve.
ASSUME UartAssumption ==
  /\ Ring \in Nat \ {0, 1} /\ MaxBytes \in Nat
  /\ \A u, v \in Uarts : u # v /\ PeriphOf[u] = PeriphOf[v] => PeriphOf[u] \in LooksUp

Periphs == {PeriphOf[u] : u \in Uarts}

VARIABLES
  uopen, ring, head, tail, dropped,   \* uart_bus_t, per instance
  irq,       \* the peripheral's line is enabled in the interrupt controller
  rx,        \* its receiver is enabled
  data,      \* the byte in its data register, 0 when RDBF is clear
  err,       \* ROERR, FERR or NERR is set
  sent,      \* sent[p]: how many bytes have arrived
  lost,      \* lost[p]: one was overrun since the owner's first could come
  last,      \* last[u]: the byte the owner got last, or the one before its first
  looped,    \* the owner has used the loopback call
  own,       \* own[u]: the bytes of the owner's own time are those after this one
  stale      \* stale[u]: what the data register held at the claim, or 0

rings    == <<uopen, ring, head, tail, dropped>>
owners   == <<own, stale>>
uartVars == <<rings, irq, rx, data, err, sent, lost, last, looped, owners>>

UartInit ==
  /\ uopen = [u \in Uarts |-> FALSE]
  /\ ring = [u \in Uarts |-> [i \in 0 .. Ring - 1 |-> 0]]
  /\ head = [u \in Uarts |-> 0] /\ tail = head /\ dropped = head
  /\ irq = [p \in Periphs |-> FALSE] /\ rx = irq /\ err = irq /\ lost = irq
  /\ data = [p \in Periphs |-> 0]
  /\ sent = data
  /\ last = head
  /\ looped = uopen
  /\ own = head /\ stale = head

Used(u) == (head[u] - tail[u]) % Ring

-----------------------------------------------------------------------------
(* The interrupt half. *)

CanCome(p) == rx[p] /\ sent[p] < MaxBytes

\* A byte on the line, with a framing or noise error or without.  It overruns
\* the one before when that has not been read.
Byte(p) ==
  /\ CanCome(p)
  /\ sent' = [sent EXCEPT ![p] = @ + 1]
  /\ \/ /\ data[p] = 0
        /\ data' = [data EXCEPT ![p] = sent[p] + 1]
        /\ \E flawed \in BOOLEAN : err' = [err EXCEPT ![p] = flawed]
        /\ lost' = lost
     \/ /\ data[p] # 0
        /\ err' = [err EXCEPT ![p] = TRUE]
        /\ lost' = [lost EXCEPT ![p] = TRUE]
        /\ data' = data
  /\ UNCHANGED <<rings, irq, rx, last, looped, owners>>

Pending(p) == irq[p] /\ (data[p] # 0 \/ err[p])
TasksRun   == \A p \in Periphs : ~ Pending(p)

IsFull_Never(u) == FALSE

IsFull(u) == (head[u] + 1) % Ring = tail[u]

\* uart_isr().  With a byte there, the reads of lines 120 and 121 clear every
\* flag that is set, and line 135 tests for an error that is gone.  It finds
\* only one that comes while the handler runs, with a byte that overruns between
\* the two reads or that is flawed: line 138 throws it away, line 139 counts it.
Serve(u) ==
  LET p    == PeriphOf[u]
      came == data[p] # 0
      full == came /\ IsFull(u)
  IN  \E late \in BOOLEAN :
        /\ late => CanCome(p)
        /\ IF came /\ ~ full
           THEN /\ ring' = [ring EXCEPT ![u][head[u]] = data[p]]
                /\ head' = [head EXCEPT ![u] = (@ + 1) % Ring]
           ELSE UNCHANGED <<ring, head>>
        /\ dropped' = [dropped EXCEPT ![u] = @ + (IF full THEN 1 ELSE 0)
                                               + (IF late \/ (err[p] /\ ~ came) THEN 1 ELSE 0)]
        /\ sent' = [sent EXCEPT ![p] = IF late THEN @ + 1 ELSE @]
        /\ data' = [data EXCEPT ![p] = 0]
        /\ err' = [err EXCEPT ![p] = FALSE]
        /\ UNCHANGED <<uopen, tail, irq, rx, lost, last, looped, owners>>

Serves(p) == {u \in Uarts : PeriphOf[u] = p /\ (p \in LooksUp => uopen[u])}

\* USART2_IRQHandler(), USART3_IRQHandler(): with nothing to serve the flag
\* stays set and the interrupt is taken again.
Isr(p) ==
  /\ Pending(p)
  /\ IF Serves(p) = {} THEN UNCHANGED uartVars ELSE \E u \in Serves(p) : Serve(u)

-----------------------------------------------------------------------------
(* The supervisor's half; each step is one that an interrupt can follow. *)

\* The other pin mapping of the peripheral is open.
OtherMappingOpen(u) == \E v \in Uarts \ {u} : PeriphOf[v] = PeriphOf[u] /\ uopen[v]

UartClaimRefuses(u) == uopen[u] \/ OtherMappingOpen(u)

\* uart_apply() sets the rate the instance has; the data register is not read.
UartClaim_Applies(u) ==
  /\ ~ UartClaimRefuses(u)
  /\ head' = [head EXCEPT ![u] = 0]
  /\ tail' = [tail EXCEPT ![u] = 0]
  /\ dropped' = [dropped EXCEPT ![u] = 0]
  /\ rx' = [rx EXCEPT ![PeriphOf[u]] = TRUE]
  /\ last' = [last EXCEPT ![u] = LET p == PeriphOf[u]
                                 IN  IF data[p] # 0 THEN data[p] - 1 ELSE sent[p]]
  /\ looped' = [looped EXCEPT ![u] = FALSE]
  /\ lost' = [lost EXCEPT ![PeriphOf[u]] = @ /\ data[PeriphOf[u]] # 0]
  /\ own' = [own EXCEPT ![u] = sent[PeriphOf[u]]]
  /\ stale' = [stale EXCEPT ![u] = data[PeriphOf[u]]]
  /\ UNCHANGED <<uopen, ring, irq, data, err, sent>>

UartClaim_IrqOn(u) ==
  /\ irq' = [irq EXCEPT ![PeriphOf[u]] = TRUE]
  /\ UNCHANGED <<rings, rx, data, err, sent, lost, last, looped, owners>>

UartClaim_Opens(u) ==
  /\ uopen' = [uopen EXCEPT ![u] = TRUE]
  /\ UNCHANGED <<ring, head, tail, dropped, irq, rx, data, err, sent, lost, last, looped, owners>>

UartRelease_IrqOff_Late(u) ==
  /\ uopen[u]
  /\ uopen' = [uopen EXCEPT ![u] = FALSE]
  /\ UNCHANGED <<ring, head, tail, dropped, irq, rx, data, err, sent, lost, last, looped, owners>>

UartRelease_IrqOff(u) ==
  /\ uopen[u]
  /\ irq' = [irq EXCEPT ![PeriphOf[u]] = FALSE]
  /\ UNCHANGED <<rings, rx, data, err, sent, lost, last, looped, owners>>

\* Whether the flags outlive the switched-off peripheral is not known.
UartRelease_Closes(u) ==
  LET p == PeriphOf[u]
  IN  /\ uopen' = [uopen EXCEPT ![u] = FALSE]
      /\ head' = [head EXCEPT ![u] = 0]
      /\ tail' = [tail EXCEPT ![u] = 0]
      /\ rx' = [rx EXCEPT ![p] = FALSE]
      /\ \E kept \in BOOLEAN :
           /\ data' = [data EXCEPT ![p] = IF kept THEN @ ELSE 0]
           /\ err' = [err EXCEPT ![p] = kept /\ @]
           /\ lost' = [lost EXCEPT ![p] = kept /\ @]
      /\ last' = [last EXCEPT ![u] = 0]
      /\ own' = [own EXCEPT ![u] = 0]
      /\ stale' = [stale EXCEPT ![u] = 0]
      /\ UNCHANGED <<ring, dropped, irq, sent, looped>>

-----------------------------------------------------------------------------
(* The module-facing half. *)

UartRead_Begins(s, u) ==
  /\ u \in Uarts /\ uopen[u]
  /\ Enters(s, u, "read")
  /\ UNCHANGED uartVars

UartRead_Copies(s) ==
  /\ Is(s, "read")
  /\ LET u == call[s].dev
     IN  /\ tail[u] # head[u]
         /\ call' = [call EXCEPT ![s].at = "copied", ![s].left = ring[u][tail[u]]]
  /\ UNCHANGED uartVars

UartRead_Advances(s) ==
  /\ Is(s, "copied")
  /\ LET u == call[s].dev
     IN  /\ tail' = [tail EXCEPT ![u] = (@ + 1) % Ring]
         /\ last' = [last EXCEPT ![u] = call[s].left]
  /\ call' = [call EXCEPT ![s].at = "read", ![s].left = 0]
  /\ UNCHANGED <<uopen, ring, head, dropped, irq, rx, data, err, sent, lost, looped, owners>>

\* The ring is empty, or the caller's buffer is full.
UartRead_Ends(s) == Is(s, "read") /\ Returns(s) /\ UNCHANGED uartVars

\* host_uart_loopback_impl(): u->head = u->tail = 0 stores the tail first.
Loop_Begins(s, u) ==
  /\ u \in Uarts /\ uopen[u]
  /\ Enters(s, u, "loop")
  /\ UNCHANGED uartVars

Loop_Tail(s) ==
  /\ Is(s, "loop") /\ Goes(s, "tail")
  /\ tail' = [tail EXCEPT ![call[s].dev] = 0]
  /\ UNCHANGED <<uopen, ring, head, dropped, irq, rx, data, err, sent, lost, last, looped, owners>>

Loop_Head(s) ==
  /\ Is(s, "tail") /\ Goes(s, "head")
  /\ head' = [head EXCEPT ![call[s].dev] = 0]
  /\ last' = [last EXCEPT ![call[s].dev] = sent[PeriphOf[call[s].dev]]]
  /\ looped' = [looped EXCEPT ![call[s].dev] = TRUE]
  /\ UNCHANGED <<uopen, ring, tail, dropped, irq, rx, data, err, sent, lost, owners>>

Loop_Ends(s) ==
  /\ Is(s, "head") /\ Returns(s)
  /\ dropped' = [dropped EXCEPT ![call[s].dev] = 0]
  /\ UNCHANGED <<uopen, ring, head, tail, irq, rx, data, err, sent, lost, last, looped, owners>>

UartCall(s) ==
  \/ \E u \in Uarts : UartRead_Begins(s, u) \/ Loop_Begins(s, u)
  \/ UartRead_Copies(s) \/ UartRead_Advances(s) \/ UartRead_Ends(s)
  \/ Loop_Tail(s) \/ Loop_Head(s) \/ Loop_Ends(s)

-----------------------------------------------------------------------------
Unread(u)    == [i \in 1 .. Used(u) |-> ring[u][(tail[u] + i - 1) % Ring]]
HasReader(u) == \E s \in Slots : alive[s] /\ Declared(s, u)
Resetting(u) == \E s \in Slots : Is(s, "tail") /\ call[s].dev = u

(* A module receives bytes in the order they came, all of its own time but  *)
(* for the one its peripheral may still have held, and while dropped is 0   *)
(* and the peripheral overran none it receives all (host_uart.c:56-65,      *)
(* 118-141, 226-234).  The loopback call is an exception: it empties the    *)
(* ring and the counter with the interrupt enabled, and what came in        *)
(* between goes uncounted.                                                  *)
ReceivedInOrder ==
  \A u \in Uarts : uopen[u] /\ HasReader(u) /\ ~ Resetting(u) =>
    LET q == <<last[u]>> \o Unread(u)
        p == PeriphOf[u]
    IN  /\ \A i \in 1 .. Len(q) - 1 : q[i] < q[i + 1]
        /\ \A i \in 2 .. Len(q) : q[i] > own[u] \/ q[i] = stale[u]
        /\ dropped[u] = 0 /\ ~ lost[p] /\ ~ looped[u] =>
             last[u] + Used(u) + (IF data[p] # 0 THEN 1 ELSE 0) = sent[p]

=============================================================================
