------------------------------ MODULE UartRings ------------------------------
(***************************************************************************)
(* The USART2 driver (stm32f401_uart2.c): two single-producer              *)
(* single-consumer byte rings shared by the foreground and the interrupt   *)
(* handler. The foreground is preempted between any two of its accesses to *)
(* the shared volatile variables; the handler is not preempted by the      *)
(* foreground, but the peripheral keeps receiving and sending while it     *)
(* runs, in particular between its read of SR and its read of DR.          *)
(*                                                                         *)
(* A byte is identified by its number: received bytes by their arrival on  *)
(* the line, transmitted ones by their acceptance by write. What the       *)
(* bytes say is of no interest to the driver.                              *)
(***************************************************************************)
EXTENDS Integers

CONSTANTS RxCapacity,   \* GUARDIAN_STM32F401_UART2_RX_CAPACITY (512)
          TxCapacity,   \* GUARDIAN_STM32F401_UART2_TX_CAPACITY (512)
          MaxFrame,     \* longest frame passed to write
          MaxArrived,   \* bound: bytes the line delivers
          MaxAccepted   \* bound: bytes write accepts

ASSUME RingAssumption ==
  /\ RxCapacity \in Nat \ {0, 1}
  /\ TxCapacity \in Nat \ {0, 1}
  /\ MaxFrame \in Nat /\ MaxArrived \in Nat /\ MaxAccepted \in Nat

VARIABLES
  rxq, rxHead, rxTail,     \* guardian_rx_queue, guardian_rx_head, guardian_rx_tail
  txq, txHead, txTail,     \* guardian_tx_queue, guardian_tx_head, guardian_tx_tail
  txeie,                   \* CR1.TXEIE
  diag,                    \* the receive counters of guardian_uart_stats, summed
  usart,                   \* the peripheral: SR flags and the receive data register
  irq,                     \* the handler: running?, and its snapshot of SR
  pc, loc,                 \* the foreground: where it is, and its locals
  arrived, delivered,      \* last byte seen by the line, last one returned by read_byte
  lastStored, gaps,        \* last byte queued by the handler, and how often one was missing
  accepted, sent           \* last byte accepted by write, last one written to DR

rxVars == <<rxq, rxHead, rxTail, diag, arrived, delivered, lastStored, gaps>>
txVars == <<txq, txHead, txTail, txeie, accepted, sent>>
vars   == <<rxVars, txVars, usart, irq, pc, loc>>

(***************************************************************************)
(* The rings                                                               *)
(***************************************************************************)
rx_next(i) == IF i + 1 >= RxCapacity THEN 0 ELSE i + 1
tx_next(i) == IF i + 1 >= TxCapacity THEN 0 ELSE i + 1

\* The number of queued elements between tail and head, and the slot of the
\* i-th of them.
Used(head, tail, cap) == IF head >= tail THEN head - tail ELSE cap - (tail - head)
Slot(tail, i, cap)    == IF tail + i >= cap THEN tail + i - cap ELSE tail + i

\* Mutant: the sentinel slot is counted as free.
free_slots_full(head, tail) ==
  IF head >= tail THEN TxCapacity - (head - tail) ELSE tail - head

free_slots(head, tail) ==
  IF head >= tail THEN TxCapacity - (head - tail) - 1 ELSE (tail - head) - 1

(***************************************************************************)
(* The peripheral. RXNE, ORE and the line-error flags are what the handler *)
(* looks at; dr is the byte in the receive data register. A byte that      *)
(* arrives while RXNE is set is lost and sets ORE. Parity checking is off, *)
(* so "bad" stands for FE and NE.                                          *)
(***************************************************************************)
Usart == [rxne : BOOLEAN, ore : BOOLEAN, bad : BOOLEAN, dr : Nat, txe : BOOLEAN]
Irq   == [on : BOOLEAN, rxne : BOOLEAN, ore : BOOLEAN, bad : BOOLEAN]
NotRunning == [on |-> FALSE, rxne |-> FALSE, ore |-> FALSE, bad |-> FALSE]

ByteArrives(bad) ==
  /\ arrived < MaxArrived
  /\ arrived' = arrived + 1
  /\ usart' = IF usart.rxne THEN [usart EXCEPT !.ore = TRUE]
              ELSE [usart EXCEPT !.rxne = TRUE, !.bad = bad, !.dr = arrived + 1]
  /\ UNCHANGED <<rxq, rxHead, rxTail, diag, delivered, lastStored, gaps, txVars, irq, pc, loc>>

\* The byte in DR moves to the shift register.
TransmitterEmpties ==
  /\ ~usart.txe
  /\ usart' = [usart EXCEPT !.txe = TRUE]
  /\ UNCHANGED <<rxVars, txVars, irq, pc, loc>>

(***************************************************************************)
(* The interrupt handler                                                   *)
(***************************************************************************)
IrqPending == usart.rxne \/ usart.ore \/ (usart.txe /\ txeie)

\* The handler starts and takes its snapshot of SR.
IrqEnter ==
  /\ ~irq.on /\ IrqPending
  /\ irq' = [on |-> TRUE, rxne |-> usart.rxne, ore |-> usart.ore, bad |-> usart.bad]
  /\ UNCHANGED <<rxVars, txVars, usart, pc, loc>>

\* Mutant: a byte that finds the ring full is dropped without a trace.
SilentIrqReceive ==
  IF irq.rxne \/ irq.bad \/ irq.ore
  THEN /\ diag' = diag + (IF irq.bad THEN 1 ELSE 0) + (IF irq.ore THEN 1 ELSE 0)
       /\ IF irq.rxne /\ ~irq.bad /\ ~irq.ore /\ rx_next(rxHead) # rxTail
          THEN /\ rxq' = [rxq EXCEPT ![rxHead] = usart.dr]
               /\ rxHead' = rx_next(rxHead)
               /\ lastStored' = usart.dr
               /\ gaps' = gaps + (IF usart.dr = lastStored + 1 THEN 0 ELSE 1)
          ELSE UNCHANGED <<rxq, rxHead, lastStored, gaps>>
  ELSE UNCHANGED <<rxq, rxHead, diag, lastStored, gaps>>

IrqReceive ==
  IF irq.rxne \/ irq.bad \/ irq.ore
  THEN LET queue == irq.rxne /\ ~irq.bad /\ ~irq.ore
           fits  == rx_next(rxHead) # rxTail
       IN  /\ diag' = diag + (IF irq.bad THEN 1 ELSE 0) + (IF irq.ore THEN 1 ELSE 0)
                           + (IF queue /\ ~fits THEN 1 ELSE 0)
           /\ IF queue /\ fits
              THEN /\ rxq' = [rxq EXCEPT ![rxHead] = usart.dr]
                   /\ rxHead' = rx_next(rxHead)
                   /\ lastStored' = usart.dr
                   /\ gaps' = gaps + (IF usart.dr = lastStored + 1 THEN 0 ELSE 1)
              ELSE UNCHANGED <<rxq, rxHead, lastStored, gaps>>
  ELSE UNCHANGED <<rxq, rxHead, diag, lastStored, gaps>>

\* Mutant: the interrupt is switched off with every byte.
IrqTransmitOnce ==
  IF txeie /\ usart.txe /\ txTail # txHead
  THEN sent' = txq[txTail] /\ txTail' = tx_next(txTail) /\ txeie' = FALSE
  ELSE UNCHANGED <<sent, txTail, txeie>>

IrqTransmit ==
  IF txeie /\ usart.txe
  THEN IF txTail # txHead
       THEN /\ sent' = txq[txTail]
            /\ txTail' = tx_next(txTail)
            /\ UNCHANGED txeie
       ELSE /\ txeie' = FALSE
            /\ UNCHANGED <<sent, txTail>>
  ELSE UNCHANGED <<sent, txTail, txeie>>

\* The rest of the handler. Reading DR clears RXNE and the error flags, except
\* an overrun that happened after the snapshot of SR; writing DR clears TXE.
IrqService ==
  /\ irq.on
  /\ irq' = NotRunning
  /\ IrqReceive
  /\ IrqTransmit
  /\ LET read  == irq.rxne \/ irq.bad \/ irq.ore
         wrote == txeie /\ usart.txe /\ txTail # txHead
     IN  usart' = [usart EXCEPT !.rxne = @ /\ ~read, !.bad = @ /\ ~read,
                                !.ore = @ /\ ~irq.ore,
                                !.txe = @ /\ ~wrote]
  /\ UNCHANGED <<rxTail, arrived, delivered, txq, txHead, accepted, pc, loc>>

(***************************************************************************)
(* The foreground. loc.index is the ring position it works at, loc.left    *)
(* the bytes of the frame still to be copied, loc.byte the byte being      *)
(* copied or returned.                                                     *)
(***************************************************************************)
Locals == [index : Nat, left : Nat, byte : Nat]

\* read_byte sees a non-empty queue; an empty one makes it return at once.
ReadBegin ==
  /\ ~irq.on /\ pc = "idle"
  /\ rxTail # rxHead
  /\ pc' = "read_copy"
  /\ loc' = [loc EXCEPT !.index = rxTail]
  /\ UNCHANGED <<rxVars, txVars, usart, irq>>

ReadCopy ==
  /\ ~irq.on /\ pc = "read_copy"
  /\ loc' = [loc EXCEPT !.byte = rxq[loc.index]]
  /\ pc' = "read_advance"
  /\ UNCHANGED <<rxVars, txVars, usart, irq>>

ReadAdvance ==
  /\ ~irq.on /\ pc = "read_advance"
  /\ rxTail' = rx_next(loc.index)
  /\ delivered' = loc.byte
  /\ pc' = "idle"
  /\ UNCHANGED <<rxq, rxHead, diag, arrived, lastStored, gaps, txVars, usart, irq, loc>>

\* write reads both indices and finds room; otherwise it returns 0 and only
\* counts the rejection.
WriteBegin(length) ==
  /\ ~irq.on /\ pc = "idle"
  /\ accepted + length <= MaxAccepted
  /\ length # 0 /\ length < TxCapacity
  /\ free_slots(txHead, txTail) >= length
  /\ pc' = "write_copy"
  /\ loc' = [index |-> txHead, left |-> length, byte |-> accepted + 1]
  /\ UNCHANGED <<rxVars, txVars, usart, irq>>

WriteCopy ==
  /\ ~irq.on /\ pc = "write_copy" /\ loc.left > 0
  /\ txq' = [txq EXCEPT ![loc.index] = loc.byte]
  /\ loc' = [index |-> tx_next(loc.index), left |-> loc.left - 1, byte |-> loc.byte + 1]
  /\ UNCHANGED <<rxVars, txHead, txTail, txeie, accepted, sent, usart, irq, pc>>

WritePublish ==
  /\ ~irq.on /\ pc = "write_copy" /\ loc.left = 0
  /\ txHead' = loc.index
  /\ accepted' = loc.byte - 1
  /\ pc' = "write_enable"
  /\ UNCHANGED <<rxVars, txq, txTail, txeie, sent, usart, irq, loc>>

\* CR1 |= TXEIE. The handler changes no other bit of CR1, so what the read half
\* of the read-modify-write saw does not matter.
WriteEnable ==
  /\ ~irq.on /\ pc = "write_enable"
  /\ txeie' = TRUE
  /\ pc' = "idle"
  /\ UNCHANGED <<rxVars, txq, txHead, txTail, accepted, sent, usart, irq, loc>>

Write == \/ \E length \in 1..MaxFrame : WriteBegin(length)
         \/ WriteCopy
         \/ WritePublish
         \/ WriteEnable

Read == ReadBegin \/ ReadCopy \/ ReadAdvance

Handler == IrqEnter \/ IrqService

\* State after guardian_stm32f401_uart2_init.
Init ==
  /\ rxq = [i \in 0..RxCapacity - 1 |-> 0] /\ rxHead = 0 /\ rxTail = 0
  /\ txq = [i \in 0..TxCapacity - 1 |-> 0] /\ txHead = 0 /\ txTail = 0
  /\ txeie = FALSE
  /\ diag = 0
  /\ usart = [rxne |-> FALSE, ore |-> FALSE, bad |-> FALSE, dr |-> 0, txe |-> TRUE]
  /\ irq = NotRunning
  /\ pc = "idle" /\ loc = [index |-> 0, left |-> 0, byte |-> 0]
  /\ arrived = 0 /\ delivered = 0 /\ lastStored = 0 /\ gaps = 0
  /\ accepted = 0 /\ sent = 0

Next ==
  \/ \E bad \in BOOLEAN : ByteArrives(bad)
  \/ TransmitterEmpties
  \/ Handler
  \/ Read
  \/ Write

Spec == Init /\ [][Next]_vars

\* The NVIC serves a pending interrupt and the handler returns; the transmitter
\* shifts out what it is given; the foreground finishes a call it has begun.
DriverFairness ==
  /\ WF_vars(Handler)
  /\ WF_vars(TransmitterEmpties)
  /\ WF_vars(WriteCopy \/ WritePublish \/ WriteEnable)
  /\ WF_vars(ReadCopy \/ ReadAdvance)

(***************************************************************************)
(* Properties                                                              *)
(***************************************************************************)
\* Types of the driver's and the peripheral's state.
TypeOK ==
  /\ rxq \in [0..RxCapacity - 1 -> Nat]
  /\ rxHead \in 0..RxCapacity - 1 /\ rxTail \in 0..RxCapacity - 1
  /\ txq \in [0..TxCapacity - 1 -> Nat]
  /\ txHead \in 0..TxCapacity - 1 /\ txTail \in 0..TxCapacity - 1
  /\ txeie \in BOOLEAN
  /\ usart \in Usart /\ irq \in Irq /\ loc \in Locals
  /\ pc \in {"idle", "read_copy", "read_advance", "write_copy", "write_enable"}
  /\ diag \in Nat /\ arrived \in Nat /\ delivered \in Nat /\ lastStored \in Nat
  /\ gaps \in Nat /\ accepted \in Nat /\ sent \in Nat

\* The handler only ever drops received bytes it has counted: every place in
\* the queued stream where a byte is missing has a diagnostic counter increment
\* of its own, also when the loss happens while the handler runs.
LossesAreCounted == gaps <= diag

\* read_byte returns bytes in the order of their arrival and never one twice,
\* whatever the handler stores while it runs.
ReceivedInOrder == [][delivered' # delivered => delivered' > delivered]_vars

\* Every byte the handler queued reaches the foreground: when the ring is empty
\* the last byte returned is the last byte queued.
NothingLeftBehind == (rxTail = rxHead /\ pc = "idle") => delivered = lastStored

\* A non-empty transmit ring always has its interrupt enabled, except while
\* write is between publishing the frame and enabling it: the handler's
\* switching it off on an empty ring never strands a frame.
NoLostWakeup == (txTail # txHead /\ pc # "write_enable") => txeie

\* The handler and the foreground never get out of step: losses are counted,
\* and a published frame has its interrupt.
RingsSound == LossesAreCounted /\ NoLostWakeup

\* The transmitter behaves as a bounded first-in first-out channel that takes
\* frames whole, one slot smaller than the ring: no byte of an accepted frame is
\* overwritten, skipped, repeated or sent before the frame is complete.
Channel == INSTANCE ByteFifo WITH Size <- TxCapacity - 1

TransmitsAsFifo == Channel!Spec

\* Every accepted byte is sent in the end.
AcceptedBytesAreSent == \A n \in 1..MaxAccepted : accepted >= n ~> sent >= n

=============================================================================
