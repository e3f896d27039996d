------------------------- MODULE SerialLine_proofs --------------------------
(***************************************************************************)
(* The serial line of the device, layer by layer: the USART2 rings, for    *)
(* every capacity, frame length and interleaving of the foreground, the    *)
(* handler and the peripheral; the numbers of the telemetry frames; the    *)
(* frames as bytes, for every payload; and the parser and the answers, for *)
(* every request and whatever arrives on the line.                         *)
(***************************************************************************)
EXTENDS SerialLine, TLAPS

(***************************************************************************)
(* The inductive invariant                                                 *)
(***************************************************************************)
RxUsed == Used(rxHead, rxTail, RxCapacity)
TxUsed == Used(txHead, txTail, TxCapacity)

RxAt(i) == rxq[Slot(rxTail, i, RxCapacity)]
TxAt(i) == txq[Slot(txTail, i, TxCapacity)]

\* The receive ring holds bytes after the last delivered one, in order, up to
\* the last one stored.
RxOrdered ==
  /\ delivered <= lastStored
  /\ \A i \in Nat : i < RxUsed => delivered < RxAt(i) /\ RxAt(i) <= lastStored
  /\ \A i, j \in Nat : i < j /\ j < RxUsed => RxAt(i) < RxAt(j)
  /\ RxUsed > 0 => RxAt(RxUsed - 1) = lastStored
  /\ RxUsed = 0 => delivered = lastStored

\* A read in progress works on the oldest byte of the ring.
ReaderInStep ==
  /\ pc \in {"read_copy", "read_advance"} => loc.index = rxTail /\ rxHead # rxTail
  /\ pc = "read_advance" => loc.byte = rxq[rxTail]

\* The handler's snapshot is out of date only in what has been added to SR.
SnapshotInStep ==
  /\ ~irq.on => irq = NotRunning
  /\ irq.rxne => usart.rxne
  /\ irq.ore => usart.ore
  /\ irq.bad => irq.rxne
  /\ usart.bad => usart.rxne
  /\ lastStored <= arrived
  /\ usart.rxne => lastStored < usart.dr /\ usart.dr <= arrived
  /\ usart.rxne /\ ~usart.ore => usart.dr = arrived

\* A byte about to be queued follows the last one stored, or the loss between
\* them has been counted; a loss that is not counted yet shows in ORE.
LossVisible ==
  /\ gaps <= diag
  /\ usart.rxne /\ ((irq.rxne /\ ~irq.ore) \/ ~usart.ore)
       => usart.dr = lastStored + 1 \/ gaps < diag
  /\ ~usart.rxne /\ ~usart.ore => arrived = lastStored \/ gaps < diag

\* Bytes of the frame being written that are in the ring but not yet published.
Copied == IF pc = "write_copy" THEN loc.byte - (accepted + 1) ELSE 0

\* The transmit ring holds the bytes after the last one sent; the bytes of the
\* frame being written follow them in free slots.
TxFilled ==
  /\ accepted = sent + TxUsed
  /\ \A i \in Nat : i < TxUsed + Copied => TxAt(i) = sent + 1 + i
  /\ pc = "write_copy" =>
       /\ Copied >= 0
       /\ loc.index = Slot(txTail, TxUsed + Copied, TxCapacity)
       /\ TxUsed + Copied + loc.left <= TxCapacity - 1
       /\ Copied + loc.left \in 1..MaxFrame

IInv == TypeOK /\ RxOrdered /\ ReaderInStep /\ SnapshotInStep /\ LossVisible
        /\ TxFilled /\ NoLostWakeup

(***************************************************************************)
(* What a step that leaves a ring alone keeps                              *)
(***************************************************************************)
\* The receive ring is ordered as long as nobody touches it.
LEMMA RxFrame ==
  ASSUME RxOrdered, UNCHANGED <<rxq, rxHead, rxTail, delivered, lastStored>>
  PROVE  RxOrdered'
BY DEF RxOrdered, RxUsed, RxAt

\* The transmit ring is as it was when nobody touches it and no write moves.
LEMMA TxFrame ==
  ASSUME TxFilled, UNCHANGED <<txq, txHead, txTail, accepted, sent, pc, loc>>
  PROVE  TxFilled'
BY DEF TxFilled, TxUsed, TxAt, Copied

\* Nor does a step of the foreground outside the copying loop disturb it.
LEMMA TxFrameIdle ==
  ASSUME TxFilled, pc # "write_copy", pc' # "write_copy",
         UNCHANGED <<txq, txHead, txTail, accepted, sent>>
  PROVE  TxFilled'
BY DEF TxFilled, TxUsed, TxAt, Copied

(***************************************************************************)
(* The initial state                                                       *)
(***************************************************************************)
\* The rings start empty and in step with the peripheral.
LEMMA InitInv == Init => IInv
<1> SUFFICES ASSUME Init PROVE IInv
  OBVIOUS
<1> USE RingAssumption DEF Init
<1>1. TypeOK
  <2>1. usart \in Usart
    BY DEF Usart
  <2>2. irq \in Irq
    BY DEF Irq, NotRunning
  <2>3. loc \in Locals
    BY DEF Locals
  <2>4. 0 \in 0..RxCapacity - 1 /\ 0 \in 0..TxCapacity - 1
    OBVIOUS
  <2>5. rxq \in [0..RxCapacity - 1 -> Nat] /\ txq \in [0..TxCapacity - 1 -> Nat]
    OBVIOUS
  <2>6. QED BY <2>1, <2>2, <2>3, <2>4, <2>5 DEF TypeOK
<1>2. RxUsed = 0 /\ TxUsed = 0 /\ Copied = 0
  BY DEF RxUsed, TxUsed, Used, Copied
<1>3. RxOrdered
  BY <1>2 DEF RxOrdered
<1>4. TxFilled
  BY <1>2 DEF TxFilled
<1>5. ReaderInStep /\ SnapshotInStep /\ LossVisible /\ NoLostWakeup
  BY DEF ReaderInStep, SnapshotInStep, LossVisible, NoLostWakeup, NotRunning
<1>6. QED BY <1>1, <1>3, <1>4, <1>5 DEF IInv

(***************************************************************************)
(* The peripheral                                                          *)
(***************************************************************************)
\* A byte that arrives is the next one to queue, or shows as an overrun.
LEMMA ByteArrivesStep ==
  ASSUME IInv, NEW bad \in BOOLEAN, ByteArrives(bad)
  PROVE  IInv'
<1> USE DEF ByteArrives, txVars
<1>1. TypeOK'
  <2>1. arrived \in Nat /\ usart \in Usart
    BY DEF IInv, TypeOK
  <2>2. usart' \in Usart
    <3> HIDE DEF ByteArrives
    <3>1. [usart EXCEPT !.ore = TRUE] \in Usart
      BY <2>1 DEF Usart
    <3>2. [usart EXCEPT !.rxne = TRUE, !.bad = bad, !.dr = arrived + 1] \in Usart
      <4>1. arrived + 1 \in Nat
        BY <2>1
      <4>2. \A n \in Nat : [usart EXCEPT !.rxne = TRUE, !.bad = bad, !.dr = n] \in Usart
        BY <2>1, Zenon DEF Usart
      <4>3. QED BY <4>1, <4>2
    <3>3. QED BY <3>1, <3>2 DEF ByteArrives
  <2>4. QED BY <2>1, <2>2, SMTT(20) DEF IInv, TypeOK
<1>2. RxOrdered' /\ TxFilled'
  BY RxFrame, TxFrame DEF IInv
<1>3. ReaderInStep' /\ NoLostWakeup'
  BY DEF IInv, ReaderInStep, NoLostWakeup
<1>4. SnapshotInStep'
  BY SMTT(20) DEF IInv, TypeOK, Usart, SnapshotInStep
<1>5. LossVisible'
  BY DEF IInv, TypeOK, Usart, SnapshotInStep, LossVisible
<1>6. QED BY <1>1, <1>2, <1>3, <1>4, <1>5 DEF IInv

\* The transmitter's progress concerns no ring.
LEMMA TransmitterEmptiesStep ==
  ASSUME IInv, TransmitterEmpties
  PROVE  IInv'
<1> USE DEF TransmitterEmpties, rxVars, txVars
<1>1. TypeOK'
  BY DEF IInv, TypeOK, Usart
<1>2. RxOrdered' /\ TxFilled'
  BY RxFrame, TxFrame DEF IInv
<1>3. ReaderInStep' /\ NoLostWakeup'
  BY DEF IInv, ReaderInStep, NoLostWakeup
<1>4. SnapshotInStep' /\ LossVisible'
  BY DEF IInv, TypeOK, Usart, SnapshotInStep, LossVisible
<1>5. QED BY <1>1, <1>2, <1>3, <1>4 DEF IInv

(***************************************************************************)
(* The interrupt handler                                                   *)
(***************************************************************************)
\* The snapshot is exact when it is taken.
LEMMA IrqEnterStep ==
  ASSUME IInv, IrqEnter
  PROVE  IInv'
<1> USE DEF IrqEnter, rxVars, txVars
<1>1. TypeOK'
  BY DEF IInv, TypeOK, Usart, Irq
<1>2. RxOrdered' /\ TxFilled'
  BY RxFrame, TxFrame DEF IInv
<1>3. ReaderInStep' /\ NoLostWakeup'
  BY DEF IInv, ReaderInStep, NoLostWakeup
<1>4. SnapshotInStep' /\ LossVisible'
  BY DEF IInv, TypeOK, Usart, SnapshotInStep, LossVisible
<1>5. QED BY <1>1, <1>2, <1>3, <1>4 DEF IInv

\* Storing a byte behind the newest one keeps the ring in order.
LEMMA StoreKeepsOrder ==
  ASSUME TypeOK, RxOrdered, NEW b \in Nat, lastStored < b,
         rx_next(rxHead) # rxTail,
         rxq' = [rxq EXCEPT ![rxHead] = b], rxHead' = rx_next(rxHead),
         rxTail' = rxTail, delivered' = delivered, lastStored' = b
  PROVE  RxOrdered'
<1> USE RingAssumption
<1>a. RxUsed \in Nat
  BY DEF TypeOK, RxUsed, Used
<1>0. PICK n \in Nat : n = RxUsed
  BY <1>a
<1>1. RxUsed' = n + 1 /\ n + 1 < RxCapacity
  BY <1>0 DEF TypeOK, RxUsed, Used, rx_next
<1>2. \A i \in Nat : i < n => RxAt(i)' = RxAt(i) /\ RxAt(i) \in Nat
  BY <1>0 DEF TypeOK, RxUsed, RxAt, Used, Slot
<1>3. RxAt(n)' = b
  BY <1>0, <1>1 DEF TypeOK, RxUsed, RxAt, Used, Slot
<1>4. delivered \in Nat /\ lastStored \in Nat
  BY DEF TypeOK
<1>5. \A i \in Nat : i < RxUsed' => i < n \/ i = n
  BY <1>1
<1>6. \A i \in Nat : i < RxUsed' => delivered < RxAt(i)' /\ RxAt(i)' <= b
  <2> SUFFICES ASSUME NEW i \in Nat, i < RxUsed'
               PROVE  delivered < RxAt(i)' /\ RxAt(i)' <= b
    OBVIOUS
  <2>1. CASE i < n
    <3>1. delivered < RxAt(i) /\ RxAt(i) <= lastStored
      BY <2>1, <1>0 DEF RxOrdered
    <3>2. QED BY <2>1, <3>1, <1>2, <1>4
  <2>2. CASE i = n
    <3>1. delivered < b
      BY <1>4 DEF RxOrdered
    <3>2. QED BY <2>2, <3>1, <1>3
  <2>3. QED BY <2>1, <2>2, <1>5
<1>7. \A i, j \in Nat : i < j /\ j < RxUsed' => RxAt(i)' < RxAt(j)'
  <2> SUFFICES ASSUME NEW i \in Nat, NEW j \in Nat, i < j, j < RxUsed'
               PROVE  RxAt(i)' < RxAt(j)'
    OBVIOUS
  <2>1. i < n
    BY <1>5
  <2>2. CASE j < n
    BY <2>1, <2>2, <1>0, <1>2 DEF RxOrdered
  <2>3. CASE j = n
    <3>1. RxAt(i)' = RxAt(i) /\ RxAt(i) <= lastStored /\ RxAt(i) \in Nat
      BY <2>1, <1>0, <1>2 DEF RxOrdered
    <3>2. RxAt(j)' = b
      BY <2>3, <1>3
    <3>3. QED BY <3>1, <3>2, <1>4
  <2>4. QED BY <2>2, <2>3, <1>5
<1>8. RxUsed' - 1 = n
  BY <1>1
<1>9. RxAt(RxUsed - 1)' = b
  BY <1>8, <1>3 DEF RxAt
<1>10. delivered <= b
  BY <1>4 DEF RxOrdered
<1>11. QED BY <1>1, <1>6, <1>7, <1>9, <1>10 DEF RxOrdered

\* Taking the oldest byte off the transmit ring leaves the rest in order, also
\* the bytes of a frame that is being written.
LEMMA SendKeepsOrder ==
  ASSUME TypeOK, TxFilled, txTail # txHead,
         sent' = txq[txTail], txTail' = tx_next(txTail),
         UNCHANGED <<txq, txHead, accepted, pc, loc>>
  PROVE  TxFilled' /\ sent' = sent + 1
<1> USE RingAssumption
<1>1. TxUsed \in Nat \ {0} /\ TxUsed' = TxUsed - 1 /\ TxUsed < TxCapacity
  BY DEF TypeOK, TxUsed, Used, tx_next
<1>2. Copied' = Copied /\ Copied \in Nat
  BY DEF TxFilled, Copied, TypeOK, Locals
<1>3. TxUsed + Copied < TxCapacity
  <2>1. CASE pc = "write_copy"
    <3>1. loc.left \in Nat
      BY DEF TypeOK, Locals
    <3>2. QED BY <2>1, <3>1, <1>1, <1>2 DEF TxFilled
  <2>2. CASE pc # "write_copy"
    BY <2>2, <1>1 DEF Copied
  <2>3. QED BY <2>1, <2>2
<1>4. sent' = sent + 1
  <2>1. TxAt(0) = txq[txTail]
    BY DEF TxAt, Slot, TypeOK
  <2>2. TxAt(0) = sent + 1 + 0
    BY <1>1, <1>2 DEF TxFilled
  <2>3. sent \in Nat
    BY DEF TypeOK
  <2>4. QED BY <2>1, <2>2, <2>3
<1>5. \A i \in Nat : i < TxUsed' + Copied' => TxAt(i)' = sent' + 1 + i
  <2> SUFFICES ASSUME NEW i \in Nat, i < TxUsed' + Copied'
               PROVE  TxAt(i)' = sent' + 1 + i
    OBVIOUS
  <2>1. i + 1 \in Nat /\ i + 1 < TxUsed + Copied /\ i + 1 < TxCapacity
    BY <1>1, <1>2, <1>3
  <2>2. Slot(txTail', i, TxCapacity) = Slot(txTail, i + 1, TxCapacity)
    BY <2>1 DEF Slot, tx_next, TypeOK
  <2>3. TxAt(i)' = TxAt(i + 1)
    BY <2>2 DEF TxAt
  <2>4. TxAt(i + 1) = sent + 1 + (i + 1)
    BY <2>1 DEF TxFilled
  <2>5. sent \in Nat
    BY DEF TypeOK
  <2>6. QED BY <2>3, <2>4, <2>5, <1>4
<1>6. Slot(txTail', TxUsed' + Copied', TxCapacity) = Slot(txTail, TxUsed + Copied, TxCapacity)
  BY <1>1, <1>2, <1>3 DEF Slot, tx_next, TypeOK
<1>7. accepted' = sent' + TxUsed'
  BY <1>1, <1>4 DEF TxFilled, TypeOK
<1>8. pc = "write_copy" => TxUsed' + Copied' + loc.left <= TxCapacity - 1
  <2>1. loc.left \in Nat
    BY DEF TypeOK, Locals
  <2>2. QED BY <2>1, <1>1, <1>2 DEF TxFilled
<1>9. QED BY <1>2, <1>4, <1>5, <1>6, <1>7, <1>8 DEF TxFilled

\* The handler queues, drops and counts received bytes and moves one byte to
\* the transmitter without disturbing what the foreground is in the middle of.
LEMMA IrqServiceStep ==
  ASSUME IInv, IrqService
  PROVE  IInv'
<1> DEFINE taken == irq.rxne \/ irq.bad \/ irq.ore
           queue == irq.rxne /\ ~irq.bad /\ ~irq.ore
           fits  == rx_next(rxHead) # rxTail
           wrote == txeie /\ usart.txe /\ txTail # txHead
           RxKept == /\ RxOrdered' /\ ReaderInStep' /\ SnapshotInStep' /\ LossVisible'
                     /\ rxq' \in [0..RxCapacity - 1 -> Nat] /\ rxHead' \in 0..RxCapacity - 1
                     /\ diag' \in Nat /\ gaps' \in Nat /\ lastStored' \in Nat
<1> USE RingAssumption
<1>1. /\ irq' = NotRunning
      /\ UNCHANGED <<rxTail, arrived, delivered, txq, txHead, accepted, pc, loc>>
      /\ usart' = [usart EXCEPT !.rxne = @ /\ ~taken, !.bad = @ /\ ~taken,
                                !.ore = @ /\ ~irq.ore, !.txe = @ /\ ~wrote]
  BY DEF IrqService
<1>2. IrqReceive /\ IrqTransmit
  BY DEF IrqService
<1>3. TypeOK /\ RxOrdered /\ ReaderInStep /\ SnapshotInStep /\ LossVisible /\ TxFilled
      /\ NoLostWakeup
  BY DEF IInv
<1>4. /\ usart' \in Usart
      /\ usart'.dr = usart.dr
      /\ usart'.rxne = (usart.rxne /\ ~taken)
      /\ usart'.bad = (usart.bad /\ ~taken)
      /\ usart'.ore = (usart.ore /\ ~irq.ore)
  BY <1>1, <1>3 DEF TypeOK, Usart
<1>5. irq \in Irq /\ irq.rxne \in BOOLEAN /\ irq.ore \in BOOLEAN /\ irq.bad \in BOOLEAN
      /\ usart.dr \in Nat /\ diag \in Nat /\ gaps \in Nat /\ lastStored \in Nat
      /\ arrived \in Nat
  BY <1>3 DEF TypeOK, Irq, Usart
<1>6. ASSUME queue /\ fits PROVE RxKept
  <2>1. /\ diag' = diag /\ rxq' = [rxq EXCEPT ![rxHead] = usart.dr]
        /\ rxHead' = rx_next(rxHead) /\ lastStored' = usart.dr
        /\ gaps' = gaps + (IF usart.dr = lastStored + 1 THEN 0 ELSE 1)
    BY <1>2, <1>5, <1>6 DEF IrqReceive
  <2>2. usart.rxne /\ lastStored < usart.dr /\ usart.dr <= arrived
    BY <1>3, <1>6 DEF SnapshotInStep
  <2>3. RxOrdered'
    BY <1>1, <1>3, <1>5, <1>6, <2>1, <2>2, StoreKeepsOrder
  <2>4. ReaderInStep'
    BY <1>1, <1>3, <1>6, <2>1 DEF ReaderInStep, TypeOK
  <2>5. usart.dr = lastStored + 1 \/ gaps < diag
    BY <1>3, <1>6, <2>2 DEF LossVisible
  <2>6. gaps' <= diag' /\ gaps' \in Nat
    BY <1>3, <1>5, <2>1, <2>5 DEF LossVisible
  <2>7. ~usart'.rxne /\ usart'.ore = usart.ore
    BY <1>4, <1>6, <1>3 DEF TypeOK, Usart
  <2>8. SnapshotInStep'
    BY <1>1, <1>3, <1>4, <1>5, <2>1, <2>2, <2>7 DEF SnapshotInStep, NotRunning
  <2>9. LossVisible'
    BY <1>1, <1>3, <2>1, <2>2, <2>6, <2>7 DEF LossVisible, SnapshotInStep, NotRunning
  <2>10. rxq' \in [0..RxCapacity - 1 -> Nat] /\ rxHead' \in 0..RxCapacity - 1
         /\ diag' \in Nat /\ gaps' \in Nat /\ lastStored' \in Nat
    BY <1>3, <1>5, <2>1, <2>6 DEF TypeOK, rx_next
  <2>11. QED BY <2>3, <2>4, <2>8, <2>9, <2>10
<1>7. ASSUME taken /\ ~(queue /\ fits) PROVE RxKept
  <2>1. UNCHANGED <<rxq, rxHead, lastStored, gaps>>
    BY <1>2, <1>7 DEF IrqReceive
  <2>2. diag' \in Nat /\ diag < diag'
    BY <1>2, <1>5, <1>7 DEF IrqReceive
  <2>3. RxOrdered' /\ ReaderInStep'
    BY <1>1, <1>3, <2>1, RxFrame DEF ReaderInStep
  <2>4. ~usart'.rxne /\ ~usart'.bad
    BY <1>4, <1>7
  <2>5. SnapshotInStep'
    BY <1>1, <1>3, <1>4, <2>1, <2>4 DEF SnapshotInStep, NotRunning
  <2>6. gaps' < diag'
    BY <1>3, <1>5, <2>1, <2>2 DEF LossVisible
  <2>7. LossVisible'
    BY <2>4, <2>6, <2>1, <2>2, <1>5 DEF LossVisible
  <2>8. QED BY <1>3, <2>1, <2>2, <2>3, <2>5, <2>7 DEF TypeOK
<1>8. ASSUME ~taken PROVE RxKept
  <2>1. UNCHANGED <<rxq, rxHead, diag, lastStored, gaps>>
    BY <1>2, <1>8 DEF IrqReceive
  <2>2. RxOrdered' /\ ReaderInStep'
    BY <1>1, <1>3, <2>1, RxFrame DEF ReaderInStep
  <2>3. usart'.rxne = usart.rxne /\ usart'.bad = usart.bad /\ usart'.ore = usart.ore
    BY <1>3, <1>4, <1>8 DEF TypeOK, Usart
  <2>4. SnapshotInStep' /\ LossVisible'
    BY <1>1, <1>3, <1>4, <2>1, <2>3 DEF SnapshotInStep, LossVisible, NotRunning
  <2>5. QED BY <1>3, <2>1, <2>2, <2>4 DEF TypeOK
<1>9. RxKept
  BY <1>6, <1>7, <1>8
<1>10. TxFilled' /\ NoLostWakeup' /\ txTail' \in 0..TxCapacity - 1
       /\ txeie' \in BOOLEAN /\ sent' \in Nat
  <2>1. CASE wrote
    <3>1. sent' = txq[txTail] /\ txTail' = tx_next(txTail) /\ txeie' = txeie
      BY <1>2, <2>1 DEF IrqTransmit
    <3>2. TxFilled'
      BY <1>1, <1>3, <2>1, <3>1, SendKeepsOrder
    <3>3. QED BY <1>3, <2>1, <3>1, <3>2 DEF TypeOK, tx_next, NoLostWakeup
  <2>2. CASE ~wrote
    <3>1. sent' = sent /\ txTail' = txTail /\ (txeie' = txeie \/ (txeie' = FALSE /\ txTail = txHead))
      BY <1>2, <2>2 DEF IrqTransmit
    <3>2. TxFilled'
      BY <1>1, <1>3, <3>1, TxFrame
    <3>3. QED BY <1>1, <1>3, <3>1, <3>2 DEF TypeOK, NoLostWakeup
  <2>3. QED BY <2>1, <2>2
<1>11. TypeOK'
  <2>1. irq' \in Irq
    BY <1>1 DEF Irq, NotRunning
  <2>2. QED BY <1>1, <1>3, <1>4, <1>9, <1>10, <2>1 DEF TypeOK
<1>12. QED BY <1>9, <1>10, <1>11 DEF IInv

(***************************************************************************)
(* The foreground: read_byte                                               *)
(***************************************************************************)
\* A read begins at the oldest byte.
LEMMA ReadBeginStep ==
  ASSUME IInv, ReadBegin
  PROVE  IInv'
<1> USE DEF ReadBegin, rxVars, txVars
<1>1. TypeOK'
  <2>1. rxTail \in Nat /\ loc \in Locals
    BY RingAssumption DEF IInv, TypeOK
  <2>2. loc' \in Locals
    BY <2>1 DEF Locals
  <2>3. QED BY <2>2 DEF IInv, TypeOK
<1>2. RxOrdered' /\ TxFilled'
  BY RxFrame, TxFrameIdle DEF IInv
<1>3. ReaderInStep' /\ NoLostWakeup'
  BY DEF IInv, ReaderInStep, NoLostWakeup, TypeOK, Locals
<1>4. SnapshotInStep' /\ LossVisible'
  BY DEF IInv, SnapshotInStep, LossVisible
<1>5. QED BY <1>1, <1>2, <1>3, <1>4 DEF IInv

\* The byte is copied while its slot is still owned by the reader.
LEMMA ReadCopyStep ==
  ASSUME IInv, ReadCopy
  PROVE  IInv'
<1> USE DEF ReadCopy, rxVars, txVars
<1>1. rxq[loc.index] \in Nat
  BY DEF IInv, TypeOK, ReaderInStep
<1>2. TypeOK'
  BY <1>1 DEF IInv, TypeOK, Locals
<1>3. RxOrdered' /\ TxFilled'
  BY RxFrame, TxFrameIdle DEF IInv
<1>4. ReaderInStep' /\ NoLostWakeup'
  BY DEF IInv, ReaderInStep, NoLostWakeup, TypeOK, Locals
<1>5. SnapshotInStep' /\ LossVisible'
  BY DEF IInv, SnapshotInStep, LossVisible
<1>6. QED BY <1>2, <1>3, <1>4, <1>5 DEF IInv

\* Releasing the oldest slot delivers a byte newer than all delivered before
\* and leaves the newer ones behind it.
LEMMA ReadAdvanceStep ==
  ASSUME IInv, ReadAdvance
  PROVE  IInv' /\ delivered < delivered'
<1> USE RingAssumption
<1>1. /\ pc = "read_advance" /\ rxTail' = rx_next(rxTail) /\ delivered' = rxq[rxTail]
      /\ pc' = "idle" /\ rxHead # rxTail
      /\ UNCHANGED <<rxq, rxHead, diag, arrived, lastStored, gaps, txVars, usart, irq, loc>>
  BY DEF ReadAdvance, IInv, ReaderInStep
<1>2. RxUsed \in Nat \ {0} /\ RxUsed' = RxUsed - 1 /\ RxUsed < RxCapacity
  BY <1>1 DEF IInv, TypeOK, RxUsed, Used, rx_next
<1>3. RxAt(0) = delivered'
  BY <1>1 DEF RxAt, Slot, IInv, TypeOK
<1>4. \A i \in Nat : i < RxUsed' => i + 1 < RxUsed /\ i + 1 \in Nat
  BY <1>2
<1>5. \A i \in Nat : i < RxUsed' => RxAt(i)' = RxAt(i + 1)
  <2> SUFFICES ASSUME NEW i \in Nat, i < RxUsed'
               PROVE  RxAt(i)' = RxAt(i + 1)
    OBVIOUS
  <2>1. Slot(rxTail', i, RxCapacity) = Slot(rxTail, i + 1, RxCapacity)
    BY <1>1, <1>2 DEF Slot, rx_next, IInv, TypeOK
  <2>2. QED BY <2>1, <1>1 DEF RxAt
<1>6. delivered < delivered' /\ delivered' <= lastStored /\ delivered' \in Nat
  BY <1>1, <1>2, <1>3 DEF IInv, RxOrdered, TypeOK
<1>7. RxOrdered'
  <2>1. \A i \in Nat : i < RxUsed' => delivered' < RxAt(i)' /\ RxAt(i)' <= lastStored
    <3> SUFFICES ASSUME NEW i \in Nat, i < RxUsed'
                 PROVE  delivered' < RxAt(i)' /\ RxAt(i)' <= lastStored
      OBVIOUS
    <3>1. RxAt(0) < RxAt(i + 1) /\ RxAt(i + 1) <= lastStored
      BY <1>4 DEF IInv, RxOrdered
    <3>2. QED BY <3>1, <1>3, <1>5
  <2>2. \A i, j \in Nat : i < j /\ j < RxUsed' => RxAt(i)' < RxAt(j)'
    <3> SUFFICES ASSUME NEW i \in Nat, NEW j \in Nat, i < j, j < RxUsed'
                 PROVE  RxAt(i)' < RxAt(j)'
      OBVIOUS
    <3>1. i + 1 < j + 1 /\ j + 1 < RxUsed /\ i < RxUsed'
      BY <1>2
    <3>2. RxAt(i + 1) < RxAt(j + 1)
      BY <3>1 DEF IInv, RxOrdered
    <3>3. QED BY <3>1, <3>2, <1>5
  <2>3. RxUsed' > 0 => RxAt(RxUsed - 1)' = lastStored
    <3> SUFFICES ASSUME RxUsed' > 0 PROVE RxAt(RxUsed - 1)' = lastStored
      OBVIOUS
    <3>1. PICK n \in Nat : n = RxUsed' - 1
      BY <1>2
    <3>2. RxAt(n)' = RxAt(n + 1) /\ n + 1 = RxUsed - 1
      BY <3>1, <1>2, <1>5
    <3>3. RxAt(n + 1) = lastStored
      BY <3>2, <1>2 DEF IInv, RxOrdered
    <3>4. RxAt(RxUsed - 1)' = RxAt(n)'
      BY <3>1 DEF RxAt
    <3>5. QED BY <3>2, <3>3, <3>4
  <2>4. RxUsed' = 0 => delivered' = lastStored
    BY <1>2, <1>3 DEF IInv, RxOrdered
  <2>5. QED BY <2>1, <2>2, <2>3, <2>4, <1>1, <1>6 DEF RxOrdered
<1>8. TypeOK'
  BY <1>1, <1>6 DEF IInv, TypeOK, rx_next, txVars
<1>9. TxFilled'
  BY <1>1, TxFrameIdle DEF IInv, txVars
<1>10. ReaderInStep' /\ NoLostWakeup'
  BY <1>1 DEF IInv, ReaderInStep, NoLostWakeup, txVars
<1>11. SnapshotInStep' /\ LossVisible'
  BY <1>1 DEF IInv, SnapshotInStep, LossVisible
<1>12. QED BY <1>6, <1>7, <1>8, <1>9, <1>10, <1>11 DEF IInv

(***************************************************************************)
(* The foreground: write                                                   *)
(***************************************************************************)
\* The room seen by write is still there when it copies: the handler only
\* makes more.
LEMMA WriteBeginStep ==
  ASSUME IInv, NEW length \in 1..MaxFrame, WriteBegin(length)
  PROVE  IInv'
<1> USE RingAssumption DEF WriteBegin, rxVars, txVars
<1>1. TypeOK'
  <2>1. loc' \in Locals
    BY DEF IInv, TypeOK, Locals
  <2>2. QED BY <2>1 DEF IInv, TypeOK
<1>2. RxOrdered'
  BY RxFrame DEF IInv
<1>3. ReaderInStep' /\ NoLostWakeup'
  BY DEF IInv, ReaderInStep, NoLostWakeup
<1>4. SnapshotInStep' /\ LossVisible'
  BY DEF IInv, SnapshotInStep, LossVisible
<1>5. TxFilled'
  <2>1. Copied = 0 /\ Copied' = 0 /\ TxUsed' = TxUsed /\ TxUsed \in Nat
    BY DEF Copied, TxUsed, Used, IInv, TypeOK
  <2>2. \A i : TxAt(i)' = TxAt(i)
    BY DEF TxAt
  <2>3. TxUsed + length <= TxCapacity - 1
    BY DEF TxUsed, Used, free_slots, IInv, TypeOK
  <2>4. Slot(txTail, TxUsed, TxCapacity) = txHead
    BY DEF TxUsed, Used, Slot, IInv, TypeOK
  <2>5. loc'.index = txHead /\ loc'.left = length
    OBVIOUS
  <2>6. TxFilled
    BY DEF IInv
  <2> HIDE DEF WriteBegin
  <2>7. UNCHANGED <<accepted, sent, txTail>>
    BY DEF WriteBegin, txVars
  <2>8. QED BY <2>1, <2>2, <2>3, <2>4, <2>5, <2>6, <2>7 DEF TxFilled
<1>6. QED BY <1>1, <1>2, <1>3, <1>4, <1>5 DEF IInv

\* A byte is copied to the first slot behind everything that is queued.
LEMMA WriteCopyStep ==
  ASSUME IInv, WriteCopy
  PROVE  IInv'
<1> USE RingAssumption
<1>1. /\ pc = "write_copy" /\ loc.left > 0
      /\ txq' = [txq EXCEPT ![loc.index] = loc.byte]
      /\ loc' = [index |-> tx_next(loc.index), left |-> loc.left - 1, byte |-> loc.byte + 1]
      /\ UNCHANGED <<rxVars, txHead, txTail, txeie, accepted, sent, usart, irq, pc>>
  BY DEF WriteCopy
<1>2. TypeOK /\ TxFilled
  BY DEF IInv
<1>3. loc.left \in Nat /\ loc.byte \in Nat /\ loc.index \in Nat /\ accepted \in Nat /\ sent \in Nat
  BY <1>2 DEF TypeOK, Locals
<1>a. TxUsed \in Nat /\ Copied \in Nat
  <2>1. TxUsed \in Nat
    BY <1>2 DEF TypeOK, TxUsed, Used
  <2>2. Copied >= 0
    BY <1>1, <1>2 DEF TxFilled
  <2>3. Copied \in Int
    BY <1>3 DEF Copied
  <2>4. QED BY <2>1, <2>2, <2>3
<1>4. PICK n \in Nat : n = TxUsed + Copied
  BY <1>a
<1>5. /\ TxUsed' = TxUsed /\ Copied' = Copied + 1
      /\ loc.index = Slot(txTail, n, TxCapacity) /\ n + loc.left <= TxCapacity - 1
      /\ loc.byte = sent + 1 + n
      /\ Copied + loc.left \in 1..MaxFrame
  BY <1>1, <1>2, <1>3, <1>4, <1>a DEF TxUsed, Copied, TxFilled
<1>b. txTail \in 0..TxCapacity - 1 /\ n < TxCapacity - 1
  <2>1. txTail \in 0..TxCapacity - 1
    BY <1>2 DEF TypeOK
  <2>2. loc.left > 0 /\ n + loc.left <= TxCapacity - 1
    BY <1>1, <1>5
  <2>3. QED BY <2>1, <2>2, <1>3
<1>6. loc.index \in 0..TxCapacity - 1
  BY <1>b, <1>5 DEF Slot
<1>7. TypeOK'
  <2>1. loc' \in Locals
    BY <1>1, <1>3 DEF Locals, tx_next
  <2>2. txq' \in [0..TxCapacity - 1 -> Nat]
    BY <1>1, <1>2, <1>3, <1>6 DEF TypeOK
  <2>3. QED BY <1>1, <1>2, <2>1, <2>2 DEF TypeOK, rxVars
<1>8. TxFilled'
  <2>1. \A i \in Nat : i < n + 1 => TxAt(i)' = sent + 1 + i
    <3> SUFFICES ASSUME NEW i \in Nat, i < n + 1
                 PROVE  TxAt(i)' = sent + 1 + i
      OBVIOUS
    <3>1. Slot(txTail, i, TxCapacity) \in 0..TxCapacity - 1
      BY <1>b DEF Slot
    <3>2. CASE i = n
      BY <3>2, <1>1, <1>2, <1>5, <1>6 DEF TxAt, TypeOK
    <3>3. CASE i < n
      <4>1. Slot(txTail, i, TxCapacity) # loc.index
        BY <3>3, <1>b, <1>5 DEF Slot
      <4>2. TxAt(i)' = TxAt(i)
        BY <4>1, <3>1, <1>1, <1>2 DEF TxAt, TypeOK
      <4>3. TxAt(i) = sent + 1 + i
        BY <3>3, <1>2, <1>4 DEF TxFilled
      <4>4. QED BY <4>2, <4>3
    <3>4. QED BY <3>2, <3>3
  <2>2. TxUsed' + Copied' = n + 1
    BY <1>4, <1>5, <1>a
  <2>3. loc'.left = loc.left - 1 /\ loc'.index = tx_next(loc.index)
    BY <1>1
  <2>4. tx_next(loc.index) = Slot(txTail, n + 1, TxCapacity)
    BY <1>b, <1>5 DEF tx_next, Slot
  <2>5. n + 1 + loc'.left <= TxCapacity - 1 /\ Copied' + loc'.left = Copied + loc.left
    BY <1>3, <1>5, <1>a, <2>3
  <2>6. Copied' >= 0 /\ accepted' = sent' + TxUsed'
    BY <1>1, <1>2, <1>5, <1>a DEF TxFilled
  <2>7. UNCHANGED <<sent, txTail, pc>>
    BY <1>1
  <2>8. QED BY <1>5, <2>1, <2>2, <2>3, <2>4, <2>5, <2>6, <2>7 DEF TxFilled
<1>9. RxOrdered' /\ ReaderInStep' /\ NoLostWakeup'
  BY <1>1, RxFrame DEF IInv, ReaderInStep, NoLostWakeup, rxVars
<1>10. SnapshotInStep' /\ LossVisible'
  BY <1>1 DEF IInv, SnapshotInStep, LossVisible, rxVars
<1>11. QED BY <1>7, <1>8, <1>9, <1>10 DEF IInv

\* The frame becomes visible to the handler as a whole.
LEMMA WritePublishStep ==
  ASSUME IInv, WritePublish
  PROVE  IInv' /\ \E n \in 1..MaxFrame : Channel!Accept(n)
<1> USE RingAssumption
<1>1. /\ pc = "write_copy" /\ loc.left = 0
      /\ txHead' = loc.index /\ accepted' = loc.byte - 1 /\ pc' = "write_enable"
      /\ UNCHANGED <<rxVars, txq, txTail, txeie, sent, usart, irq, loc>>
  BY DEF WritePublish
<1>2. TypeOK /\ TxFilled
  BY DEF IInv
<1>3. loc.byte \in Nat /\ accepted \in Nat /\ sent \in Nat
  BY <1>2 DEF TypeOK, Locals
<1>4. TxUsed \in Nat /\ Copied \in 1..MaxFrame /\ TxUsed + Copied <= TxCapacity - 1
      /\ loc.index = Slot(txTail, TxUsed + Copied, TxCapacity)
      /\ accepted' = accepted + Copied
  <2>1. TxUsed \in Nat
    BY <1>2 DEF TypeOK, TxUsed, Used
  <2>2. Copied = loc.byte - (accepted + 1)
    BY <1>1 DEF Copied
  <2>3. Copied + 0 \in 1..MaxFrame /\ TxUsed + Copied + 0 <= TxCapacity - 1
        /\ loc.index = Slot(txTail, TxUsed + Copied, TxCapacity)
    BY <1>1, <1>2 DEF TxFilled
  <2>4. QED BY <1>1, <1>3, <2>1, <2>2, <2>3
<1>5. loc.index \in 0..TxCapacity - 1 /\ TxUsed' = TxUsed + Copied /\ Copied' = 0
  <2>1. loc.index \in 0..TxCapacity - 1
    BY <1>2, <1>4 DEF Slot, TypeOK
  <2>2. Used(loc.index, txTail, TxCapacity) = TxUsed + Copied
    BY <1>2, <1>4 DEF Slot, Used, TypeOK
  <2>3. QED BY <1>1, <2>1, <2>2 DEF TxUsed, Copied
<1>6. TypeOK'
  <2>1. accepted' \in Nat
    BY <1>3, <1>4
  <2>2. QED BY <1>1, <1>2, <1>5, <2>1 DEF TypeOK, rxVars
<1>7. TxFilled'
  <2>1. \A i : TxAt(i)' = TxAt(i)
    BY <1>1 DEF TxAt
  <2>2. TxUsed' + Copied' = TxUsed + Copied /\ accepted' = sent' + TxUsed'
    BY <1>1, <1>2, <1>3, <1>4, <1>5 DEF TxFilled
  <2>3. QED BY <1>1, <1>2, <2>1, <2>2 DEF TxFilled
<1>8. RxOrdered' /\ ReaderInStep' /\ NoLostWakeup'
  BY <1>1, RxFrame DEF IInv, ReaderInStep, NoLostWakeup, rxVars
<1>9. SnapshotInStep' /\ LossVisible'
  BY <1>1 DEF IInv, SnapshotInStep, LossVisible, rxVars
<1>10. accepted - sent + Copied <= TxCapacity - 1
  BY <1>2, <1>3, <1>4 DEF TxFilled
<1>11. Channel!Accept(Copied)
  BY <1>1, <1>4, <1>10 DEF Channel!Accept
<1>12. QED BY <1>4, <1>6, <1>7, <1>8, <1>9, <1>11 DEF IInv

\* Enabling the interrupt closes the window.
LEMMA WriteEnableStep ==
  ASSUME IInv, WriteEnable
  PROVE  IInv'
<1> USE DEF WriteEnable, rxVars, txVars
<1>1. TypeOK'
  BY DEF IInv, TypeOK
<1>2. RxOrdered' /\ TxFilled'
  BY RxFrame, TxFrameIdle DEF IInv
<1>3. ReaderInStep' /\ NoLostWakeup'
  BY DEF IInv, ReaderInStep, NoLostWakeup
<1>4. SnapshotInStep' /\ LossVisible'
  BY DEF IInv, SnapshotInStep, LossVisible
<1>5. QED BY <1>1, <1>2, <1>3, <1>4 DEF IInv

(***************************************************************************)
(* The theorems                                                            *)
(***************************************************************************)
\* Every step of the foreground, the handler or the peripheral keeps the rings
\* consistent.
LEMMA NextInv == IInv /\ [Next]_vars => IInv'
<1> SUFFICES ASSUME IInv, [Next]_vars PROVE IInv'
  OBVIOUS
<1>1. CASE UNCHANGED vars
  <2>1. UNCHANGED <<rxq, rxHead, rxTail, txq, txHead, txTail, txeie, diag, usart, irq, pc, loc,
                    arrived, delivered, lastStored, gaps, accepted, sent>>
    BY <1>1 DEF vars, rxVars, txVars
  <2>2. RxOrdered' /\ TxFilled'
    BY <2>1, RxFrame, TxFrame DEF IInv
  <2>3. TypeOK' /\ ReaderInStep' /\ SnapshotInStep' /\ LossVisible' /\ NoLostWakeup'
    BY <2>1 DEF IInv, TypeOK, ReaderInStep, SnapshotInStep, LossVisible, NoLostWakeup
  <2>4. QED BY <2>2, <2>3 DEF IInv
<1>2. CASE \E bad \in BOOLEAN : ByteArrives(bad)
  BY <1>2, ByteArrivesStep
<1>3. CASE TransmitterEmpties
  BY <1>3, TransmitterEmptiesStep
<1>4. CASE Handler
  BY <1>4, IrqEnterStep, IrqServiceStep DEF Handler
<1>5. CASE Read
  BY <1>5, ReadBeginStep, ReadCopyStep, ReadAdvanceStep DEF Read
<1>6. CASE Write
  BY <1>6, WriteBeginStep, WriteCopyStep, WritePublishStep, WriteEnableStep DEF Write
<1>7. QED BY <1>1, <1>2, <1>3, <1>4, <1>5, <1>6 DEF Next

\* The inductive invariant of the driver.
THEOREM UartInvariant == Spec => []IInv
BY InitInv, NextInv, PTL DEF Spec

\* The ring indices stay inside the rings.
THEOREM UartTypeCorrect == Spec => []TypeOK
<1>1. IInv => TypeOK
  BY DEF IInv
<1>2. QED BY <1>1, UartInvariant, PTL

\* No received byte is lost without a diagnostic increment, for every ring
\* size and whatever arrives while the handler runs.
THEOREM NoSilentLoss == Spec => []LossesAreCounted
<1>1. IInv => LossesAreCounted
  BY DEF IInv, LossVisible, LossesAreCounted
<1>2. QED BY <1>1, UartInvariant, PTL

\* Emptying the receive ring delivers everything that was queued.
THEOREM NothingIsLeftBehind == Spec => []NothingLeftBehind
<1>1. IInv => NothingLeftBehind
  <2> SUFFICES ASSUME IInv, rxTail = rxHead PROVE delivered = lastStored
    BY DEF NothingLeftBehind
  <2>1. RxUsed = 0
    BY RingAssumption DEF IInv, TypeOK, RxUsed, Used
  <2>2. QED BY <2>1 DEF IInv, RxOrdered
<1>2. QED BY <1>1, UartInvariant, PTL

\* A queued frame always has its transmit interrupt.
THEOREM WakeupIsNeverLost == Spec => []NoLostWakeup
<1>1. IInv => NoLostWakeup
  BY DEF IInv
<1>2. QED BY <1>1, UartInvariant, PTL

\* read_byte returns bytes in the order of their arrival, none twice.
THEOREM ReceivesInOrder == Spec => ReceivedInOrder
<1>1. IInv /\ [Next]_vars => [delivered' # delivered => delivered' > delivered]_vars
  <2> SUFFICES ASSUME IInv, Next, delivered' # delivered
               PROVE  delivered' > delivered
    OBVIOUS
  <2>1. ReadAdvance
    BY DEF Next, ByteArrives, TransmitterEmpties, Handler, IrqEnter, IrqService, Read, ReadBegin,
           ReadCopy, Write, WriteBegin, WriteCopy, WritePublish, WriteEnable, rxVars
  <2>2. IInv' /\ delivered < delivered'
    BY <2>1, ReadAdvanceStep
  <2>3. delivered \in Nat /\ delivered' \in Nat
    BY <2>2 DEF IInv, TypeOK
  <2>4. QED BY <2>2, <2>3
<1>2. QED BY <1>1, UartInvariant, PTL DEF Spec, ReceivedInOrder

\* The transmit half of the driver implements the bounded first-in first-out
\* channel: publishing a frame accepts it whole, writing DR sends the next byte,
\* and every other step leaves the channel alone.
THEOREM TransmitterRefines == Spec => TransmitsAsFifo
<1>1. Init => Channel!Init
  BY DEF Init, Channel!Init
<1>2. IInv /\ [Next]_vars => [Channel!Next]_(Channel!vars)
  <2> SUFFICES ASSUME IInv, [Next]_vars
               PROVE  Channel!Next \/ UNCHANGED <<accepted, sent>>
    BY DEF Channel!vars
  <2>1. CASE IrqService
    <3>1. UNCHANGED accepted /\ IrqTransmit
      BY <2>1 DEF IrqService
    <3>2. CASE txeie /\ usart.txe /\ txTail # txHead
      <4>1. sent' = txq[txTail] /\ txTail' = tx_next(txTail)
            /\ UNCHANGED <<txq, txHead, accepted, pc, loc>>
        BY <2>1, <3>1, <3>2 DEF IrqTransmit, IrqService
      <4>2. sent' = sent + 1
        BY <4>1, <3>2, SendKeepsOrder DEF IInv
      <4>3. TxUsed \in Nat \ {0} /\ accepted = sent + TxUsed /\ sent \in Nat
        BY <3>2, RingAssumption DEF IInv, TypeOK, TxUsed, Used, TxFilled
      <4>4. sent < accepted
        BY <4>3
      <4>5. QED BY <4>2, <4>4, <3>1 DEF Channel!Next, Channel!Send
    <3>3. CASE ~(txeie /\ usart.txe /\ txTail # txHead)
      BY <3>1, <3>3 DEF IrqTransmit
    <3>4. QED BY <3>2, <3>3
  <2>2. CASE WritePublish
    BY <2>2, WritePublishStep DEF Channel!Next
  <2>3. CASE ~IrqService /\ ~WritePublish
    BY <2>3 DEF Next, ByteArrives, TransmitterEmpties, Handler, IrqEnter, Read, ReadBegin,
                ReadCopy, ReadAdvance, Write, WriteBegin, WriteCopy, WriteEnable, rxVars, txVars, vars
  <2>4. QED BY <2>1, <2>2, <2>3
<1>3. QED BY <1>1, <1>2, UartInvariant, PTL DEF Spec, TransmitsAsFifo, Channel!Spec

\* Handler and foreground stay in step, for every ring size
\* (guardian_stm32f401_uart2_irq_handler, write).
THEOREM RingsAreSound == Spec => []RingsSound
BY NoSilentLoss, WakeupIsNeverLost, PTL DEF RingsSound

(***************************************************************************)
(* The layers in the composition: each takes its own steps.                *)
(***************************************************************************)
LEMMA LayersTakeTheirSteps ==
  [SerialNext]_<< layer, vars, linkVars, reportVars >> => [Next]_vars /\ [LinkNext]_linkVars
BY DEF SerialNext

LEMMA DriverOfLine == SerialSpec => Spec
BY LayersTakeTheirSteps, PTL DEF SerialSpec, SerialInit, Spec

\* On the whole line, for every ring size: every loss of a byte is counted, no
\* published byte waits without its interrupt, and the transmit half is a
\* bounded first-in first-out channel.
THEOREM RingsSoundOnLine == SerialSpec => []RingsSound /\ TransmitsAsFifo
BY DriverOfLine, RingsAreSound, TransmitterRefines, PTL

(***************************************************************************)
(* The telemetry numbers.                                                  *)
(***************************************************************************)
\* The number of the frame that follows a others, when the numbers run round
\* from 1 to m, and the number after n.
NumberAfter(a, m) == (a % m) + 1
Following(n, m) == IF n = m THEN 1 ELSE n + 1

\* Counting one frame more, or counting anew from a number, names the next one.
LEMMA Round ==
  ASSUME NEW m \in Nat \ {0}, NEW a \in Nat
  PROVE  LET n == NumberAfter(a, m)
         IN /\ n \in 1 .. m
            /\ NumberAfter(a + 1, m) = Following(n, m)
            /\ NumberAfter(n + 0, m) = Following(n, m)
<1> DEFINE n == NumberAfter(a, m)
<1> USE DEF NumberAfter, Following
<1>1. PICK q \in Int, r \in 0 .. m - 1 : a = m * q + r /\ r = a % m
  <2>1. a % m \in 0 .. m - 1 /\ a \div m \in Int /\ a = m * (a \div m) + (a % m)
    OBVIOUS
  <2> QED
    BY <2>1
<1>2. n = r + 1
  BY <1>1
<1>3. CASE r = m - 1
  <2>0. m * (q + 1) = m * q + m
    BY <1>1
  <2>1. a + 1 = m * (q + 1) + 0
    <3>1. a = m * q + (m - 1)
      BY <1>1, <1>3
    <3>2. m * q \in Int
      BY <1>1
    <3>3. a + 1 = m * q + m
      BY <3>1, <3>2
    <3>4. m * (q + 1) \in Int
      BY <1>1
    <3> QED
      BY <2>0, <3>3, <3>4
  <2>2. (m * (q + 1) + 0) % m = 0
    OBVIOUS
  <2>3. m % m = 0
    OBVIOUS
  <2> QED
    BY <1>2, <1>3, <2>1, <2>2, <2>3
<1>4. CASE r < m - 1
  <2>1. a + 1 = m * q + (r + 1)
    BY <1>1
  <2>2. (m * q + (r + 1)) % m = r + 1
    BY <1>4
  <2>3. (r + 1) % m = r + 1
    BY <1>4
  <2> QED
    BY <1>2, <1>4, <2>1, <2>2, <2>3
<1> QED
  BY <1>3, <1>4

TelemetryFields == {"enabled", "period_ms", "elapsed_ms", "next_sequence"}

\* The telemetry record keeps its fields, and the numbers are right.
GapInv ==
  /\ DOMAIN telemetry = TelemetryFields
  /\ telemetry = [f \in TelemetryFields |-> telemetry[f]]
  /\ heard \in [last : Nat, lost : Nat]
  /\ GapIsLoss

\* A configuration of the telemetry leaves its numbers alone.
LEMMA ConfiguredKeepsNumbers ==
  ASSUME NEW t, DOMAIN t = TelemetryFields, t = [f \in TelemetryFields |-> t[f]], NEW request
  PROVE  LET u == telemetry_configured(t, request)
         IN /\ DOMAIN u = TelemetryFields /\ u = [f \in TelemetryFields |-> u[f]]
            /\ u.next_sequence = t.next_sequence
BY DEF telemetry_configured, TelemetryFields

LEMMA GapStarts == LinkInit => GapInv
BY SequenceAssumption DEF LinkInit, GapInv, GapIsLoss, telemetry_init, TelemetryFields

LEMMA GapSteps == GapInv /\ [LinkNext]_linkVars => GapInv'
<1> SUFFICES ASSUME GapInv, [LinkNext]_linkVars PROVE GapInv'
  OBVIOUS
<1>1. CASE UNCHANGED << telemetry, heard >>
  BY <1>1 DEF GapInv, GapIsLoss
<1>2. CASE PollByte
  <2>1. UNCHANGED heard
    BY <1>2 DEF PollByte
  <2>2. \/ UNCHANGED telemetry
        \/ \E request : telemetry' = telemetry_configured(telemetry, request)
    BY <1>2 DEF PollByte
  <2> QED
    BY <2>1, <2>2, ConfiguredKeepsNumbers DEF GapInv, GapIsLoss
<1>3. CASE PollTelemetry
  <2> DEFINE n == telemetry.next_sequence
  <2>1. telemetry' = telemetry_taken(telemetry)
    BY <1>3 DEF PollTelemetry
  <2>2. /\ DOMAIN telemetry' = TelemetryFields
        /\ telemetry' = [f \in TelemetryFields |-> telemetry'[f]]
        /\ telemetry'.next_sequence = next_sequence(n)
    BY <2>1 DEF telemetry_taken, GapInv, TelemetryFields
  <2>3. \/ heard' = [last |-> n, lost |-> 0]
        \/ heard' = [heard EXCEPT !.lost = @ + 1]
    BY <1>3 DEF PollTelemetry, telemetry_frame
  <2>4. PICK m \in Nat \ {0} : m = SEQUENCE_MAX
    BY SequenceAssumption
  <2>5. PICK a \in Nat : a = heard.last + heard.lost /\ n = (a % m) + 1
    BY <2>4 DEF GapInv, GapIsLoss
  <2> HIDE DEF n
  <2>6. /\ n \in 1 .. m /\ ((a + 1) % m) + 1 = next_sequence(n)
        /\ ((n + 0) % m) + 1 = next_sequence(n)
    <3>1. n = NumberAfter(a, m)
      BY <2>5 DEF NumberAfter
    <3>2. /\ n \in 1 .. m /\ NumberAfter(a + 1, m) = Following(n, m)
          /\ NumberAfter(n + 0, m) = Following(n, m)
      BY <2>4, <2>5, <3>1, Round, Zenon
    <3>3. next_sequence(n) = Following(n, m)
      BY <2>4 DEF next_sequence, Following
    <3> QED
      BY <3>2, <3>3 DEF NumberAfter
  <2>7. CASE heard' = [last |-> n, lost |-> 0]
    BY <2>2, <2>4, <2>6, <2>7 DEF GapInv, GapIsLoss
  <2>8. CASE heard' = [heard EXCEPT !.lost = @ + 1]
    <3>1. heard' \in [last : Nat, lost : Nat] /\ heard'.last + heard'.lost = a + 1
      BY <2>5, <2>8 DEF GapInv
    <3> QED
      BY <2>2, <2>4, <2>6, <3>1 DEF GapInv, GapIsLoss
  <2> QED
    BY <2>3, <2>7, <2>8
<1>4. CASE LinkTick
  <2>1. telemetry' = telemetry_tick_1ms(telemetry) /\ UNCHANGED heard
    BY <1>4 DEF LinkTick
  <2>2. /\ DOMAIN telemetry' = TelemetryFields
        /\ telemetry' = [f \in TelemetryFields |-> telemetry'[f]]
        /\ telemetry'.next_sequence = telemetry.next_sequence
    BY <2>1 DEF telemetry_tick_1ms, GapInv, TelemetryFields
  <2> QED
    BY <2>1, <2>2 DEF GapInv, GapIsLoss
<1> QED
  BY <1>1, <1>2, <1>3, <1>4 DEF LinkNext, HostRequest, HostRetry, LineFault, linkVars

\* For every width of the telemetry numbers, every line and every number of
\* frames lost in a row: the next number tells the host how many frames it has
\* missed (guardian_telemetry_make_frame, guardian_embedded_transmit).
THEOREM GapsAreLosses == SerialSpec => []GapIsLoss
<1>1. GapInv => GapIsLoss
  BY DEF GapInv
<1> QED
  BY <1>1, GapStarts, GapSteps, LayersTakeTheirSteps, PTL DEF SerialSpec, SerialInit

(***************************************************************************)
(* Frames as bytes, the parser and the answers.                            *)
(***************************************************************************)
Bytes == 0..255

\* Eight bits of a word make a byte.
LEMMA ByteAtIsByte ==
  ASSUME NEW word, NEW low \in Nat
  PROVE  ByteAt(word, low) \in 0..255
<1> DEFINE P(k) == IF low + k - 1 \in word THEN 2^(k - 1) ELSE 0
           Step(f) == [k \in 0..8 |-> IF k = 0 THEN 0 ELSE f[k - 1] + P(k)]
           s1 == P(1)
           s2 == s1 + P(2)
           s3 == s2 + P(3)
           s4 == s3 + P(4)
           s5 == s4 + P(5)
           s6 == s5 + P(6)
           s7 == s6 + P(7)
           s8 == s7 + P(8)
           g == [k \in 0..8 |-> IF k = 0 THEN 0 ELSE IF k = 1 THEN s1 ELSE IF k = 2 THEN s2
                                ELSE IF k = 3 THEN s3 ELSE IF k = 4 THEN s4
                                ELSE IF k = 5 THEN s5 ELSE IF k = 6 THEN s6
                                ELSE IF k = 7 THEN s7 ELSE s8]
           sum == CHOOSE f : f = Step(f)
<1>1. /\ P(1) \in {0, 1} /\ P(2) \in {0, 2} /\ P(3) \in {0, 4} /\ P(4) \in {0, 8}
      /\ P(5) \in {0, 16} /\ P(6) \in {0, 32} /\ P(7) \in {0, 64} /\ P(8) \in {0, 128}
  <2>1. /\ 2^(1 - 1) = 1 /\ 2^(2 - 1) = 2 /\ 2^(3 - 1) = 4 /\ 2^(4 - 1) = 8
        /\ 2^(5 - 1) = 16 /\ 2^(6 - 1) = 32 /\ 2^(7 - 1) = 64 /\ 2^(8 - 1) = 128
    OBVIOUS
  <2> QED BY <2>1, Zenon
<1> HIDE DEF P
<1>2. s8 \in 0..255
  BY <1>1
<1>3. g = Step(g)
  <2>1. \A k \in 0..8 : g[k] = IF k = 0 THEN 0 ELSE g[k - 1] + P(k)
    <3>1. TAKE k \in 0..8
    <3>2. /\ g[0] = 0 /\ g[1] = s1 /\ g[2] = s2 /\ g[3] = s3 /\ g[4] = s4 /\ g[5] = s5
          /\ g[6] = s6 /\ g[7] = s7 /\ g[8] = s8
      OBVIOUS
    <3> HIDE DEF g
    <3>3. k = 0 \/ k = 1 \/ k = 2 \/ k = 3 \/ k = 4 \/ k = 5 \/ k = 6 \/ k = 7 \/ k = 8
      OBVIOUS
    <3>4. s1 = 0 + P(1)
      BY <1>1
    <3> QED BY <3>2, <3>3, <3>4
  <2>2. g = [k \in 0..8 |-> g[k]]
    OBVIOUS
  <2> HIDE DEF g
  <2> QED BY <2>1, <2>2
<1> HIDE DEF Step, g
<1>4. sum = Step(sum)
  BY <1>3, Zenon
<1> HIDE DEF sum
<1>5. \A k \in 1..8 : sum[k] = sum[k - 1] + P(k)
  BY <1>4 DEF Step
<1>6. sum[0] = 0
  BY <1>4 DEF Step
<1>7. sum[1] = s1 /\ sum[2] = s2 /\ sum[3] = s3 /\ sum[4] = s4
  BY <1>1, <1>5, <1>6
<1>8. sum[5] = s5 /\ sum[6] = s6 /\ sum[7] = s7 /\ sum[8] = s8
  BY <1>1, <1>5, <1>7
<1>9. ByteAt(word, low) = sum[8]
  BY DEF ByteAt, sum, Step, P
<1> QED BY <1>2, <1>8, <1>9

LEMMA CrcBytes ==
  ASSUME NEW word
  PROVE  crc_bytes(word) \in Seq(Bytes) /\ Len(crc_bytes(word)) = 4
<1>1. /\ ByteAt(word, 24) \in Bytes /\ ByteAt(word, 16) \in Bytes
      /\ ByteAt(word, 8) \in Bytes /\ ByteAt(word, 0) \in Bytes
  <2>1. 24 \in Nat /\ 16 \in Nat /\ 8 \in Nat /\ 0 \in Nat
    OBVIOUS
  <2> QED BY <2>1, ByteAtIsByte, Zenon DEF Bytes
<1> QED BY <1>1 DEF crc_bytes

-----------------------------------------------------------------------------
\* u is m elements of S, those of s, and then the n of t, position by position.
Joins(u, s, t, m, n, S) ==
  /\ u \in Seq(S) /\ Len(u) = m + n
  /\ \A i \in 1..m : u[i] = s[i]
  /\ \A i \in 1..n : u[m + i] = t[i]

LEMMA Joined ==
  ASSUME NEW S, NEW s \in Seq(S), NEW t \in Seq(S),
         NEW m \in Nat, NEW n \in Nat, Len(s) = m, Len(t) = n
  PROVE  Joins(s \o t, s, t, m, n, S)
BY DEF Joins

\* t is what s has from position m + 1 on.
PartAt(s, t, m, from, to, S) ==
  /\ s \in Seq(S) /\ t \in Seq(S) /\ m \in Nat
  /\ from = m + 1 /\ to = m + Len(t) /\ to <= Len(s)
  /\ \A i \in 1..Len(t) : s[m + i] = t[i]

LEMMA PartOf ==
  ASSUME NEW s, NEW t, NEW m, NEW from, NEW to, NEW S, PartAt(s, t, m, from, to, S)
  PROVE  SubSeq(s, from, to) = t
BY DEF PartAt

\* Numbers of 16 and of 32 bits.
IsU16(v) == v \in Nat /\ v \div 2^8 < 2^8
IsU32(v) == v \in Nat /\ v \div 2^16 < 2^16

LEMMA PayloadSize == MAX_PAYLOAD_SIZE \in Nat /\ IsU16(MAX_PAYLOAD_SIZE) /\ 4 <= MAX_PAYLOAD_SIZE
BY RequestAssumption, Zenon DEF IsU16

\* Two bytes hold a number of 16 bits, four one of 32.
LEMMA TwoBytes ==
  ASSUME NEW v, IsU16(v)
  PROVE  /\ write_u16_be(v) \in Seq(Bytes) /\ Len(write_u16_be(v)) = 2
         /\ 256 * write_u16_be(v)[1] + write_u16_be(v)[2] = v
<1>0. v \in Nat /\ v \div 256 < 256
  <2>1. 2^8 = 256
    OBVIOUS
  <2> QED BY <2>1 DEF IsU16
<1>1. (v \div 256) % 256 \in 0..255 /\ v % 256 \in 0..255
      /\ 256 * ((v \div 256) % 256) + (v % 256) = v
  BY <1>0
<1>2. write_u16_be(v) = <<(v \div 256) % 256, v % 256>>
  BY DEF write_u16_be
<1> QED BY <1>1, <1>2 DEF Bytes

LEMMA FourBytes ==
  ASSUME NEW v, IsU32(v)
  PROVE  /\ write_u32_be(v) \in Seq(Bytes) /\ Len(write_u32_be(v)) = 4
         /\ 2^24 * write_u32_be(v)[1] + 2^16 * write_u32_be(v)[2]
            + 256 * write_u32_be(v)[3] + write_u32_be(v)[4] = v
<1>1. 2^24 = 16777216 /\ 2^16 = 65536
  OBVIOUS
<1>2. v \in Nat /\ v < 65536 * 65536
  <2>1. v \in Nat /\ v \div 65536 < 65536
    BY <1>1 DEF IsU32
  <2>2. QED BY <2>1
<1>3. v \in Nat /\ v < 4294967296
  BY <1>2
<1>4. 16777216 * ((v \div 16777216) % 256) + 65536 * ((v \div 65536) % 256)
      + 256 * ((v \div 256) % 256) + (v % 256) = v
  BY <1>3
<1>5. /\ (v \div 16777216) % 256 \in 0..255 /\ (v \div 65536) % 256 \in 0..255
      /\ (v \div 256) % 256 \in 0..255 /\ v % 256 \in 0..255
  BY <1>3
<1> DEFINE w == write_u32_be(v)
<1>6. /\ w[1] = (v \div 16777216) % 256 /\ w[2] = (v \div 65536) % 256
      /\ w[3] = (v \div 256) % 256 /\ w[4] = v % 256
  BY <1>1 DEF write_u32_be
<1>7. w \in Seq(Bytes) /\ Len(w) = 4
  BY <1>1, <1>5 DEF write_u32_be, Bytes
<1> HIDE DEF w
<1>8. 16777216 * w[1] + 65536 * w[2] + 256 * w[3] + w[4] = v
  BY <1>4, <1>6
<1>9. QED BY <1>1, <1>7, <1>8 DEF w

-----------------------------------------------------------------------------
\* The fields of a guardian_frame_t.
LinkFrames ==
  [type : Bytes, command : Bytes, flags : {0}, sequence : Nat, payload : Seq(Bytes)]

\* A frame that guardian_protocol_encode accepts.
Encodable(f) ==
  /\ f \in LinkFrames
  /\ f.type \in 1..5 /\ IsU32(f.sequence) /\ Len(f.payload) <= MAX_PAYLOAD_SIZE

\* What the encoded frame looks like.
FrameBytes(b, f) ==
  LET n == Len(f.payload)
  IN /\ b \in Seq(Bytes) /\ Len(b) = 16 + n
     /\ b[1] = 71 /\ b[2] = 70 /\ b[3] = 1 /\ b[4] = f.type /\ b[5] = f.command /\ b[6] = 0
     /\ read_u32_be(b, 7) = f.sequence /\ read_u16_be(b, 11) = n
     /\ SubSeq(b, 13, 12 + n) = f.payload
     /\ SubSeq(b, 13 + n, 16 + n) = crc_bytes(crc32(SubSeq(b, 1, 12 + n)))

LEMMA EncodesAs ==
  ASSUME NEW f, Encodable(f)
  PROVE  FrameBytes(protocol_encode(f), f)
<1> DEFINE h == <<MAGIC_0, MAGIC_1, PROTOCOL_VERSION, f.type, f.command, f.flags>>
           n == Len(f.payload)
           l == write_u16_be(n)
           q == write_u32_be(f.sequence)
           data == h \o q \o l \o f.payload
           c == crc_bytes(crc32(data))
           b == protocol_encode(f)
<1>1. /\ IsU16(n) /\ n \in Nat /\ 2 \in Nat /\ 4 \in Nat /\ 6 \in Nat /\ 10 \in Nat
      /\ 12 \in Nat /\ 12 + n \in Nat
  <2>1. n \in Nat /\ n <= MAX_PAYLOAD_SIZE /\ IsU16(MAX_PAYLOAD_SIZE)
    BY PayloadSize DEF Encodable, LinkFrames
  <2> HIDE DEF n
  <2>2. IsU16(n)
    <3>1. 2^8 = 256
      OBVIOUS
    <3> QED BY <2>1, <3>1 DEF IsU16
  <2> QED BY <2>1, <2>2
<1>2. /\ h \in Seq(Bytes) /\ Len(h) = 6
      /\ h[1] = 71 /\ h[2] = 70 /\ h[3] = 1 /\ h[4] = f.type /\ h[5] = f.command /\ h[6] = 0
  <2>1. f.type \in 0..255 /\ f.command \in 0..255 /\ f.flags = 0
    BY DEF Encodable, LinkFrames, Bytes
  <2> QED BY <2>1 DEF MAGIC_0, MAGIC_1, PROTOCOL_VERSION, Bytes
<1>3. l \in Seq(Bytes) /\ Len(l) = 2 /\ 256 * l[1] + l[2] = n
  <2> HIDE DEF n
  <2> QED BY <1>1, TwoBytes, Zenon
<1>4. /\ q \in Seq(Bytes) /\ Len(q) = 4
      /\ 2^24 * q[1] + 2^16 * q[2] + 256 * q[3] + q[4] = f.sequence
  <2>1. IsU32(f.sequence)
    BY DEF Encodable, LinkFrames
  <2> QED BY <2>1, FourBytes, Zenon
<1>5. c \in Seq(Bytes) /\ Len(c) = 4
  BY CrcBytes, Zenon
<1>6. f.payload \in Seq(Bytes) /\ Len(f.payload) = n
  BY DEF Encodable, LinkFrames
<1>7. b = data \o c
  BY DEF protocol_encode, WithCrc
<1>8. c = crc_bytes(crc32(data))
  OBVIOUS
<1> HIDE DEF b, h, l, q, c, n
<1> DEFINE d1 == h \o q
           d2 == d1 \o l
           d3 == d2 \o f.payload
<1>12. Joins(d1, h, q, 6, 4, Bytes)
  BY <1>1, <1>2, <1>4, Joined, Zenon
<1> HIDE DEF d1
<1>12a. d1 \in Seq(Bytes) /\ Len(d1) = 10
  BY <1>12 DEF Joins
<1>13. Joins(d2, d1, l, 10, 2, Bytes)
  BY <1>1, <1>12a, <1>3, Joined, Zenon
<1> HIDE DEF d2
<1>13a. d2 \in Seq(Bytes) /\ Len(d2) = 12
  BY <1>13 DEF Joins
<1>14. Joins(d3, d2, f.payload, 12, n, Bytes)
  BY <1>1, <1>13a, <1>6, Joined, Zenon
<1> HIDE DEF d3
<1>14a. d3 \in Seq(Bytes) /\ Len(d3) = 12 + n
  BY <1>1, <1>14 DEF Joins
<1>15. data = d3
  BY DEF d3, d2, d1
<1> HIDE DEF data
<1>16. Joins(b, d3, c, 12 + n, 4, Bytes)
  BY <1>1, <1>5, <1>7, <1>14a, <1>15, Joined, Zenon
<1>16a. b \in Seq(Bytes) /\ Len(b) = 16 + n
  BY <1>1, <1>16 DEF Joins
<1>17. /\ \A i \in 1..12 : b[i] = d2[i]
       /\ \A i \in 1..10 : b[i] = d1[i]
       /\ \A i \in 1..6 : b[i] = h[i]
  <2>1. \A i \in 1..12 : b[i] = d2[i]
    <3>1. \A i \in 1..12 : d3[i] = d2[i] /\ i \in 1..(12 + n)
      BY <1>1, <1>14 DEF Joins
    <3>2. \A i \in 1..(12 + n) : b[i] = d3[i]
      BY <1>16 DEF Joins
    <3> QED BY <3>1, <3>2, Zenon
  <2>2. \A i \in 1..10 : b[i] = d1[i]
    BY <1>13, <2>1 DEF Joins
  <2>3. \A i \in 1..6 : b[i] = h[i]
    BY <1>12, <2>2 DEF Joins
  <2> QED BY <2>1, <2>2, <2>3
<1>18. b[1] = 71 /\ b[2] = 70 /\ b[3] = 1 /\ b[4] = f.type /\ b[5] = f.command /\ b[6] = 0
  BY <1>2, <1>17
<1>19. read_u32_be(b, 7) = f.sequence
  <2>1. \A i \in 1..4 : b[6 + i] = q[i]
    BY <1>12, <1>17 DEF Joins
  <2>2. b[7] = q[1] /\ b[8] = q[2] /\ b[9] = q[3] /\ b[10] = q[4]
    BY <2>1
  <2> QED BY <1>4, <2>2 DEF read_u32_be
<1>20. read_u16_be(b, 11) = n
  <2>1. \A i \in 1..2 : b[10 + i] = l[i]
    BY <1>13, <1>17 DEF Joins
  <2>2. b[11] = l[1] /\ b[12] = l[2]
    BY <2>1
  <2> QED BY <1>3, <2>2 DEF read_u16_be
<1>21. SubSeq(b, 1, 12 + n) = d3
  <2>1. \A i \in 1..(12 + n) : b[0 + i] = d3[i]
    BY <1>1, <1>16 DEF Joins
  <2>2. PartAt(b, d3, 0, 1, 12 + n, Bytes)
    BY <1>1, <1>16a, <1>14a, <2>1 DEF PartAt
  <2> QED BY <2>2, PartOf, Zenon
<1>22. SubSeq(b, 13 + n, 16 + n) = c
  <2>1. \A i \in 1..4 : b[(12 + n) + i] = c[i]
    BY <1>16 DEF Joins
  <2>2. PartAt(b, c, 12 + n, 13 + n, 16 + n, Bytes)
    BY <1>1, <1>5, <1>16a, <2>1 DEF PartAt
  <2> QED BY <2>2, PartOf, Zenon
<1>23. SubSeq(b, 13, 12 + n) = f.payload
  <2>1. \A i \in 1..n : b[12 + i] = f.payload[i]
    <3>0. \A j \in 1..n : d3[12 + j] = f.payload[j]
      BY <1>14 DEF Joins
    <3>1. TAKE i \in 1..n
    <3>a. 12 + i \in 1..(12 + n)
      BY <1>1
    <3>2. 12 + i \in 1..(12 + n) /\ d3[12 + i] = f.payload[i]
      BY <3>0, <3>a
    <3>3. b[12 + i] = d3[12 + i]
      BY <1>16, <3>2 DEF Joins
    <3> QED BY <3>2, <3>3
  <2>2. PartAt(b, f.payload, 12, 13, 12 + n, Bytes)
    BY <1>1, <1>6, <1>16a, <2>1 DEF PartAt
  <2> QED BY <2>2, PartOf, Zenon
<1>24. SubSeq(b, 13 + n, 16 + n) = crc_bytes(crc32(SubSeq(b, 1, 12 + n)))
  BY <1>8, <1>15, <1>21, <1>22
<1> QED BY <1>16a, <1>18, <1>19, <1>20, <1>23, <1>24, Zenon DEF FrameBytes, n, b

\* Every frame that guardian_protocol_encode accepts, whatever its payload, is
\* decoded by guardian_protocol_decode as it was encoded.
THEOREM ProtocolRoundTrip ==
  ASSUME NEW f, Encodable(f)
  PROVE  protocol_decode(protocol_encode(f)) = [result |-> "OK", frame |-> f]
<1> DEFINE b == protocol_encode(f)
           n == Len(f.payload)
<1>1. FrameBytes(b, f)
  BY EncodesAs, Zenon
<1> HIDE DEF b
<1>2. n \in Nat /\ n <= MAX_PAYLOAD_SIZE /\ MAX_PAYLOAD_SIZE \in Nat /\ f.type \in 1..5 /\ f.flags = 0
  BY PayloadSize DEF Encodable, LinkFrames, IsU16
<1>3. /\ b \in Seq(Bytes) /\ Len(b) = 16 + n
      /\ b[1] = 71 /\ b[2] = 70 /\ b[3] = 1 /\ b[4] = f.type /\ b[5] = f.command /\ b[6] = 0
      /\ read_u32_be(b, 7) = f.sequence /\ read_u16_be(b, 11) = n
      /\ SubSeq(b, 13, 12 + n) = f.payload
      /\ SubSeq(b, 13 + n, 16 + n) = crc_bytes(crc32(SubSeq(b, 1, 12 + n)))
  BY <1>1, Zenon DEF FrameBytes
<1>4. f = [type |-> f.type, command |-> f.command, flags |-> f.flags,
           sequence |-> f.sequence, payload |-> f.payload]
  BY DEF Encodable, LinkFrames
<1> HIDE DEF n
<1>5. /\ OFFSET.VERSION = 3 /\ OFFSET.MESSAGE_TYPE = 4 /\ OFFSET.COMMAND = 5 /\ OFFSET.FLAGS = 6
      /\ OFFSET.SEQUENCE = 7 /\ OFFSET.PAYLOAD_LENGTH = 11
  BY DEF OFFSET
<1>6. /\ ~(Len(b) < HEADER_SIZE + CRC_SIZE)
      /\ ~(b[1] # MAGIC_0 \/ b[2] # MAGIC_1) /\ ~(b[3] # PROTOCOL_VERSION)
      /\ message_type_is_valid(b[4]) /\ ~(b[6] # SUPPORTED_FLAGS)
      /\ ~(n > MAX_PAYLOAD_SIZE)
  <2>1. ~(Len(b) < HEADER_SIZE + CRC_SIZE) /\ ~(n > MAX_PAYLOAD_SIZE)
    BY <1>2, <1>3 DEF HEADER_SIZE, CRC_SIZE
  <2>2. ~(b[1] # MAGIC_0 \/ b[2] # MAGIC_1) /\ ~(b[3] # PROTOCOL_VERSION)
        /\ ~(b[6] # SUPPORTED_FLAGS)
    BY <1>3 DEF MAGIC_0, MAGIC_1, PROTOCOL_VERSION, SUPPORTED_FLAGS
  <2>3. message_type_is_valid(b[4])
    BY <1>2, <1>3 DEF message_type_is_valid, MESSAGE
  <2> QED BY <2>1, <2>2, <2>3
<1>7. /\ HEADER_SIZE + n = 12 + n /\ HEADER_SIZE + 1 = 13
      /\ 12 + n + 1 = 13 + n /\ 12 + n + CRC_SIZE = 16 + n
  BY <1>2 DEF HEADER_SIZE, CRC_SIZE
<1> DEFINE frame == [type |-> b[4], command |-> b[5], flags |-> b[6],
                     sequence |-> read_u32_be(b, 7), payload |-> SubSeq(b, 13, 12 + n)]
<1>8. frame = f
  BY <1>2, <1>3, <1>4
<1>9. protocol_decode(b) = [result |-> "OK", frame |-> frame]
  <2> DEFINE ok == [result |-> "OK", frame |-> frame]
             differs == SubSeq(b, 12 + n + 1, 12 + n + 4) # crc_bytes(crc32(SubSeq(b, 1, 12 + n)))
             tail == IF differs THEN Rejected("CRC") ELSE ok
  <2>1. /\ HEADER_SIZE = 12 /\ CRC_SIZE = 4 /\ 12 + 1 = 13
        /\ 12 + n + 1 = 13 + n /\ 12 + n + 4 = 16 + n
    BY <1>2 DEF HEADER_SIZE, CRC_SIZE
  <2>2. ~(Len(b) # 12 + n + 4) /\ ~differs
    BY <1>3, <2>1, Zenon
  <2>3. protocol_decode(b) = IF Len(b) # 12 + n + 4 THEN Rejected("LENGTH_MISMATCH") ELSE tail
    <3> HIDE DEF differs
    <3> QED BY <1>3, <1>5, <1>6, <2>1, Zenon DEF protocol_decode, differs
  <2> HIDE DEF differs, ok
  <2> QED BY <2>2, <2>3, Zenon DEF ok
<1> QED BY <1>8, <1>9 DEF b

U32(w, x, y, z) == 2^24 * w + 2^16 * x + 256 * y + z

LEMMA FourBytesBack ==
  ASSUME NEW w \in Bytes, NEW x \in Bytes, NEW y \in Bytes, NEW z \in Bytes
  PROVE  IsU32(U32(w, x, y, z)) /\ write_u32_be(U32(w, x, y, z)) = << w, x, y, z >>
<1> DEFINE v == U32(w, x, y, z)
<1>1. 2^24 = 16777216 /\ 2^16 = 65536
  OBVIOUS
<1>2. w \in 0..255 /\ x \in 0..255 /\ y \in 0..255 /\ z \in 0..255
  BY DEF Bytes
<1>3. v = 16777216 * w + 65536 * x + 256 * y + z /\ v \in Nat
  BY <1>1, <1>2 DEF U32
<1> HIDE DEF v
<1>4. v \div 65536 = 256 * w + x /\ v \div 256 = 65536 * w + 256 * x + y
      /\ v \div 16777216 = w
  BY <1>2, <1>3
<1>5. v % 256 = z
  BY <1>2, <1>3
<1>6. (v \div 16777216) % 256 = w /\ (v \div 65536) % 256 = x /\ (v \div 256) % 256 = y
  BY <1>2, <1>4
<1>7. v \div 65536 < 65536
  BY <1>2, <1>4
<1>8. IsU32(v) /\ write_u32_be(v) = << w, x, y, z >>
  BY <1>1, <1>3, <1>5, <1>6, <1>7 DEF write_u32_be, IsU32
<1> QED BY <1>8 DEF v

LEMMA TwoBytesBack ==
  ASSUME NEW x \in Bytes, NEW y \in Bytes, NEW v, v = 256 * x + y
  PROVE  v \in Nat /\ write_u16_be(v) = << x, y >>
<1>1. x \in 0..255 /\ y \in 0..255
  BY DEF Bytes
<1>2. v \in Nat /\ v \div 256 = x /\ v % 256 = y /\ x % 256 = x
  BY <1>1
<1> QED BY <1>2 DEF write_u16_be

LEMMA SameSequence ==
  ASSUME NEW u \in Seq(Bytes), NEW v \in Seq(Bytes), NEW n \in Nat, Len(u) = n, Len(v) = n,
         \A i \in 1..n : u[i] = v[i]
  PROVE  u = v
OBVIOUS

\* guardian_protocol_decode accepts nothing but what guardian_protocol_encode
\* produces: the bytes it accepts are the encoding of the frame it returns.
THEOREM DecodesOnlyEncodings ==
  ASSUME NEW b \in Seq(Bytes), protocol_decode(b).result = "OK"
  PROVE  LET f == protocol_decode(b).frame IN Encodable(f) /\ protocol_encode(f) = b
<1> DEFINE n == read_u16_be(b, 11)
           f == [type |-> b[4], command |-> b[5], flags |-> b[6],
                 sequence |-> read_u32_be(b, 7), payload |-> SubSeq(b, 13, 12 + n)]
<1>1. OFFSET.VERSION = 3 /\ OFFSET.MESSAGE_TYPE = 4 /\ OFFSET.COMMAND = 5 /\ OFFSET.FLAGS = 6
      /\ OFFSET.SEQUENCE = 7 /\ OFFSET.PAYLOAD_LENGTH = 11 /\ HEADER_SIZE + 1 = 13
      /\ HEADER_SIZE = 12 /\ CRC_SIZE = 4
  BY DEF OFFSET, HEADER_SIZE, CRC_SIZE
<1>2. \A why : why # "OK" => Rejected(why).result # "OK"
  BY DEF Rejected
<1>3. /\ ~(Len(b) < 12 + 4) /\ b[1] = MAGIC_0 /\ b[2] = MAGIC_1 /\ b[3] = PROTOCOL_VERSION
      /\ message_type_is_valid(b[4]) /\ b[6] = SUPPORTED_FLAGS /\ ~(n > MAX_PAYLOAD_SIZE)
      /\ Len(b) = 12 + n + 4
      /\ SubSeq(b, 12 + n + 1, 12 + n + 4) = crc_bytes(crc32(SubSeq(b, 1, 12 + n)))
      /\ protocol_decode(b) = [result |-> "OK", frame |-> f]
  <2> HIDE DEF n
  <2>1. /\ "FRAME_TOO_SHORT" # "OK" /\ "MAGIC" # "OK" /\ "VERSION" # "OK" /\ "MESSAGE_TYPE" # "OK"
        /\ "FLAGS" # "OK" /\ "PAYLOAD_TOO_LARGE" # "OK" /\ "LENGTH_MISMATCH" # "OK" /\ "CRC" # "OK"
    OBVIOUS
  <2>2. protocol_decode(b) =
          IF Len(b) < 12 + 4 THEN Rejected("FRAME_TOO_SHORT")
          ELSE IF b[1] # MAGIC_0 \/ b[2] # MAGIC_1 THEN Rejected("MAGIC")
          ELSE IF b[3] # PROTOCOL_VERSION THEN Rejected("VERSION")
          ELSE IF ~message_type_is_valid(b[4]) THEN Rejected("MESSAGE_TYPE")
          ELSE IF b[6] # SUPPORTED_FLAGS THEN Rejected("FLAGS")
          ELSE IF n > MAX_PAYLOAD_SIZE THEN Rejected("PAYLOAD_TOO_LARGE")
          ELSE IF Len(b) # 12 + n + 4 THEN Rejected("LENGTH_MISMATCH")
          ELSE IF SubSeq(b, 12 + n + 1, 12 + n + 4) # crc_bytes(crc32(SubSeq(b, 1, 12 + n)))
            THEN Rejected("CRC")
          ELSE [result |-> "OK", frame |-> f]
    BY <1>1, Zenon DEF protocol_decode, n
  <2> HIDE DEF f
  <2> QED BY <1>2, <2>1, <2>2, Zenon
<1>4. /\ b[4] \in Bytes /\ b[5] \in Bytes /\ b[7] \in Bytes /\ b[8] \in Bytes /\ b[9] \in Bytes
      /\ b[10] \in Bytes /\ b[11] \in Bytes /\ b[12] \in Bytes /\ Len(b) \in Nat
  <2>1. Len(b) \in Nat /\ Len(b) >= 16
    BY <1>3
  <2> QED BY <2>1
<1>5. n \in Nat /\ write_u16_be(n) = << b[11], b[12] >>
  <2>1. n = 256 * b[11] + b[12]
    BY DEF read_u16_be
  <2>2. PICK x \in Bytes, y \in Bytes : b[11] = x /\ b[12] = y
    BY <1>4, Zenon
  <2> HIDE DEF n
  <2>3. 256 * x + y \in Nat /\ write_u16_be(256 * x + y) = << x, y >>
    BY TwoBytesBack, Zenon
  <2>4. n = 256 * x + y
    BY <2>1, <2>2, Zenon
  <2> QED BY <2>2, <2>3, <2>4, Zenon
<1>6. /\ IsU32(read_u32_be(b, 7))
      /\ write_u32_be(read_u32_be(b, 7)) = << b[7], b[8], b[9], b[10] >>
  <2>1. read_u32_be(b, 7) = U32(b[7], b[8], b[9], b[10])
    BY DEF read_u32_be, U32
  <2>2. /\ IsU32(U32(b[7], b[8], b[9], b[10]))
        /\ write_u32_be(U32(b[7], b[8], b[9], b[10])) = << b[7], b[8], b[9], b[10] >>
    <3>1. PICK w \in Bytes, x \in Bytes, y \in Bytes, z \in Bytes :
            b[7] = w /\ b[8] = x /\ b[9] = y /\ b[10] = z
      BY <1>4, Zenon
    <3>2. IsU32(U32(w, x, y, z)) /\ write_u32_be(U32(w, x, y, z)) = << w, x, y, z >>
      BY FourBytesBack, Zenon
    <3> QED BY <3>1, <3>2
  <2> QED BY <2>1, <2>2, Zenon
<1> HIDE DEF n
<1>7. Len(b) = 16 + n /\ n <= MAX_PAYLOAD_SIZE /\ 12 + n + 1 = 13 + n /\ 12 + n + 4 = 16 + n
  BY <1>3, <1>5, PayloadSize
<1>8. /\ SubSeq(b, 13, 12 + n) \in Seq(Bytes) /\ Len(SubSeq(b, 13, 12 + n)) = n
      /\ \A i \in 1..n : SubSeq(b, 13, 12 + n)[i] = b[12 + i]
  BY <1>5, <1>7
<1>9. b[6] = 0 /\ b[4] \in 1..5
  BY <1>3, <1>4 DEF SUPPORTED_FLAGS, message_type_is_valid, MESSAGE
<1>10. Encodable(f)
  <2>1. f \in LinkFrames
    BY <1>4, <1>6, <1>8, <1>9 DEF LinkFrames, IsU32
  <2>2. f.type = b[4] /\ f.sequence = read_u32_be(b, 7) /\ f.payload = SubSeq(b, 13, 12 + n)
    OBVIOUS
  <2> HIDE DEF f
  <2> QED BY <1>6, <1>7, <1>8, <1>9, <2>1, <2>2 DEF Encodable
<1> DEFINE h == << MAGIC_0, MAGIC_1, PROTOCOL_VERSION, b[4], b[5], b[6] >>
           q == << b[7], b[8], b[9], b[10] >>
           l == << b[11], b[12] >>
           s == SubSeq(b, 13, 12 + n)
           d1 == h \o q
           d2 == d1 \o l
           d3 == d2 \o s
           c == crc_bytes(crc32(d3))
<1>11. protocol_encode(f) = d3 \o c
  <2>1. f.type = b[4] /\ f.command = b[5] /\ f.flags = b[6] /\ f.sequence = read_u32_be(b, 7)
        /\ f.payload = s
    OBVIOUS
  <2> HIDE DEF f
  <2> QED BY <1>5, <1>6, <1>8, <2>1, Zenon DEF protocol_encode, WithCrc
<1>12. /\ h \in Seq(Bytes) /\ Len(h) = 6 /\ \A i \in 1..6 : h[i] = b[i]
  <2>1. MAGIC_0 \in Bytes /\ MAGIC_1 \in Bytes /\ PROTOCOL_VERSION \in Bytes /\ b[6] \in Bytes
    BY <1>9 DEF MAGIC_0, MAGIC_1, PROTOCOL_VERSION, Bytes
  <2>2. h \in Seq(Bytes) /\ Len(h) = 6
    BY <1>4, <2>1
  <2>3. \A i \in 1..6 : h[i] = b[i]
    <3>1. TAKE i \in 1..6
    <3>2. i = 1 \/ i = 2 \/ i = 3 \/ i = 4 \/ i = 5 \/ i = 6
      OBVIOUS
    <3> QED BY <1>3, <3>2
  <2> QED BY <2>2, <2>3
<1>13. q \in Seq(Bytes) /\ Len(q) = 4 /\ q[1] = b[7] /\ q[2] = b[8] /\ q[3] = b[9] /\ q[4] = b[10]
  BY <1>4
<1>14. l \in Seq(Bytes) /\ Len(l) = 2 /\ l[1] = b[11] /\ l[2] = b[12]
  BY <1>4
<1>15. n \in Nat /\ 2 \in Nat /\ 4 \in Nat /\ 6 \in Nat /\ 10 \in Nat /\ 12 \in Nat /\ 12 + n \in Nat
  BY <1>5
<1> HIDE DEF h, q, l, s
<1>16. Joins(d1, h, q, 6, 4, Bytes)
  BY <1>12, <1>13, <1>15, Joined, Zenon
<1> HIDE DEF d1
<1>17. d1 \in Seq(Bytes) /\ Len(d1) = 10 /\ \A i \in 1..10 : d1[i] = b[i]
  <2>1. d1 \in Seq(Bytes) /\ Len(d1) = 10 /\ \A i \in 1..6 : d1[i] = b[i]
    BY <1>12, <1>16 DEF Joins
  <2>2. d1[7] = b[7] /\ d1[8] = b[8] /\ d1[9] = b[9] /\ d1[10] = b[10]
    <3>1. d1[6 + 1] = q[1] /\ d1[6 + 2] = q[2] /\ d1[6 + 3] = q[3] /\ d1[6 + 4] = q[4]
      BY <1>16 DEF Joins
    <3> QED BY <1>13, <3>1
  <2>3. \A i \in 1..10 : i \in 1..6 \/ i = 7 \/ i = 8 \/ i = 9 \/ i = 10
    OBVIOUS
  <2> QED BY <2>1, <2>2, <2>3, Zenon
<1>18. Joins(d2, d1, l, 10, 2, Bytes)
  BY <1>14, <1>15, <1>17, Joined, Zenon
<1> HIDE DEF d2
<1>19. d2 \in Seq(Bytes) /\ Len(d2) = 12 /\ \A i \in 1..12 : d2[i] = b[i]
  <2>1. d2 \in Seq(Bytes) /\ Len(d2) = 12 /\ \A i \in 1..10 : d2[i] = b[i]
    BY <1>17, <1>18 DEF Joins
  <2>2. d2[11] = b[11] /\ d2[12] = b[12]
    <3>1. d2[10 + 1] = l[1] /\ d2[10 + 2] = l[2]
      BY <1>18 DEF Joins
    <3> QED BY <1>14, <3>1
  <2>3. \A i \in 1..12 : i \in 1..10 \/ i = 11 \/ i = 12
    OBVIOUS
  <2> QED BY <2>1, <2>2, <2>3, Zenon
<1>20. s \in Seq(Bytes) /\ Len(s) = n /\ \A i \in 1..n : s[i] = b[12 + i]
  BY <1>8, Zenon DEF s
<1>21. Joins(d3, d2, s, 12, n, Bytes)
  BY <1>15, <1>19, <1>20, Joined, Zenon
<1> HIDE DEF d3
<1>22. d3 \in Seq(Bytes) /\ Len(d3) = 12 + n /\ \A i \in 1..(12 + n) : d3[i] = b[i]
  <2>1. d3 \in Seq(Bytes) /\ Len(d3) = 12 + n /\ \A i \in 1..12 : d3[i] = b[i]
    BY <1>15, <1>19, <1>21 DEF Joins
  <2>2. \A j \in 1..n : d3[12 + j] = b[12 + j]
    BY <1>20, <1>21 DEF Joins
  <2>3. \A i \in 1..(12 + n) : i \in 1..12 \/ (i - 12 \in 1..n /\ i = 12 + (i - 12))
    BY <1>15
  <2>4. \A i \in 1..(12 + n) : d3[i] = b[i]
    BY <2>1, <2>2, <2>3, Zenon
  <2> QED BY <2>1, <2>4
<1>23. d3 = SubSeq(b, 1, 12 + n)
  <2>1. \A i \in 1..(12 + n) : b[0 + i] = d3[i]
    BY <1>15, <1>22
  <2>2. PartAt(b, d3, 0, 1, 12 + n, Bytes)
    BY <1>7, <1>15, <1>22, <2>1 DEF PartAt
  <2> QED BY <2>2, PartOf, Zenon
<1>24. c = SubSeq(b, 13 + n, 16 + n)
  BY <1>3, <1>7, <1>23, Zenon
<1>25. c \in Seq(Bytes) /\ Len(c) = 4
  BY CrcBytes, Zenon
<1> HIDE DEF c
<1>26. Joins(d3 \o c, d3, c, 12 + n, 4, Bytes)
  BY <1>15, <1>22, <1>25, Joined, Zenon
<1>27. d3 \o c = b
  <2> DEFINE e == d3 \o c
  <2> HIDE DEF e
  <2>1. Joins(e, d3, c, 12 + n, 4, Bytes)
    BY <1>26 DEF e
  <2>2. e \in Seq(Bytes) /\ Len(e) = 16 + n /\ \A i \in 1..(12 + n) : e[i] = b[i]
    <3>1. e \in Seq(Bytes) /\ Len(e) = (12 + n) + 4 /\ \A i \in 1..(12 + n) : e[i] = d3[i]
      BY <2>1, Zenon DEF Joins
    <3>2. (12 + n) + 4 = 16 + n
      BY <1>15
    <3> QED BY <1>22, <3>1, <3>2, Zenon
  <2>3. \A j \in 1..4 : e[(12 + n) + j] = b[(12 + n) + j]
    <3>1. \A j \in 1..4 : c[j] = b[(12 + n) + j]
      <4>1. TAKE j \in 1..4
      <4>2. SubSeq(b, 13 + n, 16 + n)[j] = b[13 + n + j - 1]
        BY <1>7, <1>15
      <4>3. 13 + n + j - 1 = (12 + n) + j
        BY <1>15
      <4> QED BY <1>24, <4>2, <4>3
    <3> QED BY <2>1, <3>1 DEF Joins
  <2>4. \A i \in 1..(16 + n) : i \in 1..(12 + n) \/ (i - (12 + n) \in 1..4 /\ i = (12 + n) + (i - (12 + n)))
    BY <1>15
  <2>5. \A i \in 1..(16 + n) : e[i] = b[i]
    BY <2>2, <2>3, <2>4, Zenon
  <2>6. 16 + n \in Nat
    BY <1>15
  <2> QED BY <1>7, <2>2, <2>5, <2>6, SameSequence, Zenon DEF e
<1>28. protocol_decode(b).frame = f
  <2> HIDE DEF f
  <2> QED BY <1>3
<1> QED BY <1>10, <1>11, <1>27, <1>28

-----------------------------------------------------------------------------
\* The parser: its types, and what a change of its fields makes of it.
ParserStates == {"WAIT_MAGIC_0", "WAIT_MAGIC_1", "READ_FRAME"}
Parsers == [state : ParserStates, buffer : Seq(Bytes), expected_size : Nat]

Is(p, state, buffer, size) ==
  p \in Parsers /\ p.state = state /\ p.buffer = buffer /\ p.expected_size = size

LEMMA ParserUpdates ==
  ASSUME NEW p \in Parsers, NEW x \in ParserStates, NEW y \in Seq(Bytes), NEW z \in Nat
  PROVE  /\ Is([p EXCEPT !.state = x, !.buffer = y, !.expected_size = z], x, y, z)
         /\ Is([p EXCEPT !.state = x, !.buffer = y], x, y, p.expected_size)
         /\ Is([p EXCEPT !.buffer = y, !.expected_size = z], p.state, y, z)
         /\ Is([p EXCEPT !.buffer = y], p.state, y, p.expected_size)
BY DEF Is, Parsers

LEMMA SameParser ==
  ASSUME NEW p, NEW q, NEW x, NEW y, NEW z, Is(p, x, y, z), Is(q, x, y, z)
  PROVE  p = q
BY DEF Is, Parsers

\* The parser's state is one that bytes can lead to: nothing is kept before the
\* first magic byte, and from the header on the buffer is shorter than the frame
\* its length field announces, which fits the buffer.
ParserOk(p) ==
  /\ p \in Parsers
  /\ p.state = "WAIT_MAGIC_0" => Len(p.buffer) = 0
  /\ p.state = "WAIT_MAGIC_1" => Len(p.buffer) = 1
  /\ p.state = "READ_FRAME" => Len(p.buffer) >= 2
  /\ Len(p.buffer) < 12 => p.expected_size = 0
  /\ Len(p.buffer) >= 12 => /\ p.expected_size = 16 + read_u16_be(p.buffer, 11)
                            /\ Len(p.buffer) < p.expected_size
                            /\ p.expected_size <= MAX_FRAME_SIZE

LEMMA FrameSizes ==
  /\ MAX_FRAME_SIZE = 16 + MAX_PAYLOAD_SIZE /\ MAX_FRAME_SIZE \in Nat /\ MAX_FRAME_SIZE >= 20
  /\ MAX_PAYLOAD_SIZE \in Nat /\ HEADER_SIZE = 12 /\ CRC_SIZE = 4 /\ OFFSET.PAYLOAD_LENGTH = 11
BY PayloadSize DEF MAX_FRAME_SIZE, HEADER_SIZE, CRC_SIZE, OFFSET

LEMMA InitialParser ==
  Is(parser_init, "WAIT_MAGIC_0", << >>, 0) /\ ParserOk(parser_init)
<1>1. Is(parser_init, "WAIT_MAGIC_0", << >>, 0)
  BY DEF Is, Parsers, ParserStates, parser_init
<1>2. Len(<< >>) = 0 /\ 0 < 12 /\ ~(0 >= 12)
  OBVIOUS
<1> HIDE DEF parser_init
<1> QED BY <1>1, <1>2 DEF Is, ParserOk

LEMMA ReturnsToSync ==
  ASSUME NEW p \in Parsers
  PROVE  return_to_sync(p) = parser_init
<1>1. "WAIT_MAGIC_0" \in ParserStates /\ << >> \in Seq(Bytes) /\ 0 \in Nat
  BY DEF ParserStates
<1>2. Is(return_to_sync(p), "WAIT_MAGIC_0", << >>, 0)
  BY <1>1, ParserUpdates, Zenon DEF return_to_sync
<1> QED BY <1>2, InitialParser, SameParser, Zenon

LEMMA U16Read ==
  ASSUME NEW s \in Seq(Bytes), NEW i \in 1..Len(s), i + 1 \in 1..Len(s)
  PROVE  read_u16_be(s, i) \in Nat
<1>1. s[i] \in Bytes /\ s[i + 1] \in Bytes
  OBVIOUS
<1>a. \A v \in Bytes : v \in Nat
  BY DEF Bytes
<1>2. s[i] \in Nat /\ s[i + 1] \in Nat
  BY <1>1, <1>a, Zenon
<1>3. \A u, v \in Nat : 256 * u + v \in Nat
  OBVIOUS
<1> QED BY <1>2, <1>3, Zenon DEF read_u16_be

LEMMA Appended ==
  ASSUME NEW s \in Seq(Bytes), NEW byte \in Bytes
  PROVE  /\ Append(s, byte) \in Seq(Bytes) /\ Len(Append(s, byte)) = Len(s) + 1
         /\ \A i \in 1..Len(s) : Append(s, byte)[i] = s[i]
         /\ Append(s, byte)[Len(s) + 1] = byte
         /\ << byte >> \in Seq(Bytes) /\ Len(<< byte >>) = 1
OBVIOUS

LEMMA PushKeepsOk ==
  ASSUME NEW p, ParserOk(p), NEW byte \in Bytes
  PROVE  /\ ParserOk(push_byte(p, byte).parser)
         /\ \A f \in push_byte(p, byte).frames :
              \E b \in Seq(Bytes) : /\ protocol_decode(b).result = "OK"
                                    /\ f = protocol_decode(b).frame
                                    /\ Len(b) <= MAX_FRAME_SIZE
<1>0. p \in Parsers /\ p.buffer \in Seq(Bytes) /\ p.expected_size \in Nat /\ p.state \in ParserStates
  BY DEF ParserOk, Parsers
<1>a. return_to_sync(p) = parser_init /\ ParserOk(parser_init)
  BY <1>0, InitialParser, ReturnsToSync, Zenon
<1>b. "WAIT_MAGIC_1" \in ParserStates /\ "READ_FRAME" \in ParserStates
  BY DEF ParserStates
<1>c. << byte >> \in Seq(Bytes) /\ Len(<< byte >>) = 1
  BY <1>0, Appended, Zenon
<1>1. CASE p.state = "WAIT_MAGIC_0"
  <2>1. push_byte(p, byte) = push_magic_0(p, byte)
    BY <1>1 DEF push_byte
  <2>2. CASE byte = MAGIC_0
    <3> DEFINE r == [p EXCEPT !.state = "WAIT_MAGIC_1", !.buffer = << byte >>]
    <3>1. push_byte(p, byte).parser = r /\ push_byte(p, byte).frames = {}
      BY <2>1, <2>2 DEF push_magic_0, Push
    <3>a. p.expected_size = 0 /\ Len(<< byte >>) = 1
      BY <1>c, <1>1 DEF ParserOk
    <3>2. Is(r, "WAIT_MAGIC_1", << byte >>, 0)
      BY <1>0, <1>b, <1>c, <3>a, ParserUpdates, Zenon
    <3> HIDE DEF r
    <3>3. ParserOk(r)
      BY <3>2, <3>a DEF ParserOk, Is
    <3> QED BY <3>1, <3>3
  <2>3. CASE byte # MAGIC_0
    BY <2>1, <2>3 DEF push_magic_0, Push
  <2> QED BY <2>2, <2>3
<1>2. CASE p.state = "WAIT_MAGIC_1"
  <2>1. push_byte(p, byte) = push_magic_1(p, byte)
    BY <1>2 DEF push_byte
  <2>a. Len(p.buffer) = 1 /\ p.expected_size = 0 /\ p.buffer \in Seq(Bytes)
    <3>1. Len(p.buffer) = 1 /\ p.buffer \in Seq(Bytes)
      BY <1>2, Zenon, <1>0 DEF ParserOk
    <3>2. Len(p.buffer) < 12
      BY <3>1
    <3> QED BY <3>1, <3>2, Zenon DEF ParserOk
  <2>2. CASE byte = MAGIC_1
    <3> DEFINE r == [p EXCEPT !.state = "READ_FRAME", !.buffer = Append(@, byte)]
    <3>1. push_byte(p, byte).parser = r /\ push_byte(p, byte).frames = {}
      BY <2>1, <2>2 DEF push_magic_1, Push
    <3>b. Append(p.buffer, byte) \in Seq(Bytes) /\ Len(Append(p.buffer, byte)) = Len(p.buffer) + 1
      BY <2>a, Appended, Zenon
    <3>a. Append(p.buffer, byte) \in Seq(Bytes) /\ Len(Append(p.buffer, byte)) = 2
      BY <2>a, <3>b
    <3>2. Is(r, "READ_FRAME", Append(p.buffer, byte), 0)
      BY <1>0, <1>b, <2>a, <3>a, ParserUpdates, Zenon
    <3> HIDE DEF r
    <3>3. ParserOk(r)
      BY <3>2, <3>a DEF ParserOk, Is
    <3> QED BY <3>1, <3>3
  <2>3. CASE byte # MAGIC_1 /\ byte = MAGIC_0
    <3> DEFINE r == [p EXCEPT !.buffer = << byte >>]
    <3>1. push_byte(p, byte).parser = r /\ push_byte(p, byte).frames = {}
      BY <2>1, <2>3 DEF push_magic_1, Push
    <3>a. Len(<< byte >>) = 1
      BY <1>c
    <3>2. Is(r, "WAIT_MAGIC_1", << byte >>, 0)
      BY <1>0, <1>c, <1>2, <2>a, ParserUpdates, Zenon
    <3> HIDE DEF r
    <3>3. ParserOk(r)
      BY <3>2, <3>a DEF ParserOk, Is
    <3> QED BY <3>1, <3>3
  <2>4. CASE byte # MAGIC_1 /\ byte # MAGIC_0
    BY <1>a, <2>1, <2>4 DEF push_magic_1, Push
  <2> QED BY <2>2, <2>3, <2>4
<1>3. CASE p.state = "READ_FRAME"
  <2> DEFINE b == Append(p.buffer, byte)
             length == read_u16_be(b, 11)
             expected == IF Len(b) = 12 THEN 12 + length + 4 ELSE p.expected_size
             next == [p EXCEPT !.buffer = b, !.expected_size = expected]
             q == push_byte(p, byte)
  <2>1. /\ p.buffer \in Seq(Bytes) /\ p.expected_size \in Nat /\ Len(p.buffer) >= 2
        /\ Len(p.buffer) < 12 => p.expected_size = 0
        /\ Len(p.buffer) >= 12 => /\ p.expected_size = 16 + read_u16_be(p.buffer, 11)
                                  /\ Len(p.buffer) < p.expected_size
                                  /\ p.expected_size <= MAX_FRAME_SIZE
    BY <1>3 DEF ParserOk, Parsers
  <2>2. Len(p.buffer) < MAX_FRAME_SIZE /\ Len(p.buffer) \in Nat
    BY <2>1, FrameSizes
  <2>3. /\ b \in Seq(Bytes) /\ Len(b) = Len(p.buffer) + 1
        /\ \A i \in 1..Len(p.buffer) : b[i] = p.buffer[i]
    BY <1>0, Appended, Zenon
  <2> HIDE DEF b
  <2>4. Len(b) >= 12 => length \in Nat
    BY <2>3, U16Read
  <2>5. Len(p.buffer) >= 12 => length = read_u16_be(p.buffer, 11)
    BY <2>2, <2>3 DEF read_u16_be
  <2>6. /\ Is(next, "READ_FRAME", b, expected)
        /\ return_to_sync(next) = parser_init
    <3>1. expected \in Nat
      <4> HIDE DEF length
      <4>1. Len(b) = 12 => length \in Nat
        BY <2>4
      <4> QED BY <2>1, <4>1
    <3> HIDE DEF expected
    <3>2. Is(next, "READ_FRAME", b, expected)
      BY <1>0, <1>3, <2>3, <3>1, ParserUpdates, Zenon
    <3> HIDE DEF next
    <3> QED BY <3>2, ReturnsToSync, Zenon DEF Is
  <2>7. q = IF Len(p.buffer) >= MAX_FRAME_SIZE THEN Push(return_to_sync(p), "OVERSIZE", {})
            ELSE IF Len(b) = 12 /\ length > MAX_PAYLOAD_SIZE
              THEN Push(return_to_sync(next), "OVERSIZE", {})
            ELSE IF expected = 0 \/ Len(b) < expected THEN Push(next, "NO_FRAME", {})
            ELSE IF protocol_decode(b).result = "OK"
              THEN Push(return_to_sync(next), "FRAME_READY", {protocol_decode(b).frame})
            ELSE IF protocol_decode(b).result = "CRC" THEN Push(return_to_sync(next), "ERROR_CRC", {})
            ELSE Push(return_to_sync(next), "ERROR_PROTOCOL", {})
    <3>1. push_byte(p, byte) = push_frame_byte(p, byte)
      BY <1>3 DEF push_byte
    <3> QED BY <3>1, FrameSizes, Zenon DEF push_frame_byte, b
  <2> HIDE DEF q, next, length
  <2>8. CASE Len(b) = 12 /\ length > MAX_PAYLOAD_SIZE
    BY <2>2, <2>6, <2>7, <2>8, <1>a, FrameSizes DEF Push, q
  <2>9. CASE ~(Len(b) = 12 /\ length > MAX_PAYLOAD_SIZE) /\ (expected = 0 \/ Len(b) < expected)
    <3>1. q.parser = next /\ q.frames = {}
      BY <2>2, <2>7, <2>9, FrameSizes DEF Push
    <3>2. expected \in Nat /\ (Len(b) < 12 => expected = 0)
      BY <2>1, <2>2, <2>3, <2>4
    <3>3. Len(b) >= 12 => expected = 16 + length /\ Len(b) < expected /\ expected <= MAX_FRAME_SIZE
      BY <2>1, <2>2, <2>3, <2>4, <2>5, <2>9, FrameSizes, SMTT(20)
    <3> HIDE DEF expected
    <3>4. ParserOk(next)
      BY <2>1, <2>3, <2>6, <3>2, <3>3 DEF ParserOk, Is, length
    <3> QED BY <3>1, <3>4 DEF q
  <2>10. CASE ~(Len(b) = 12 /\ length > MAX_PAYLOAD_SIZE) /\ ~(expected = 0 \/ Len(b) < expected)
    <3>1. q.parser = parser_init
          /\ q.frames \subseteq {protocol_decode(b).frame}
          /\ (q.frames # {} => protocol_decode(b).result = "OK")
      BY <2>2, <2>6, <2>7, <2>10, FrameSizes DEF Push
    <3>2. Len(b) <= MAX_FRAME_SIZE
      BY <2>2, <2>3, FrameSizes
    <3> QED BY <1>a, <2>3, <3>1, <3>2, Zenon DEF q
  <2> QED BY <2>8, <2>9, <2>10
<1> QED BY <1>0, <1>1, <1>2, <1>3 DEF ParserStates, Parsers

-----------------------------------------------------------------------------
\* The parser p has read the first k bytes of b, and not the last one.
Fed(p, b, k) ==
  Is(p, IF k = 0 THEN "WAIT_MAGIC_0" ELSE IF k = 1 THEN "WAIT_MAGIC_1" ELSE "READ_FRAME",
     SubSeq(b, 1, k), IF k < 12 THEN 0 ELSE Len(b))

LEMMA Prefixes ==
  ASSUME NEW b \in Seq(Bytes), NEW k \in Nat, k < Len(b)
  PROVE  /\ SubSeq(b, 1, k) \in Seq(Bytes) /\ Len(SubSeq(b, 1, k)) = k /\ b[k + 1] \in Bytes
         /\ Append(SubSeq(b, 1, k), b[k + 1]) = SubSeq(b, 1, k + 1)
         /\ SubSeq(b, 1, k + 1) \in Seq(Bytes) /\ Len(SubSeq(b, 1, k + 1)) = k + 1
         /\ \A i \in 1..(k + 1) : SubSeq(b, 1, k + 1)[i] = b[i]
<1>1. SubSeq(b, 1, k) \in Seq(Bytes) /\ Len(SubSeq(b, 1, k)) = k /\ b[k + 1] \in Bytes
  OBVIOUS
<1>2. \A i \in 1..k : SubSeq(b, 1, k)[i] = b[i]
  OBVIOUS
<1>3. SubSeq(b, 1, k + 1) \in Seq(Bytes) /\ Len(SubSeq(b, 1, k + 1)) = k + 1
      /\ \A i \in 1..(k + 1) : SubSeq(b, 1, k + 1)[i] = b[i]
  OBVIOUS
<1> DEFINE u == SubSeq(b, 1, k)
           v == SubSeq(b, 1, k + 1)
           w == Append(u, b[k + 1])
<1>4. /\ w \in Seq(Bytes) /\ Len(w) = k + 1 /\ w[k + 1] = b[k + 1]
      /\ \A i \in 1..k : w[i] = b[i]
  <2> HIDE DEF u
  <2>1. u \in Seq(Bytes) /\ Len(u) = k /\ \A i \in 1..k : u[i] = b[i]
    BY <1>1, <1>2 DEF u
  <2> QED BY <1>1, <2>1
<1> HIDE DEF v, w
<1>5. \A i \in 1..(k + 1) : w[i] = v[i]
  <2>1. TAKE i \in 1..(k + 1)
  <2>2. i = k + 1 \/ i \in 1..k
    OBVIOUS
  <2> QED BY <1>3, <1>4, <2>2 DEF v
<1>6. w = v
  <2>1. v \in Seq(Bytes) /\ Len(v) = k + 1
    BY <1>3 DEF v
  <2> QED BY <1>4, <1>5, <2>1
<1> QED BY <1>1, <1>3, <1>6 DEF v, w, u

LEMMA WholeSequence ==
  ASSUME NEW b \in Seq(Bytes)
  PROVE  SubSeq(b, 1, Len(b)) = b
OBVIOUS

\* The bytes of an encoded frame lead the parser through the frame, and the last
\* one hands it over.
LEMMA FrameIsParsed ==
  ASSUME NEW f, Encodable(f), NEW p, NEW k \in Nat,
         k < Len(protocol_encode(f)), Fed(p, protocol_encode(f), k)
  PROVE  LET b == protocol_encode(f)
             r == push_byte(p, b[k + 1])
         IN /\ k + 1 < Len(b) =>
                 r.result = "NO_FRAME" /\ r.frames = {} /\ Fed(r.parser, b, k + 1)
            /\ k + 1 = Len(b) =>
                 r.result = "FRAME_READY" /\ r.frames = {f} /\ r.parser = parser_init
<1> DEFINE b == protocol_encode(f)
           n == Len(f.payload)
           r == push_byte(p, b[k + 1])
           c == SubSeq(b, 1, k + 1)
<1>1. /\ b \in Seq(Bytes) /\ Len(b) = 16 + n /\ b[1] = 71 /\ b[2] = 70 /\ read_u16_be(b, 11) = n
  BY EncodesAs, Zenon DEF FrameBytes
<1>2. n \in Nat /\ n <= MAX_PAYLOAD_SIZE
  BY DEF Encodable, LinkFrames
<1>3. protocol_decode(b) = [result |-> "OK", frame |-> f]
  BY ProtocolRoundTrip, Zenon
<1> HIDE DEF b, n
<1>4. k < Len(b) /\ Fed(p, b, k)
  BY DEF b
<1>5. /\ SubSeq(b, 1, k) \in Seq(Bytes) /\ Len(SubSeq(b, 1, k)) = k /\ b[k + 1] \in Bytes
      /\ Append(SubSeq(b, 1, k), b[k + 1]) = c
      /\ c \in Seq(Bytes) /\ Len(c) = k + 1
      /\ \A i \in 1..(k + 1) : c[i] = b[i]
  BY <1>1, <1>4, Prefixes, ZenonT(40)
<1>6. p \in Parsers /\ p.buffer = SubSeq(b, 1, k) /\ p.expected_size = (IF k < 12 THEN 0 ELSE Len(b))
  BY <1>4, Zenon DEF Fed, Is
<1>7. "WAIT_MAGIC_1" \in ParserStates /\ "READ_FRAME" \in ParserStates
  BY DEF ParserStates
<1> HIDE DEF c
<1>8. CASE k = 0
  <2>1. p.state = "WAIT_MAGIC_0" /\ p.expected_size = 0 /\ b[k + 1] = MAGIC_0 /\ k + 1 < Len(b)
    BY <1>1, <1>2, <1>4, <1>6, <1>8 DEF Fed, Is, MAGIC_0
  <2>2. c = << b[k + 1] >>
    BY <1>5, <1>8
  <2>3. r = Push([p EXCEPT !.state = "WAIT_MAGIC_1", !.buffer = << b[k + 1] >>], "NO_FRAME", {})
    BY <2>1, Zenon DEF push_byte, push_magic_0
  <2>4. Is([p EXCEPT !.state = "WAIT_MAGIC_1", !.buffer = c], "WAIT_MAGIC_1", c, 0)
    BY <1>5, <1>6, <1>7, <2>1, ParserUpdates, Zenon
  <2>5. r.result = "NO_FRAME" /\ r.frames = {}
        /\ r.parser = [p EXCEPT !.state = "WAIT_MAGIC_1", !.buffer = c]
    <3> HIDE DEF r
    <3>1. r = Push([p EXCEPT !.state = "WAIT_MAGIC_1", !.buffer = c], "NO_FRAME", {})
      BY <2>2, <2>3
    <3> QED BY <3>1, SMT DEF Push
  <2>6. Fed(r.parser, b, k + 1)
    <3>1. k + 1 # 0 /\ k + 1 = 1 /\ k + 1 < 12
      BY <1>8
    <3> QED BY <2>4, <2>5, <3>1, Zenon DEF Fed, c
  <2>7. k + 1 # Len(b)
    BY <2>1
  <2> QED BY <2>5, <2>6, <2>7 DEF b
<1>9. CASE k = 1
  <2>1. p.state = "WAIT_MAGIC_1" /\ p.expected_size = 0 /\ b[k + 1] = MAGIC_1 /\ k + 1 < Len(b)
    BY <1>1, <1>2, <1>4, <1>6, <1>9 DEF Fed, Is, MAGIC_1
  <2>2. "WAIT_MAGIC_1" # "WAIT_MAGIC_0"
    OBVIOUS
  <2>3. r = Push([p EXCEPT !.state = "READ_FRAME", !.buffer = Append(@, b[k + 1])], "NO_FRAME", {})
    BY <2>1, <2>2, Zenon DEF push_byte, push_magic_1
  <2>4. Is([p EXCEPT !.state = "READ_FRAME", !.buffer = c], "READ_FRAME", c, 0)
    BY <1>5, <1>6, <1>7, <2>1, ParserUpdates, Zenon
  <2>5. r.result = "NO_FRAME" /\ r.frames = {}
        /\ r.parser = [p EXCEPT !.state = "READ_FRAME", !.buffer = c]
    <3> HIDE DEF r
    <3>1. r = Push([p EXCEPT !.state = "READ_FRAME", !.buffer = c], "NO_FRAME", {})
      BY <1>5, <1>6, <2>3
    <3> QED BY <3>1, SMT DEF Push
  <2>6. Fed(r.parser, b, k + 1)
    <3>1. k + 1 # 0 /\ k + 1 # 1 /\ k + 1 < 12
      BY <1>9
    <3> QED BY <2>4, <2>5, <3>1, Zenon DEF Fed, c
  <2>7. k + 1 # Len(b)
    BY <2>1
  <2> QED BY <2>5, <2>6, <2>7 DEF b
<1>10. CASE k >= 2
  <2> DEFINE length == read_u16_be(c, 11)
             expected == IF Len(c) = 12 THEN 12 + length + 4 ELSE p.expected_size
             next == [p EXCEPT !.buffer = c, !.expected_size = expected]
  <2>1. p.state = "READ_FRAME"
    BY <1>4, <1>10 DEF Fed, Is
  <2>2. Len(c) >= 12 => length = n
    <3>1. Len(c) >= 12 => c[11] = b[11] /\ c[12] = b[12]
      BY <1>5
    <3> QED BY <1>1, <3>1 DEF read_u16_be
  <2>3. r = IF Len(p.buffer) >= MAX_FRAME_SIZE THEN Push(return_to_sync(p), "OVERSIZE", {})
            ELSE IF Len(c) = 12 /\ length > MAX_PAYLOAD_SIZE
              THEN Push(return_to_sync(next), "OVERSIZE", {})
            ELSE IF expected = 0 \/ Len(c) < expected THEN Push(next, "NO_FRAME", {})
            ELSE IF protocol_decode(c).result = "OK"
              THEN Push(return_to_sync(next), "FRAME_READY", {protocol_decode(c).frame})
            ELSE IF protocol_decode(c).result = "CRC" THEN Push(return_to_sync(next), "ERROR_CRC", {})
            ELSE Push(return_to_sync(next), "ERROR_PROTOCOL", {})
    <3>1. "READ_FRAME" # "WAIT_MAGIC_0" /\ "READ_FRAME" # "WAIT_MAGIC_1"
      OBVIOUS
    <3>2. push_byte(p, b[k + 1]) = push_frame_byte(p, b[k + 1])
      BY <2>1, <3>1, Zenon DEF push_byte
    <3>3. Append(p.buffer, b[k + 1]) = c
      BY <1>5, <1>6
    <3> QED BY <3>2, <3>3, FrameSizes, Zenon DEF push_frame_byte
  <2> HIDE DEF length
  <2>4. expected = IF k + 1 < 12 THEN 0 ELSE Len(b)
    BY <1>1, <1>2, <1>5, <1>6, <2>2
  <2>5. expected \in Nat
    BY <1>1, <1>2, <2>4
  <2> HIDE DEF expected
  <2>6. Is(next, "READ_FRAME", c, expected)
    <3>1. p \in Parsers /\ c \in Seq(Bytes)
      BY <1>5, <1>6
    <3> QED BY <2>1, <2>5, <3>1, <1>7, ParserUpdates, Zenon
  <2>7. /\ ~(Len(p.buffer) >= MAX_FRAME_SIZE)
        /\ ~(Len(c) = 12 /\ length > MAX_PAYLOAD_SIZE)
    BY <1>1, <1>2, <1>4, <1>5, <1>6, <2>2, FrameSizes
  <2>8. CASE k + 1 < Len(b)
    <3>1. expected = 0 \/ Len(c) < expected
      BY <1>5, <2>4, <2>8
    <3>2. r = Push(next, "NO_FRAME", {})
      BY <2>3, <2>7, <3>1, Zenon
    <3>3. r.result = "NO_FRAME" /\ r.frames = {} /\ r.parser = next
      <4> HIDE DEF r, next
      <4> QED BY <3>2, SMT DEF Push
    <3>4. k + 1 # 0 /\ k + 1 # 1
      BY <1>10
    <3>5. Fed(r.parser, b, k + 1)
      BY <2>4, <2>6, <3>3, <3>4, Zenon DEF Fed, c
    <3>6. k + 1 # Len(b)
      BY <2>8
    <3> QED BY <3>3, <3>5, <3>6 DEF b
  <2>9. CASE k + 1 = Len(b)
    <3>1. ~(expected = 0 \/ Len(c) < expected)
      BY <1>1, <1>2, <1>5, <2>4, <2>9
    <3>2. c = b
      BY <1>1, <2>9, WholeSequence, Zenon DEF c
    <3>3. protocol_decode(c).result = "OK" /\ protocol_decode(c).frame = f
      BY <1>3, <3>2
    <3>4. return_to_sync(next) = parser_init
      BY <2>6, ReturnsToSync, Zenon DEF Is
    <3>5. r = Push(parser_init, "FRAME_READY", {f})
      BY <2>3, <2>7, <3>1, <3>3, <3>4, Zenon
    <3>6. r.result = "FRAME_READY" /\ r.frames = {f} /\ r.parser = parser_init
      <4> HIDE DEF r
      <4> QED BY <3>5, SMT DEF Push
    <3>7. ~(k + 1 < Len(b))
      BY <2>9
    <3> QED BY <3>6, <3>7 DEF b
  <2> QED BY <1>1, <1>2, <1>4, <2>8, <2>9
<1> QED BY <1>8, <1>9, <1>10

-----------------------------------------------------------------------------
\* An answer to request q: its command, its number, and at most four bytes.
AnswerTo(a, q) ==
  /\ a \in LinkFrames /\ a.type \in 1..5
  /\ a.command = q.command /\ a.sequence = q.sequence /\ Len(a.payload) <= 4

LEMMA ResponseAnswers ==
  ASSUME NEW q, Encodable(q), NEW s \in Seq(Bytes), Len(s) <= 4
  PROVE  AnswerTo(make_response(q, s), q)
<1>1. q.command \in Bytes /\ q.sequence \in Nat
  BY DEF Encodable, LinkFrames
<1>2. MESSAGE.RESPONSE = 2 /\ 2 \in Bytes /\ SUPPORTED_FLAGS = 0
  BY DEF MESSAGE, Bytes, SUPPORTED_FLAGS
<1> QED BY <1>1, <1>2 DEF make_response, AnswerTo, LinkFrames

LEMMA ErrorAnswers ==
  ASSUME NEW q, Encodable(q), NEW code \in Bytes
  PROVE  AnswerTo(make_error(q, code), q)
<1>1. q.command \in Bytes /\ q.sequence \in Nat
  BY DEF Encodable, LinkFrames
<1>2. MESSAGE.ERROR = 4 /\ 4 \in Bytes /\ SUPPORTED_FLAGS = 0
  BY DEF MESSAGE, Bytes, SUPPORTED_FLAGS
<1>3. << code >> \in Seq(Bytes) /\ Len(<< code >>) <= 4
  OBVIOUS
<1> QED BY <1>1, <1>2, <1>3 DEF make_error, AnswerTo, LinkFrames

LEMMA ErrorBytes ==
  /\ ERROR.MALFORMED_FRAME \in Bytes /\ ERROR.UNKNOWN_COMMAND \in Bytes
  /\ ERROR.INVALID_PAYLOAD \in Bytes /\ ERROR.INTERNAL \in Bytes /\ ERROR.BUSY \in Bytes
  /\ ERROR.UNAUTHORIZED \in Bytes /\ ERROR.REPLAY_DETECTED \in Bytes
  /\ ERROR.SIGNATURE_INVALID \in Bytes /\ ERROR.ROLLBACK_BLOCKED \in Bytes
  /\ ERROR.UPDATE_FAILED \in Bytes
BY DEF ERROR, Bytes

LEMMA ResultBytes ==
  ASSUME NEW r
  PROVE  security_error(r) \in Bytes /\ firmware_error(r) \in Bytes
BY ErrorBytes DEF security_error, firmware_error

LEMMA ServiceAnswers ==
  ASSUME NEW q, Encodable(q), NEW state \in DEVICE_STATES
  PROVE  AnswerTo(service_handle(q, state), q)
<1>1. /\ << 80, 79, 78, 71 >> \in Seq(Bytes) /\ Len(<< 80, 79, 78, 71 >>) <= 4
  BY DEF Bytes
<1>2. /\ << DEVICE_PAYLOAD_SCHEMA_VERSION, 1, 77 >> \in Seq(Bytes)
      /\ Len(<< DEVICE_PAYLOAD_SCHEMA_VERSION, 1, 77 >>) <= 4
  BY DEF Bytes, DEVICE_PAYLOAD_SCHEMA_VERSION
<1>3. /\ << DEVICE_PAYLOAD_SCHEMA_VERSION, state >> \in Seq(Bytes)
      /\ Len(<< DEVICE_PAYLOAD_SCHEMA_VERSION, state >>) <= 4
  BY DEF Bytes, DEVICE_PAYLOAD_SCHEMA_VERSION, DEVICE_STATES
<1>4. AnswerTo(handle_ping(q), q)
  BY <1>1, ResponseAnswers DEF handle_ping
<1>5. AnswerTo(handle_info(q), q)
  BY <1>2, ResponseAnswers DEF handle_info
<1>6. AnswerTo(handle_status(q, state), q)
  BY <1>3, ResponseAnswers DEF handle_status
<1> QED BY <1>4, <1>5, <1>6, ErrorAnswers, ErrorBytes, Zenon DEF service_handle

LEMMA TelemetryAnswers ==
  ASSUME NEW t, DOMAIN t = TelemetryFields, t = [x \in TelemetryFields |-> t[x]],
         NEW q, Encodable(q)
  PROVE  AnswerTo(telemetry_handle_request(t, q), q)
<1> DEFINE errors == telemetry_request_error(q)
<1>1. CASE errors # {}
  <2>1. errors \subseteq Bytes
    BY ErrorBytes DEF telemetry_request_error
  <2> HIDE DEF errors
  <2>2. (CHOOSE e \in errors : TRUE) \in Bytes
    <3>1. \E e \in errors : TRUE
      BY <1>1, Zenon
    <3>2. (CHOOSE e \in errors : TRUE) \in errors
      BY <3>1, Zenon
    <3> QED BY <2>1, <3>2, Zenon
  <2>3. telemetry_handle_request(t, q) = make_error(q, CHOOSE e \in errors : TRUE)
    BY <1>1, Zenon DEF telemetry_handle_request, errors
  <2> QED BY <2>2, <2>3, ErrorAnswers, Zenon
<1>2. CASE errors = {}
  <2> DEFINE u == telemetry_configured(t, q)
             s == << TELEMETRY_SCHEMA_VERSION, u.enabled >> \o write_u16_be(u.period_ms)
  <2>1. telemetry_handle_request(t, q) = make_response(q, s)
    BY <1>2, Zenon DEF telemetry_handle_request, telemetry_config_response
  <2>2. Len(q.payload) = 4 /\ q.payload \in Seq(Bytes)
    <3>1. Len(q.payload) = 4
      BY <1>2 DEF telemetry_request_error
    <3> QED BY <3>1 DEF Encodable, LinkFrames
  <2>3. u.enabled = q.payload[2] /\ u.period_ms = read_u16_be(q.payload, 3)
    <3> HIDE DEF errors
    <3>1. u = [t EXCEPT !.enabled = q.payload[2],
                        !.period_ms = read_u16_be(q.payload, 3), !.elapsed_ms = 0]
      BY <1>2, Zenon DEF telemetry_configured, errors
    <3> HIDE DEF u
    <3> QED BY <3>1 DEF TelemetryFields
  <2> HIDE DEF u
  <2>4. u.enabled \in Bytes
    BY <2>2, <2>3
  <2>5. u.period_ms \in Nat
    <3>1. 3 \in 1..Len(q.payload) /\ 3 + 1 \in 1..Len(q.payload)
      BY <2>2
    <3> QED BY <2>2, <2>3, <3>1, U16Read, Zenon
  <2>6. write_u16_be(u.period_ms) \in Seq(Bytes) /\ Len(write_u16_be(u.period_ms)) = 2
    <3>1. (u.period_ms \div 256) % 256 \in 0..255 /\ u.period_ms % 256 \in 0..255
      BY <2>5
    <3> QED BY <3>1 DEF write_u16_be, Bytes
  <2>7. << TELEMETRY_SCHEMA_VERSION, u.enabled >> \in Seq(Bytes)
        /\ Len(<< TELEMETRY_SCHEMA_VERSION, u.enabled >>) = 2
    <3>1. TELEMETRY_SCHEMA_VERSION \in Bytes
      BY DEF TELEMETRY_SCHEMA_VERSION, Bytes
    <3> QED BY <2>4, <3>1
  <2>8. s \in Seq(Bytes) /\ Len(s) = 2 + 2
    <3>1. 2 \in Nat
      OBVIOUS
    <3>2. Joins(s, << TELEMETRY_SCHEMA_VERSION, u.enabled >>, write_u16_be(u.period_ms), 2, 2, Bytes)
      BY <2>6, <2>7, <3>1, Joined, Zenon
    <3> QED BY <3>2, Zenon DEF Joins
  <2> HIDE DEF s
  <2>9. Len(s) <= 4
    BY <2>8
  <2> QED BY <2>1, <2>8, <2>9, ResponseAnswers, Zenon
<1> QED BY <1>1, <1>2

LEMMA DispatchAnswers ==
  ASSUME NEW t, DOMAIN t = TelemetryFields, t = [x \in TelemetryFields |-> t[x]],
         NEW q, Encodable(q), NEW state \in DEVICE_STATES, NEW a \in dispatch(t, q, state)
  PROVE  AnswerTo(a, q)
<1>1. << >> \in Seq(Bytes) /\ Len(<< >>) <= 4 /\ << 1 >> \in Seq(Bytes) /\ Len(<< 1 >>) <= 4
  BY DEF Bytes
<1>2. AnswerTo(make_response(q, << >>), q) /\ AnswerTo(make_response(q, << 1 >>), q)
  BY <1>1, ResponseAnswers, Zenon
<1>3. \A x \in security_answers(q) : AnswerTo(x, q)
  BY <1>2, ErrorAnswers, ResultBytes, Zenon DEF security_answers
<1>4. \A x \in dispatch_firmware(q) : AnswerTo(x, q)
  BY <1>2, ErrorAnswers, ResultBytes, Zenon DEF dispatch_firmware
<1>5. \A x \in component_handle(q) : AnswerTo(x, q)
  <2>1. \A x \in {make_response(q, << 1 >>)} : AnswerTo(x, q)
    BY <1>2, Zenon
  <2>2. \A e \in {ERROR.MALFORMED_FRAME, ERROR.INVALID_PAYLOAD, ERROR.BUSY, ERROR.INTERNAL} :
          AnswerTo(make_error(q, e), q)
    BY ErrorAnswers, ErrorBytes, Zenon
  <2> QED BY <2>1, <2>2, Zenon DEF component_handle
<1>6. \A x \in status_answers(q) : AnswerTo(x, q)
  BY <1>2, ErrorAnswers, ErrorBytes, Zenon DEF status_answers
<1>7. \A x \in dispatch_privileged(q) : AnswerTo(x, q)
  BY <1>4, <1>5, ErrorAnswers, ErrorBytes, Zenon DEF dispatch_privileged
<1>8. AnswerTo(service_handle(q, state), q) /\ AnswerTo(telemetry_handle_request(t, q), q)
  BY ServiceAnswers, TelemetryAnswers, Zenon
<1>9. AnswerTo(make_error(q, ERROR.UNAUTHORIZED), q)
  BY ErrorAnswers, ErrorBytes, Zenon
<1> QED BY <1>3, <1>5, <1>6, <1>7, <1>8, <1>9, SMT DEF dispatch

\* Such an answer is sent, and the host that waits for it takes it.
LEMMA AnswerIsHeard ==
  ASSUME NEW a, NEW q, Encodable(q), AnswerTo(a, q)
  PROVE  /\ Encodable(a)
         /\ transmit_error(a, TRUE) = {}
<1>1. Encodable(a)
  BY PayloadSize DEF AnswerTo, Encodable, LinkFrames
<1>2. protocol_encode_result(a, MAX_FRAME_SIZE) = "OK"
  <2>1. a.type \in 1..5 /\ a.flags = 0 /\ Len(a.payload) \in Nat /\ Len(a.payload) <= MAX_PAYLOAD_SIZE
    BY <1>1 DEF Encodable, LinkFrames
  <2>2. message_type_is_valid(a.type)
    BY <2>1 DEF message_type_is_valid, MESSAGE
  <2>3. a.flags = SUPPORTED_FLAGS
    BY <2>1 DEF SUPPORTED_FLAGS
  <2>4. ~(Len(a.payload) > MAX_PAYLOAD_SIZE)
        /\ ~(MAX_FRAME_SIZE < HEADER_SIZE + Len(a.payload) + CRC_SIZE)
    BY <2>1, FrameSizes
  <2> QED BY <2>2, <2>3, <2>4, Zenon DEF protocol_encode_result
<1> QED BY <1>1, <1>2, Zenon DEF transmit_error

-----------------------------------------------------------------------------
Hosts == [made : Nat, pending : LinkFrames, frame : Seq(Bytes)]

\* The invariant of the line, whatever arrives on it.
LineInv ==
  /\ ParserOk(parser)
  /\ line \in Seq(Bytes)
  /\ host \in Hosts /\ host.made <= MaxRequests
  /\ \A r \in dispatched : Encodable(r)

LEMMA NoRequestTyped == NoRequest \in LinkFrames /\ NoRequest.type = 0
BY DEF NoRequest, LinkFrames, Bytes

\* A request the host makes.
LEMMA RequestIsEncodable ==
  ASSUME NEW r \in Requests, NEW made \in Nat, made < MaxRequests, NEW f,
         f = [type |-> r.type, command |-> r.command, flags |-> SUPPORTED_FLAGS,
              sequence |-> made + 1, payload |-> r.payload],
         protocol_encode_result(f, MAX_FRAME_SIZE) = "OK"
  PROVE  Encodable(f)
<1>1. r.type \in Bytes /\ r.command \in Bytes /\ r.payload \in Seq(Bytes)
  <2>1. r \in [type : Bytes, command : Bytes, payload : Seq(Bytes)]
    BY RequestAssumption, Zenon DEF Bytes
  <2> QED BY <2>1
<1>2. message_type_is_valid(f.type) /\ ~(Len(f.payload) > MAX_PAYLOAD_SIZE)
  BY DEF protocol_encode_result
<1>3. f \in LinkFrames /\ f.type = r.type /\ f.sequence = made + 1 /\ f.payload = r.payload
  BY <1>1 DEF LinkFrames, SUPPORTED_FLAGS
<1>4. f.type \in 1..5
  BY <1>2, <1>3 DEF message_type_is_valid, MESSAGE
<1>5. IsU32(made + 1)
  <2>1. 2^16 = 65536
    OBVIOUS
  <2>2. MaxRequests \in Nat /\ MaxRequests \div 2^16 < 2^16
    BY RequestAssumption, Zenon
  <2> QED BY <2>1, <2>2 DEF IsU32
<1>6. Len(f.payload) <= MAX_PAYLOAD_SIZE
  BY <1>1, <1>2, <1>3, PayloadSize
<1> QED BY <1>3, <1>4, <1>5, <1>6 DEF Encodable

LEMMA FlippedByte ==
  ASSUME NEW byte \in Bytes, NEW k \in FlipBits
  PROVE  FlipBit(byte, k) \in Bytes
<1>1. k = 0 \/ k = 1 \/ k = 2 \/ k = 3 \/ k = 4 \/ k = 5 \/ k = 6 \/ k = 7
  <2>1. k \in 0..7
    BY RequestAssumption, Zenon
  <2> QED BY <2>1
<1>2. /\ 2^0 = 1 /\ 2^1 = 2 /\ 2^2 = 4 /\ 2^3 = 8 /\ 2^4 = 16 /\ 2^5 = 32 /\ 2^6 = 64
      /\ 2^7 = 128
  OBVIOUS
<1>3. byte \in 0..255
  BY DEF Bytes
<1>4. \A d \in {1, 2, 4, 8, 16, 32, 64, 128} :
        IF (byte \div d) % 2 = 1 THEN byte - d \in 0..255 ELSE byte + d \in 0..255
  <2>1. TAKE d \in {1, 2, 4, 8, 16, 32, 64, 128}
  <2>2. d = 1 \/ d = 2 \/ d = 4 \/ d = 8 \/ d = 16 \/ d = 32 \/ d = 64 \/ d = 128
    OBVIOUS
  <2> QED BY <1>3, <2>2
<1>5. 2^k \in {1, 2, 4, 8, 16, 32, 64, 128}
  <2>1. CASE k = 0
    BY <1>2, <2>1, Zenon
  <2>2. CASE k = 1
    BY <1>2, <2>2, Zenon
  <2>3. CASE k = 2
    BY <1>2, <2>3, Zenon
  <2>4. CASE k = 3
    BY <1>2, <2>4, Zenon
  <2>5. CASE k = 4
    BY <1>2, <2>5, Zenon
  <2>6. CASE k = 5
    BY <1>2, <2>6, Zenon
  <2>7. CASE k = 6
    BY <1>2, <2>7, Zenon
  <2>8. CASE k = 7
    BY <1>2, <2>8, Zenon
  <2> QED BY <1>1, <2>1, <2>2, <2>3, <2>4, <2>5, <2>6, <2>7, <2>8, Zenon
<1> DEFINE d == 2^k
<1> HIDE DEF d
<1>6. IF (byte \div d) % 2 = 1 THEN byte - d \in 0..255 ELSE byte + d \in 0..255
  BY <1>4, <1>5 DEF d
<1> QED BY <1>6 DEF FlipBit, Bytes, d

\* The host when it has its answer.
Answered(h) == [h EXCEPT !.pending = NoRequest, !.frame = << >>]

LEMMA AnsweredHost ==
  ASSUME NEW h \in Hosts
  PROVE  Answered(h) \in Hosts /\ Answered(h).made = h.made /\ Answered(h).pending = NoRequest
<1>1. << >> \in Seq(Bytes)
  OBVIOUS
<1> QED BY <1>1, NoRequestTyped DEF Hosts, Answered

LEMMA HearingTyped ==
  ASSUME host \in Hosts, host.made <= MaxRequests, NEW a
  PROVE  HostHears(a) \in Hosts /\ HostHears(a).made <= MaxRequests
<1>1. HostHears(a) = host \/ HostHears(a) = Answered(host)
  BY Zenon DEF HostHears, Answered
<1>2. Answered(host) \in Hosts /\ Answered(host).made = host.made
  BY AnsweredHost, Zenon
<1> QED BY <1>1, <1>2

LEMMA LineStarts == LinkInit => LineInv
<1> SUFFICES ASSUME LinkInit PROVE LineInv
  OBVIOUS
<1>1. host = [made |-> 0, pending |-> NoRequest, frame |-> << >>] /\ parser = parser_init /\ line = << >>
  BY DEF LinkInit
<1>2. host \in Hosts /\ host.made = 0
  BY <1>1, NoRequestTyped DEF Hosts
<1>3. 0 <= MaxRequests
  BY RequestAssumption
<1>4. line \in Seq(Bytes)
  BY <1>1
<1>5. dispatched = {} /\ host.made <= MaxRequests
  BY <1>2, <1>3 DEF LinkInit
<1> QED BY <1>1, <1>2, <1>3, <1>4, <1>5, InitialParser, Zenon DEF LineInv

LEMMA LineSteps == LineInv /\ [LinkNext]_linkVars => LineInv'
<1> SUFFICES ASSUME LineInv, [LinkNext]_linkVars PROVE LineInv'
  OBVIOUS
<1>0. /\ ParserOk(parser) /\ line \in Seq(Bytes) /\ host \in Hosts /\ host.made <= MaxRequests
      /\ host.made \in Nat /\ host.frame \in Seq(Bytes) /\ MaxRequests \in Nat
  BY RequestAssumption DEF LineInv, Hosts
<1>1. CASE UNCHANGED << line, parser, host, dispatched >>
  BY <1>1, Zenon DEF LineInv
<1>2. CASE HostRequest
  <2>1. PICK r \in Requests :
          LET f == [type |-> r.type, command |-> r.command, flags |-> SUPPORTED_FLAGS,
                    sequence |-> host.made + 1, payload |-> r.payload]
          IN /\ protocol_encode_result(f, MAX_FRAME_SIZE) = "OK"
             /\ host' = [made |-> host.made + 1, pending |-> f, frame |-> protocol_encode(f)]
             /\ line' = host'.frame
    BY <1>2, Zenon DEF HostRequest
  <2> DEFINE f == [type |-> r.type, command |-> r.command, flags |-> SUPPORTED_FLAGS,
                   sequence |-> host.made + 1, payload |-> r.payload]
             b == protocol_encode(f)
  <2>2. host.made < MaxRequests /\ UNCHANGED << parser, dispatched >>
    BY <1>2, Zenon DEF HostRequest
  <2>3. Encodable(f)
    BY <1>0, <2>1, <2>2, RequestIsEncodable, Zenon
  <2>4. b \in Seq(Bytes)
    BY <2>3, EncodesAs, Zenon DEF FrameBytes
  <2>5. f \in LinkFrames
    BY <2>3, Zenon DEF Encodable
  <2>6. host' = [made |-> host.made + 1, pending |-> f, frame |-> b] /\ line' = host'.frame
    BY <2>1, Zenon
  <2> HIDE DEF f, b
  <2>7. host' \in Hosts /\ host'.made <= MaxRequests /\ line' \in Seq(Bytes)
    BY <1>0, <2>2, <2>4, <2>5, <2>6 DEF Hosts
  <2> QED BY <1>0, <2>2, <2>7 DEF LineInv
<1>3. CASE HostRetry
  BY <1>0, <1>3 DEF HostRetry, LineInv
<1>4. CASE LineFault
  <2>1. line # << >> /\ UNCHANGED << parser, host, dispatched >>
    BY <1>4, Zenon DEF LineFault
  <2>2. /\ Head(line) \in Bytes /\ Tail(line) \in Seq(Bytes)
        /\ << Head(line) >> \in Seq(Bytes)
        /\ \A x \in Bytes : << x >> \in Seq(Bytes)
    BY <1>0, <2>1
  <2>3. \A u, v \in Seq(Bytes) : u \o v \in Seq(Bytes)
    OBVIOUS
  <2>4. line' \in Seq(Bytes)
    <3>1. CASE \E k \in FlipBits : line' = << FlipBit(Head(line), k) >> \o Tail(line)
      <4>1. PICK k \in FlipBits : line' = << FlipBit(Head(line), k) >> \o Tail(line)
        BY <3>1, Zenon
      <4>2. FlipBit(Head(line), k) \in Bytes
        BY <2>2, FlippedByte, Zenon
      <4> QED BY <2>2, <2>3, <4>1, <4>2, Zenon
    <3>2. CASE line' = Tail(line)
      BY <2>2, <3>2, Zenon
    <3>3. CASE line' = << Head(line) >> \o line
      BY <1>0, <2>2, <2>3, <3>3, Zenon
    <3> QED BY <1>4, <3>1, <3>2, <3>3, Zenon DEF LineFault
  <2> QED BY <1>0, <2>1, <2>4 DEF LineInv
<1>5. CASE PollByte
  <2>1. line # << >> /\ line' = Tail(line) /\ parser' = push_byte(parser, Head(line)).parser
    BY <1>5, Zenon DEF PollByte, TakeByte
  <2>2. Head(line) \in Bytes /\ line' \in Seq(Bytes)
    BY <1>0, <2>1
  <2>3. ParserOk(parser')
    BY <1>0, <2>1, <2>2, PushKeepsOk, Zenon
  <2>4. host' = host \/ \E a : host' = HostHears(a)
    BY <1>5 DEF PollByte
  <2>5. host' \in Hosts /\ host'.made <= MaxRequests
    BY <1>0, <2>4, HearingTyped, Zenon
  <2>6. dispatched' = dispatched
        \/ \E request \in push_byte(parser, Head(line)).frames :
             dispatched' = dispatched \cup {request}
    BY <1>5 DEF PollByte
  <2>7. \A request \in push_byte(parser, Head(line)).frames : Encodable(request)
    <3>1. TAKE request \in push_byte(parser, Head(line)).frames
    <3>2. PICK b \in Seq(Bytes) : /\ protocol_decode(b).result = "OK"
                                  /\ request = protocol_decode(b).frame
      BY <1>0, <2>2, PushKeepsOk, Zenon
    <3> QED BY <3>2, DecodesOnlyEncodings, Zenon
  <2>8. \A r \in dispatched' : Encodable(r)
    BY <2>6, <2>7, Zenon DEF LineInv
  <2> QED BY <2>2, <2>3, <2>5, <2>8, Zenon DEF LineInv
<1>6. CASE PollTelemetry \/ LinkTick
  BY <1>1, <1>6 DEF PollTelemetry, LinkTick
<1>7. CASE UNCHANGED linkVars
  BY <1>1, <1>7 DEF linkVars
<1> QED BY <1>2, <1>3, <1>4, <1>5, <1>6, <1>7 DEF LinkNext

\* The byte that the parser writes next is inside its buffer, and the frame it
\* expects fits.
ParserInBounds ==
  Len(parser.buffer) < MAX_FRAME_SIZE /\ parser.expected_size <= MAX_FRAME_SIZE

\* Whatever arrives, the parser stays within its buffer: the test for a full
\* buffer is never true (push_frame_byte, guardian_parser_push_byte).
THEOREM ParserStaysInBounds == SerialSpec => []ParserInBounds
<1>1. LineInv => ParserInBounds
  <2> SUFFICES ASSUME LineInv PROVE ParserInBounds
    OBVIOUS
  <2>1. /\ parser.buffer \in Seq(Bytes) /\ parser.expected_size \in Nat
        /\ Len(parser.buffer) < 12 => parser.expected_size = 0
        /\ Len(parser.buffer) >= 12 => /\ Len(parser.buffer) < parser.expected_size
                                       /\ parser.expected_size <= MAX_FRAME_SIZE
    BY DEF LineInv, ParserOk, Parsers
  <2> QED BY <2>1, FrameSizes DEF ParserInBounds
<1> QED
  BY <1>1, LineStarts, LineSteps, LayersTakeTheirSteps, PTL DEF SerialSpec, SerialInit

\* Every request the device acted on is one that guardian_protocol_encode accepts.
OnlyFrames == \A r \in dispatched : Encodable(r)

\* Whatever the line loses, changes or repeats, the device acts only on a request
\* that a whole frame encodes: with DecodesOnlyEncodings, no other bytes than
\* that frame's lead to it (guardian_embedded_link_poll).
THEOREM ActsOnFramesOnly == SerialSpec => []OnlyFrames
<1>1. LineInv => OnlyFrames
  BY DEF LineInv, OnlyFrames
<1> QED
  BY <1>1, LineStarts, LineSteps, LayersTakeTheirSteps, PTL DEF SerialSpec, SerialInit

-----------------------------------------------------------------------------
(* The line that loses and changes nothing.                                *)

\* Request r is one the host made, with one of its first numbers.
MadeBy(r, made) ==
  /\ r.sequence \in 1 .. made
  /\ \E q \in Requests : q.type = r.type /\ q.command = r.command /\ q.payload = r.payload

\* The device has read k bytes of b, the rest is on the line.
Underway(b, k) == k < Len(b) /\ Fed(parser, b, k) /\ line = SubSeq(b, k + 1, Len(b))

\* No request waits for an answer that will not come: while the host waits, part
\* of its frame is still on the line.
AnsweredAtOnce == line = << >> => host.pending = NoRequest

\* The invariant of a line that loses and changes nothing.
QuietInv ==
  /\ faults = 0
  /\ host.pending = NoRequest => line = << >> /\ parser = parser_init
  /\ host.pending # NoRequest =>
       /\ Encodable(host.pending) /\ MadeBy(host.pending, host.made)
       /\ \E k \in Nat : Underway(protocol_encode(host.pending), k)
  /\ \A r \in dispatched : MadeBy(r, host.made)

LEMMA Suffixes ==
  ASSUME NEW b \in Seq(Bytes), NEW k \in Nat, k < Len(b)
  PROVE  LET s == SubSeq(b, k + 1, Len(b))
         IN /\ s # << >> /\ Head(s) = b[k + 1]
            /\ k + 1 < Len(b) => Tail(s) = SubSeq(b, (k + 1) + 1, Len(b))
            /\ k + 1 = Len(b) => Tail(s) = << >>
<1> DEFINE s == SubSeq(b, k + 1, Len(b))
<1>1. /\ s \in Seq(Bytes) /\ Len(s) = Len(b) - k
      /\ \A i \in 1..(Len(b) - k) : s[i] = b[k + i]
  OBVIOUS
<1> DEFINE t == SubSeq(b, (k + 1) + 1, Len(b))
<1>2. k + 1 < Len(b) => /\ t \in Seq(Bytes) /\ Len(t) = Len(b) - k - 1
                        /\ \A i \in 1..(Len(b) - k - 1) : t[i] = b[k + 1 + i]
  OBVIOUS
<1> HIDE DEF s, t
<1>3. s # << >> /\ Head(s) = b[k + 1]
  BY <1>1
<1>4. /\ Tail(s) \in Seq(Bytes) /\ Len(Tail(s)) = Len(b) - k - 1
      /\ \A i \in 1..(Len(b) - k - 1) : Tail(s)[i] = s[i + 1]
  BY <1>1, <1>3
<1>5. ASSUME k + 1 < Len(b) PROVE Tail(s) = t
  <2>1. \A i \in 1..(Len(b) - k - 1) : Tail(s)[i] = t[i]
    <3>1. TAKE i \in 1..(Len(b) - k - 1)
    <3>2. i + 1 \in 1..(Len(b) - k) /\ k + (i + 1) = k + 1 + i
      OBVIOUS
    <3> QED BY <1>1, <1>2, <1>4, <1>5, <3>2
  <2> QED BY <1>2, <1>4, <1>5, <2>1, SMTT(20)
<1>6. ASSUME k + 1 = Len(b) PROVE Tail(s) = << >>
  BY <1>4, <1>6
<1> QED BY <1>3, <1>5, <1>6 DEF s, t

LEMMA MadeBefore ==
  ASSUME NEW r, NEW m \in Nat, NEW n \in Nat, m <= n, MadeBy(r, m)
  PROVE  MadeBy(r, n)
BY DEF MadeBy

LEMMA QuietStarts == LinkInit => QuietInv
<1> SUFFICES ASSUME LinkInit PROVE QuietInv
  OBVIOUS
<1>1. host = [made |-> 0, pending |-> NoRequest, frame |-> << >>] /\ parser = parser_init
      /\ line = << >> /\ faults = 0 /\ dispatched = {}
  BY DEF LinkInit
<1>2. host.pending = NoRequest
  BY <1>1
<1> QED BY <1>1, <1>2, Zenon DEF QuietInv

\* The host hears the answer it waits for.
LEMMA HeardAnswer ==
  ASSUME host \in Hosts, NEW a, Encodable(a), AnswerTo(a, host.pending)
  PROVE  HostHears(a).pending = NoRequest /\ HostHears(a).made = host.made
<1>1. protocol_decode(protocol_encode(a)) = [result |-> "OK", frame |-> a]
  BY ProtocolRoundTrip, Zenon
<1> DEFINE d == protocol_decode(protocol_encode(a))
<1> HIDE DEF d
<1>2. d.result = "OK" /\ d.frame = a
  BY <1>1 DEF d
<1>3. HostHears(a) = Answered(host)
  BY <1>2, Zenon DEF HostHears, d, AnswerTo, Answered
<1>4. Answered(host).pending = NoRequest /\ Answered(host).made = host.made
  BY AnsweredHost, Zenon
<1> QED BY <1>3, <1>4

LEMMA QuietPoll ==
  ASSUME MaxFaults = 0, LineInv, QuietInv, PollByte,
         DOMAIN telemetry = TelemetryFields, telemetry = [x \in TelemetryFields |-> telemetry[x]]
  PROVE  QuietInv'
<1> DEFINE q == host.pending
           b == protocol_encode(q)
           pushed == push_byte(parser, Head(line))
<1>1. line # << >> /\ line' = Tail(line) /\ parser' = pushed.parser
  BY Zenon DEF PollByte, TakeByte
<1>2. /\ faults = 0 /\ q # NoRequest /\ Encodable(q) /\ MadeBy(q, host.made)
      /\ \A r \in dispatched : MadeBy(r, host.made)
  BY <1>1, Zenon DEF QuietInv
<1>3. PICK k \in Nat : Underway(b, k)
  BY <1>2, Zenon DEF QuietInv
<1>4. b \in Seq(Bytes)
  BY <1>2, EncodesAs, Zenon DEF FrameBytes
<1>5. k < Len(b) /\ Fed(parser, b, k) /\ line = SubSeq(b, k + 1, Len(b))
  BY <1>3, Zenon DEF Underway
<1>6. /\ Head(line) = b[k + 1]
      /\ k + 1 < Len(b) => Tail(line) = SubSeq(b, (k + 1) + 1, Len(b))
      /\ k + 1 = Len(b) => Tail(line) = << >>
  BY <1>4, <1>5, Suffixes, Zenon
<1>7. /\ k + 1 < Len(b) =>
           pushed.result = "NO_FRAME" /\ pushed.frames = {} /\ Fed(pushed.parser, b, k + 1)
      /\ k + 1 = Len(b) =>
           pushed.result = "FRAME_READY" /\ pushed.frames = {q} /\ pushed.parser = parser_init
  <2> DEFINE r == push_byte(parser, b[k + 1])
  <2>1. /\ k + 1 < Len(b) =>
             r.result = "NO_FRAME" /\ r.frames = {} /\ Fed(r.parser, b, k + 1)
        /\ k + 1 = Len(b) =>
             r.result = "FRAME_READY" /\ r.frames = {q} /\ r.parser = parser_init
    <3> HIDE DEF q
    <3> QED BY <1>2, <1>5, FrameIsParsed, Zenon
  <2>2. r = pushed
    BY <1>6, Zenon
  <2> HIDE DEF r, pushed
  <2> QED BY <2>1, <2>2, Zenon
<1>8. CASE k + 1 < Len(b)
  <2>1. UNCHANGED << host, faults, dispatched >>
    <3>1. pushed.result = "NO_FRAME" /\ pushed.frames = {}
      BY <1>7, <1>8, Zenon
    <3> HIDE DEF pushed
    <3> QED BY <3>1, Zenon DEF PollByte, pushed
  <2>2. Fed(parser', b, k + 1) /\ line' = SubSeq(b, (k + 1) + 1, Len(b)) /\ k + 1 \in Nat
    BY <1>1, <1>6, <1>7, <1>8
  <2>3. Underway(protocol_encode(host.pending), k + 1)'
    BY <1>8, <2>1, <2>2, Zenon DEF Underway
  <2> QED BY <1>2, <2>1, <2>2, <2>3, Zenon DEF QuietInv
<1>9. CASE k + 1 = Len(b)
  <2>1. pushed.result = "FRAME_READY" /\ pushed.frames = {q} /\ parser' = parser_init /\ line' = << >>
    BY <1>1, <1>6, <1>7, <1>9, Zenon
  <2>2. PICK request \in pushed.frames, state \in DEVICE_STATES :
        \E response \in dispatch(telemetry, request, state) :
          /\ dispatched' = dispatched \cup {request}
          /\ \E queued \in BOOLEAN :
               LET errors == transmit_error(response, queued)
               IN /\ Queue(queued)
                  /\ host' = IF errors = {} THEN HostHears(response) ELSE host
    <3> HIDE DEF pushed
    <3>1. pushed.result # "NO_FRAME"
      BY <2>1
    <3> QED BY <2>1, <3>1, Zenon DEF PollByte, pushed
  <2>3. request = q
    BY <2>1, <2>2, Zenon
  <2>4. PICK response \in dispatch(telemetry, q, state) :
          /\ dispatched' = dispatched \cup {q}
          /\ \E queued \in BOOLEAN :
               LET errors == transmit_error(response, queued)
               IN /\ Queue(queued)
                  /\ host' = IF errors = {} THEN HostHears(response) ELSE host
    BY <2>2, <2>3, Zenon
  <2>5. PICK queued \in BOOLEAN :
          /\ Queue(queued)
          /\ host' = IF transmit_error(response, queued) = {} THEN HostHears(response) ELSE host
    BY <2>4, Zenon
  <2>6. AnswerTo(response, q)
    BY <1>2, <2>4, DispatchAnswers, Zenon
  <2>7. Encodable(response) /\ transmit_error(response, TRUE) = {}
    BY <1>2, <2>6, AnswerIsHeard, Zenon
  <2>8. queued = TRUE /\ faults' = 0
    <3>1. ~(faults < MaxFaults)
      BY <1>2
    <3>2. queued /\ faults' = faults
      BY <2>5, <3>1, Zenon DEF Queue
    <3> QED BY <1>2, <3>2
  <2>9. host' = HostHears(response)
    BY <2>5, <2>7, <2>8, Zenon
  <2>10. host'.pending = NoRequest /\ host'.made = host.made
    <3>1. host \in Hosts
      BY Zenon DEF LineInv
    <3> QED BY <2>6, <2>7, <2>9, <3>1, HeardAnswer, Zenon
  <2>11. \A r \in dispatched' : MadeBy(r, host'.made)
    BY <1>2, <2>4, <2>10, Zenon
  <2> QED BY <2>1, <2>8, <2>10, <2>11, Zenon DEF QuietInv
<1> QED BY <1>4, <1>5, <1>8, <1>9

LEMMA QuietRequest ==
  ASSUME LineInv, QuietInv, HostRequest
  PROVE  QuietInv'
<1>0. host \in Hosts /\ host.made \in Nat
  BY DEF LineInv, Hosts
<1>1. PICK r \in Requests :
        LET f == [type |-> r.type, command |-> r.command, flags |-> SUPPORTED_FLAGS,
                  sequence |-> host.made + 1, payload |-> r.payload]
        IN /\ protocol_encode_result(f, MAX_FRAME_SIZE) = "OK"
           /\ host' = [made |-> host.made + 1, pending |-> f, frame |-> protocol_encode(f)]
           /\ line' = host'.frame
  BY Zenon DEF HostRequest
<1> DEFINE f == [type |-> r.type, command |-> r.command, flags |-> SUPPORTED_FLAGS,
                 sequence |-> host.made + 1, payload |-> r.payload]
           b == protocol_encode(f)
<1>2. /\ host.made < MaxRequests /\ host.pending = NoRequest
      /\ UNCHANGED << parser, faults, dispatched >>
  BY Zenon DEF HostRequest
<1>3. Encodable(f)
  BY <1>0, <1>1, <1>2, RequestIsEncodable, Zenon
<1>4. host' = [made |-> host.made + 1, pending |-> f, frame |-> b] /\ line' = host'.frame
  BY <1>1, Zenon
<1>5. MadeBy(f, host.made + 1)
  <2>1. f.sequence = host.made + 1 /\ f.type = r.type /\ f.command = r.command /\ f.payload = r.payload
    OBVIOUS
  <2> HIDE DEF f
  <2>2. f.sequence \in 1 .. (host.made + 1)
    BY <1>0, <2>1
  <2> QED BY <2>1, <2>2, Zenon DEF MadeBy
<1>6. b \in Seq(Bytes) /\ Len(b) = 16 + Len(f.payload)
  BY <1>3, EncodesAs, Zenon DEF FrameBytes
<1> HIDE DEF f, b
<1>7. host'.made = host.made + 1 /\ host'.pending = f /\ line' = b
  BY <1>4
<1>8. 0 < Len(b)
  BY <1>3, <1>6 DEF Encodable, LinkFrames
<1>9. SubSeq(b, 1, 0) = << >> /\ SubSeq(b, 0 + 1, Len(b)) = b /\ 0 < 12 /\ 0 \in Nat
  <2>1. SubSeq(b, 1, 0) = << >>
    BY <1>6
  <2>2. 0 + 1 = 1 /\ 0 < 12 /\ 0 \in Nat
    OBVIOUS
  <2> QED BY <1>6, <2>1, <2>2, WholeSequence, Zenon
<1>10. parser' = parser_init
  BY <1>2, Zenon DEF QuietInv
<1>11. Fed(parser', b, 0)
  BY <1>9, <1>10, InitialParser, Zenon DEF Fed
<1>12. Underway(protocol_encode(host.pending), 0)'
  <2>1. protocol_encode(host'.pending) = b
    BY <1>7, Zenon DEF b
  <2> QED BY <1>7, <1>8, <1>9, <1>11, <2>1, Zenon DEF Underway
<1>13. host'.pending # NoRequest
  BY <1>3, <1>7, NoRequestTyped DEF Encodable
<1>14. \A x \in dispatched' : MadeBy(x, host'.made)
  <2>1. \A x \in dispatched : MadeBy(x, host.made)
    BY Zenon DEF QuietInv
  <2>2. host.made + 1 \in Nat /\ host.made <= host.made + 1
    BY <1>0
  <2> QED BY <1>0, <1>2, <1>7, <2>1, <2>2, MadeBefore, Zenon
<1>15. faults' = 0
  BY <1>2, Zenon DEF QuietInv
<1> QED BY <1>3, <1>5, <1>7, <1>9, <1>12, <1>13, <1>14, <1>15, Zenon DEF QuietInv

LEMMA QuietSteps ==
  ASSUME MaxFaults = 0, LineInv, QuietInv, [LinkNext]_linkVars,
         DOMAIN telemetry = TelemetryFields, telemetry = [x \in TelemetryFields |-> telemetry[x]]
  PROVE  QuietInv'
<1>0. faults = 0 /\ ~(faults < MaxFaults)
  BY DEF QuietInv
<1>1. ASSUME UNCHANGED << line, parser, host, faults, dispatched >> PROVE QuietInv'
  <2>1. /\ line' = line /\ parser' = parser /\ host' = host /\ faults' = faults
        /\ dispatched' = dispatched
    BY <1>1, Zenon
  <2>2. \A b, k : Underway(b, k) => Underway(b, k)'
    BY <2>1, Zenon DEF Underway
  <2> QED BY <2>1, <2>2, Zenon DEF QuietInv
<1>2. CASE HostRequest
  BY <1>2, QuietRequest, Zenon
<1>3. CASE HostRetry
  <2>1. host.pending # NoRequest /\ line = << >>
    BY <1>3, Zenon DEF HostRetry
  <2>2. PICK k \in Nat : Underway(protocol_encode(host.pending), k)
    BY <2>1, Zenon DEF QuietInv
  <2>3. protocol_encode(host.pending) \in Seq(Bytes)
    BY <2>1, EncodesAs, Zenon DEF QuietInv, FrameBytes
  <2> QED BY <2>1, <2>2, <2>3, Suffixes, Zenon DEF Underway
<1>4. CASE LineFault
  BY <1>0, <1>4, Zenon DEF LineFault
<1>5. CASE PollByte
  BY <1>5, QuietPoll, Zenon
<1>6. CASE PollTelemetry
  <2>1. PICK queued \in BOOLEAN : Queue(queued)
    BY <1>6, Zenon DEF PollTelemetry
  <2>2. faults' = faults
    BY <1>0, <2>1, Zenon DEF Queue
  <2>3. UNCHANGED << line, parser, host, dispatched >>
    BY <1>6, Zenon DEF PollTelemetry
  <2> QED BY <1>1, <2>2, <2>3
<1>7. CASE LinkTick
  BY <1>1, <1>7 DEF LinkTick
<1>8. CASE UNCHANGED linkVars
  BY <1>1, <1>8 DEF linkVars
<1> QED BY <1>2, <1>3, <1>4, <1>5, <1>6, <1>7, <1>8 DEF LinkNext

LEMMA QuietIsRight ==
  ASSUME LineInv, QuietInv
  PROVE  RequestAsSent /\ AnsweredAtOnce
<1>1. RequestAsSent
  BY DEF QuietInv, MadeBy, RequestAsSent
<1>2. AnsweredAtOnce
  <2> SUFFICES ASSUME line = << >>, host.pending # NoRequest PROVE FALSE
    BY DEF AnsweredAtOnce
  <2>2. PICK k \in Nat : Underway(protocol_encode(host.pending), k)
    BY Zenon DEF QuietInv
  <2>3. protocol_encode(host.pending) \in Seq(Bytes)
    BY EncodesAs, Zenon DEF QuietInv, FrameBytes
  <2> QED BY <2>2, <2>3, Suffixes, Zenon DEF Underway
<1> QED BY <1>1, <1>2

\* For every request, payload and length, on a line that loses and changes
\* nothing and with room in the transmit queue: the device acts on what the host
\* asked, and every request is answered when its last byte is read, so the host
\* never has to repeat one (guardian_parser_push_byte, guardian_protocol_decode,
\* guardian_embedded_link_poll).
THEOREM QuietLine ==
  ASSUME MaxFaults = 0
  PROVE  SerialSpec => []RequestAsSent /\ []AnsweredAtOnce
<1>1. LinkInit => GapInv /\ LineInv /\ QuietInv
  BY GapStarts, LineStarts, QuietStarts
<1>2. GapInv /\ LineInv /\ QuietInv /\ [LinkNext]_linkVars => (GapInv /\ LineInv /\ QuietInv)'
  <2> SUFFICES ASSUME GapInv, LineInv, QuietInv, [LinkNext]_linkVars
               PROVE  (GapInv /\ LineInv /\ QuietInv)'
    OBVIOUS
  <2>1. DOMAIN telemetry = TelemetryFields /\ telemetry = [x \in TelemetryFields |-> telemetry[x]]
    BY Zenon DEF GapInv
  <2>2. QuietInv'
    BY <2>1, QuietSteps, Zenon
  <2> QED BY <2>2, GapSteps, LineSteps
<1>3. LineInv /\ QuietInv => RequestAsSent /\ AnsweredAtOnce
  BY QuietIsRight
<1> QED
  BY <1>1, <1>2, <1>3, LayersTakeTheirSteps, PTL DEF SerialSpec, SerialInit
=============================================================================
