------------------------- MODULE Acquisition_proofs -------------------------
(***************************************************************************)
(* Proofs about the measuring side of the device: the two interrupt-driven *)
(* parts of the acquisition driver, the sample stream and the speed        *)
(* capture, for every number of blocks and faults, and for every counter   *)
(* width, stale time and run length; the start of the device, for every    *)
(* clock tree and baud rate; and all of them in the composition.           *)
(***************************************************************************)
EXTENDS Acquisition, TLAPS

(***************************************************************************)
(* The sample stream.  A copy is safe because at most one completion falls *)
(* into it: then DMA is in the buffer being copied and stays there until   *)
(* the second check.  Completed blocks are accounted for by counting the   *)
(* ones on their way, in the pending flag and in the ready mask.           *)
(***************************************************************************)
Copying == {"check", "copy1", "copy2", "recheck"}
Holding == Copying \cup {"process"}

\* Completed blocks on their way to the foreground.
outstanding == (IF ready # {} THEN 1 ELSE 0) + (IF dma.tc THEN 1 ELSE 0)

\* The first half of a half-written target is the next block's; only the buffer DMA has left last
\* is, or becomes, ready.
TargetInv ==
  /\ dma.half => ~dma.tc /\ blocks < MaxBlocks /\ buf[dma.ct][1] = blocks + 1
  /\ ready \subseteq {IF dma.tc THEN dma.ct ELSE Other(dma.ct)}
  /\ dma.tc \/ ready # {} => buf[Other(dma.ct)] = <<blocks, blocks>>

\* The buffer being copied, while DMA has not come back to it.
CopyInv ==
  /\ poll.pc \in Copying /\ dma.ct = poll.sel => laps = 1
  /\ poll.pc \in Copying /\ dma.ct # poll.sel =>
       /\ ready = {} /\ ~dma.tc /\ out.block < blocks
       /\ buf[poll.sel] = <<blocks, blocks>>
       /\ poll.pc \in {"copy2", "recheck"} => poll.copy[1] = blocks
       /\ poll.pc = "recheck" => poll.copy[2] = blocks
       /\ poll.flags = {} /\ out.flags = {} => blocks = out.block + 1
  /\ poll.pc = "process" =>
       /\ poll.copy[1] = poll.copy[2] /\ out.block < poll.copy[2]
       /\ poll.copy[2] + outstanding <= blocks
       /\ poll.flags = {} /\ out.flags = {} => poll.copy[2] = out.block + 1
       /\ pending = {} /\ poll.flags = {} => blocks = poll.copy[2] + outstanding

\* What is on its way is newer than what was published; nothing has been lost
\* between them unless a flag says so.
OrderInv ==
  /\ out.block + outstanding <= blocks
  /\ poll.pc \notin Holding /\ pending = {} /\ out.flags = {} =>
       blocks = out.block + outstanding

\* Who asks for a restart leaves a flag, which travels with the next block.
RecoveryInv ==
  /\ poll.pc \in {"restart", "trigger", "acknowledge"} \/ (poll.pc = "idle" /\ recovery) =>
       pending # {} \/ out.flags # {}
  /\ poll.pc = "select" /\ recovery => pending # {}
  /\ poll.pc \in Holding /\ recovery => pending # {} \/ poll.flags # {}

StreamIInv == StreamTypeOK /\ TargetInv /\ CopyInv /\ OrderInv /\ RecoveryInv

-----------------------------------------------------------------------------
Numbers == 0 .. MaxBlocks

DmaStates ==
  [en : BOOLEAN, ct : Buffers, half : BOOLEAN, tc : BOOLEAN, err : BOOLEAN]

PollStates ==
  [pc : {"idle", "restart", "trigger", "acknowledge", "select", "check",
         "copy1", "copy2", "recheck", "process"},
   sel : Buffers, flags : SUBSET Flags, copy : Numbers \X Numbers]

\* Writing one half of a pair of block numbers.
LEMMA PairUpdate ==
  ASSUME NEW c \in Numbers \X Numbers, NEW n \in Numbers
  PROVE  /\ [c EXCEPT ![1] = n] \in Numbers \X Numbers
         /\ [c EXCEPT ![1] = n][1] = n /\ [c EXCEPT ![1] = n][2] = c[2]
         /\ [c EXCEPT ![2] = n] \in Numbers \X Numbers
         /\ [c EXCEPT ![2] = n][2] = n /\ [c EXCEPT ![2] = n][1] = c[1]
OBVIOUS

LEMMA PairEqual ==
  ASSUME NEW c \in Numbers \X Numbers, NEW n, c[1] = n, c[2] = n
  PROVE  c = <<n, n>>
OBVIOUS

LEMMA TwoBuffers ==
  \A b \in Buffers : Other(b) \in Buffers /\ Other(b) # b /\ Other(Other(b)) = b
BY DEF Buffers, Other

LEMMA StreamTypes ==
  ASSUME StreamTypeOK
  PROVE  /\ dma \in DmaStates /\ poll \in PollStates
         /\ dma.ct \in Buffers /\ poll.sel \in Buffers
         /\ dma.half \in BOOLEAN /\ dma.tc \in BOOLEAN /\ dma.err \in BOOLEAN
         /\ buf \in [Buffers -> Numbers \X Numbers]
         /\ blocks \in Numbers /\ blocks \in Nat /\ out.block \in Nat
         /\ poll.copy \in Numbers \X Numbers
         /\ poll.copy[1] \in Nat /\ poll.copy[2] \in Nat
         /\ outstanding \in {0, 1, 2}
<1>1. MaxBlocks \in Nat
  BY StreamAssumption
<1>2. dma \in DmaStates /\ poll \in PollStates /\ poll.copy \in Numbers \X Numbers
  BY DEF StreamTypeOK, DmaStates, PollStates, Numbers
<1>3. outstanding \in {0, 1, 2}
  BY DEF outstanding
<1>4. blocks \in Nat /\ out.block \in Nat /\ poll.copy[1] \in Nat /\ poll.copy[2] \in Nat
  BY <1>1, <1>2 DEF StreamTypeOK, Numbers
<1> QED
  BY <1>2, <1>3, <1>4 DEF StreamTypeOK, DmaStates, PollStates, Numbers

LEMMA IdleType == PollIdle \in PollStates /\ PollIdle.pc = "idle"
<1>1. <<0, 0>> \in Numbers \X Numbers
  BY StreamAssumption DEF Numbers
<1> QED
  BY <1>1 DEF PollIdle, PollStates, Buffers

LEMMA FillFirstHalfStep == ASSUME StreamIInv, FillFirstHalf PROVE StreamIInv'
<1>1. StreamTypeOK /\ TargetInv /\ CopyInv /\ OrderInv /\ RecoveryInv
  BY DEF StreamIInv
<1>2. /\ ~dma.half /\ ~dma.tc /\ blocks < MaxBlocks
      /\ buf' = [buf EXCEPT ![dma.ct][1] = blocks + 1]
      /\ dma' = [dma EXCEPT !.half = TRUE]
      /\ UNCHANGED <<flowing, ovr, blocks, laps, ready, pending, recovery, poll,
                     out, faults>>
  BY DEF FillFirstHalf
<1>3. /\ dma' \in DmaStates /\ dma'.ct = dma.ct /\ dma'.tc = dma.tc
      /\ dma'.half = TRUE
  BY <1>1, <1>2, StreamTypes DEF DmaStates
<1>4. blocks + 1 \in Numbers
  BY <1>1, <1>2, StreamTypes, StreamAssumption DEF Numbers
<1>5. /\ buf' \in [Buffers -> Numbers \X Numbers]
      /\ \A b \in Buffers \ {dma.ct} : buf'[b] = buf[b]
      /\ buf'[dma.ct][1] = blocks + 1
  <2>1. buf' = [buf EXCEPT ![dma.ct] = [buf[dma.ct] EXCEPT ![1] = blocks + 1]]
    BY <1>2
  <2>2. /\ [buf[dma.ct] EXCEPT ![1] = blocks + 1] \in Numbers \X Numbers
        /\ [buf[dma.ct] EXCEPT ![1] = blocks + 1][1] = blocks + 1
    BY <1>1, <1>4, StreamTypes, PairUpdate
  <2> QED
    BY <1>1, <2>1, <2>2, StreamTypes
<1>6. StreamTypeOK'
  BY <1>1, <1>2, <1>3, <1>5 DEF StreamTypeOK, DmaStates, Numbers
<1>7. outstanding' = outstanding
  BY <1>2, <1>3 DEF outstanding
<1>8. TargetInv'
  BY <1>1, <1>2, <1>3, <1>5, StreamTypes, TwoBuffers DEF TargetInv
<1>9. CopyInv'
  BY <1>1, <1>2, <1>3, <1>5, <1>7, StreamTypes DEF CopyInv
<1>10. OrderInv' /\ RecoveryInv'
  BY <1>1, <1>2, <1>7 DEF OrderInv, RecoveryInv
<1> QED
  BY <1>6, <1>8, <1>9, <1>10 DEF StreamIInv

LEMMA CompleteTargetStep ==
  ASSUME StreamIInv, CompleteTarget, Laps = 1 PROVE StreamIInv'
<1>1. StreamTypeOK /\ TargetInv /\ CopyInv /\ OrderInv /\ RecoveryInv
  BY DEF StreamIInv
<1>2. /\ dma.half
      /\ poll.pc \in Copying => laps < Laps
      /\ buf' = [buf EXCEPT ![dma.ct][2] = blocks + 1]
      /\ blocks' = blocks + 1
      /\ laps' = IF laps < Laps THEN laps + 1 ELSE laps
      /\ dma' = [dma EXCEPT !.half = FALSE, !.ct = Other(dma.ct), !.tc = TRUE]
      /\ UNCHANGED <<flowing, ovr, ready, pending, recovery, poll, out, faults>>
  BY DEF CompleteTarget, Copying
<1>3. /\ dma' \in DmaStates /\ dma'.ct = Other(dma.ct) /\ dma'.tc = TRUE
      /\ dma'.half = FALSE
  BY <1>1, <1>2, StreamTypes, TwoBuffers DEF DmaStates
<1>4. blocks + 1 \in Numbers /\ laps' \in 0..Laps /\ laps' = 1 /\ ~dma.tc
  BY <1>1, <1>2, StreamTypes, StreamAssumption DEF Numbers, TargetInv, StreamTypeOK
<1>5. /\ buf' \in [Buffers -> Numbers \X Numbers]
      /\ \A b \in Buffers \ {dma.ct} : buf'[b] = buf[b]
      /\ buf'[dma.ct] = <<blocks + 1, blocks + 1>>
  <2>1. buf' = [buf EXCEPT ![dma.ct] = [buf[dma.ct] EXCEPT ![2] = blocks + 1]]
    BY <1>2
  <2>2. /\ [buf[dma.ct] EXCEPT ![2] = blocks + 1] \in Numbers \X Numbers
        /\ [buf[dma.ct] EXCEPT ![2] = blocks + 1][1] = blocks + 1
        /\ [buf[dma.ct] EXCEPT ![2] = blocks + 1][2] = blocks + 1
    BY <1>1, <1>2, <1>4, StreamTypes, PairUpdate DEF TargetInv
  <2>3. [buf[dma.ct] EXCEPT ![2] = blocks + 1] = <<blocks + 1, blocks + 1>>
    BY <2>2, PairEqual
  <2> QED
    BY <1>1, <2>1, <2>2, <2>3, StreamTypes
<1>6. StreamTypeOK'
  BY <1>1, <1>2, <1>3, <1>4, <1>5 DEF StreamTypeOK, DmaStates, Numbers
<1>7. outstanding' = outstanding + 1
  BY <1>2, <1>3, <1>4 DEF outstanding
<1>8. TargetInv'
  BY <1>1, <1>2, <1>3, <1>4, <1>5, StreamTypes, TwoBuffers DEF TargetInv
<1>9. CopyInv'
  <2>1. poll.pc \in Copying => dma'.ct = poll.sel
    BY <1>1, <1>2, <1>3, <1>4, StreamTypes, StreamAssumption DEF CopyInv, Other, Buffers
  <2>2. poll.pc = "process" => "process" \notin Copying
    BY DEF Copying
  <2> QED
    BY <1>1, <1>2, <1>4, <1>7, <2>1, StreamTypes DEF CopyInv
<1>10. OrderInv' /\ RecoveryInv'
  BY <1>1, <1>2, <1>7, StreamTypes DEF OrderInv, RecoveryInv
<1> QED
  BY <1>6, <1>8, <1>9, <1>10 DEF StreamIInv

LEMMA ErrorStep ==
  ASSUME StreamIInv, AdcOverrun \/ \E stops \in BOOLEAN : DmaError(stops)
  PROVE  StreamIInv'
<1>1. StreamTypeOK /\ TargetInv /\ CopyInv /\ OrderInv /\ RecoveryInv
  BY DEF StreamIInv
<1>2. /\ faults < MaxFaults /\ faults' = faults + 1
      /\ flowing' \in BOOLEAN /\ ovr' \in BOOLEAN
      /\ dma' \in DmaStates /\ dma'.ct = dma.ct /\ dma'.tc = dma.tc /\ dma'.half = dma.half
      /\ UNCHANGED <<buf, blocks, laps, ready, pending, recovery, poll, out>>
  <2>1. CASE AdcOverrun
    BY <1>1, <2>1, StreamTypes DEF AdcOverrun
  <2>2. CASE \E stops \in BOOLEAN : DmaError(stops)
    <3>0. PICK stops \in BOOLEAN : DmaError(stops)
      BY <2>2
    <3>1. /\ dma' = [dma EXCEPT !.err = TRUE, !.en = ~stops]
          /\ faults < MaxFaults /\ faults' = faults + 1
          /\ UNCHANGED <<flowing, ovr, buf, blocks, laps, ready, pending, recovery,
                         poll, out>>
      BY <3>0 DEF DmaError
    <3> QED
      BY <1>1, <3>1, StreamTypes DEF DmaStates, StreamTypeOK
  <2> QED
    BY <2>1, <2>2
<1>3. StreamTypeOK'
  BY <1>1, <1>2, StreamAssumption DEF StreamTypeOK, DmaStates
<1>4. outstanding' = outstanding
  BY <1>2 DEF outstanding
<1>5. TargetInv' /\ CopyInv' /\ OrderInv' /\ RecoveryInv'
  BY <1>1, <1>2, <1>4 DEF TargetInv, CopyInv, OrderInv, RecoveryInv
<1> QED
  BY <1>3, <1>5 DEF StreamIInv

LEMMA DmaIrqErrorStep == ASSUME StreamIInv, DmaIrqError PROVE StreamIInv'
<1>1. StreamTypeOK /\ TargetInv /\ CopyInv /\ OrderInv /\ RecoveryInv
  BY DEF StreamIInv
<1>2. /\ pending' = pending \union {"DMA_ERROR"} /\ pending' # {}
      /\ recovery' = TRUE /\ ready' = {}
      /\ dma' = [dma EXCEPT !.err = FALSE, !.tc = FALSE]
      /\ UNCHANGED <<flowing, ovr, buf, blocks, laps, poll, out, faults>>
  BY DEF DmaIrqError
<1>3. /\ dma' \in DmaStates /\ dma'.ct = dma.ct /\ dma'.tc = FALSE
      /\ dma'.half = dma.half
  BY <1>1, <1>2, StreamTypes DEF DmaStates
<1>4. StreamTypeOK'
  BY <1>1, <1>2, <1>3 DEF StreamTypeOK, DmaStates, Flags
<1>5. outstanding' = 0
  BY <1>2, <1>3 DEF outstanding
<1>6. TargetInv'
  BY <1>1, <1>2, <1>3 DEF TargetInv
<1>7. CopyInv'
  BY <1>1, <1>2, <1>3, <1>5, StreamTypes DEF CopyInv
<1>8. OrderInv' /\ RecoveryInv'
  BY <1>1, <1>2, <1>5, StreamTypes DEF OrderInv, RecoveryInv
<1> QED
  BY <1>4, <1>6, <1>7, <1>8 DEF StreamIInv

LEMMA DmaIrqCompleteStep == ASSUME StreamIInv, DmaIrqComplete PROVE StreamIInv'
<1>1. StreamTypeOK /\ TargetInv /\ CopyInv /\ OrderInv /\ RecoveryInv
  BY DEF StreamIInv
<1>2. /\ dma.tc
      /\ pending' = IF ready # {} THEN pending \union {"DMA_DROP"} ELSE pending
      /\ ready' = (ready \ {dma.ct}) \union {Other(dma.ct)}
      /\ dma' = [dma EXCEPT !.tc = FALSE]
      /\ UNCHANGED <<flowing, ovr, buf, blocks, laps, recovery, poll, out, faults>>
  BY DEF DmaIrqComplete
<1>3. /\ dma' \in DmaStates /\ dma'.ct = dma.ct /\ dma'.tc = FALSE
      /\ dma'.half = dma.half
  BY <1>1, <1>2, StreamTypes DEF DmaStates
<1>4. /\ ready' = {Other(dma.ct)} /\ ready' # {} /\ ready' \in SUBSET Buffers
      /\ pending' \in SUBSET Flags /\ pending \subseteq pending'
      /\ pending' = {} => ready = {}
  BY <1>1, <1>2, StreamTypes, TwoBuffers DEF TargetInv, StreamTypeOK, Flags
<1>5. StreamTypeOK'
  BY <1>1, <1>2, <1>3, <1>4 DEF StreamTypeOK, DmaStates
<1>6. outstanding' <= outstanding /\ outstanding' \in Nat /\ (pending' = {} => outstanding' = outstanding)
  BY <1>2, <1>3, <1>4 DEF outstanding
<1>7. TargetInv'
  BY <1>1, <1>2, <1>3, <1>4 DEF TargetInv
<1>8. CopyInv'
  BY <1>1, <1>2, <1>3, <1>4, <1>6, StreamTypes DEF CopyInv
<1>9. OrderInv' /\ RecoveryInv'
  BY <1>1, <1>2, <1>4, <1>6, StreamTypes DEF OrderInv, RecoveryInv
<1> QED
  BY <1>5, <1>7, <1>8, <1>9 DEF StreamIInv

LEMMA AdcIrqStep == ASSUME StreamIInv, AdcIrq PROVE StreamIInv'
<1>1. StreamTypeOK /\ TargetInv /\ CopyInv /\ OrderInv /\ RecoveryInv
  BY DEF StreamIInv
<1>2. /\ pending' = pending \union {"ADC_ERROR"} /\ pending' # {}
      /\ recovery' = TRUE /\ ovr' = FALSE
      /\ UNCHANGED <<dma, flowing, buf, blocks, laps, ready, poll, out, faults>>
  BY DEF AdcIrq
<1>3. StreamTypeOK'
  BY <1>1, <1>2 DEF StreamTypeOK, Flags
<1>4. outstanding' = outstanding
  BY <1>2 DEF outstanding
<1>5. TargetInv' /\ CopyInv'
  BY <1>1, <1>2, <1>4 DEF TargetInv, CopyInv
<1>6. OrderInv' /\ RecoveryInv'
  BY <1>1, <1>2, <1>4 DEF OrderInv, RecoveryInv
<1> QED
  BY <1>3, <1>5, <1>6 DEF StreamIInv

LEMMA PollBeginStep == ASSUME StreamIInv, PollBegin PROVE StreamIInv'
<1>1. StreamTypeOK /\ TargetInv /\ CopyInv /\ OrderInv /\ RecoveryInv
  BY DEF StreamIInv
<1>2. /\ poll.pc = "idle"
      /\ poll' = [poll EXCEPT !.pc = IF recovery THEN "restart" ELSE "select"]
      /\ UNCHANGED <<dma, flowing, ovr, buf, blocks, laps, ready, pending, recovery, out,
                     faults>>
  BY DEF PollBegin, hardware
<1>3. poll' \in PollStates /\ poll'.pc = IF recovery THEN "restart" ELSE "select"
  BY <1>1, <1>2, StreamTypes DEF PollStates
<1>4. StreamTypeOK'
  BY <1>1, <1>2, <1>3 DEF StreamTypeOK, PollStates, Numbers
<1>5. outstanding' = outstanding /\ TargetInv'
  BY <1>1, <1>2 DEF outstanding, TargetInv
<1>6. CopyInv'
  BY <1>2, <1>3 DEF CopyInv, Copying
<1>7. OrderInv' /\ RecoveryInv'
  BY <1>1, <1>2, <1>3, <1>5 DEF OrderInv, RecoveryInv, Holding, Copying
<1> QED
  BY <1>4, <1>5, <1>6, <1>7 DEF StreamIInv

LEMMA RestartStep == ASSUME StreamIInv, Restart PROVE StreamIInv'
<1>1. StreamTypeOK /\ TargetInv /\ CopyInv /\ OrderInv /\ RecoveryInv
  BY DEF StreamIInv
<1>2. /\ poll.pc = "restart"
      /\ dma' = [en |-> TRUE, ct |-> 0, half |-> FALSE, tc |-> FALSE, err |-> FALSE]
      /\ flowing' = FALSE /\ ovr' = FALSE /\ ready' = {}
      /\ poll' = [poll EXCEPT !.pc = "trigger"]
      /\ UNCHANGED <<buf, blocks, laps, pending, recovery, out, faults>>
  BY DEF Restart
<1>3. poll' \in PollStates /\ poll'.pc = "trigger"
  BY <1>1, <1>2, StreamTypes DEF PollStates
<1>4. StreamTypeOK'
  BY <1>1, <1>2, <1>3 DEF StreamTypeOK, PollStates, Numbers, Buffers
<1>5. outstanding' = 0 /\ TargetInv'
  BY <1>1, <1>2 DEF outstanding, TargetInv
<1>6. CopyInv'
  BY <1>3 DEF CopyInv, Copying
<1>7. OrderInv' /\ RecoveryInv'
  BY <1>1, <1>2, <1>3, <1>5, StreamTypes DEF OrderInv, RecoveryInv, Holding, Copying
<1> QED
  BY <1>4, <1>5, <1>6, <1>7 DEF StreamIInv

LEMMA RestartFailsStep == ASSUME StreamIInv, RestartFails PROVE StreamIInv'
<1>1. StreamTypeOK /\ TargetInv /\ CopyInv /\ OrderInv /\ RecoveryInv
  BY DEF StreamIInv
<1>2. /\ poll.pc = "restart" /\ faults < MaxFaults
      /\ dma' = [dma EXCEPT !.en = FALSE]
      /\ flowing' = FALSE /\ ovr' = FALSE
      /\ poll' = PollIdle /\ poll'.pc = "idle" /\ faults' = faults + 1
      /\ UNCHANGED <<buf, blocks, laps, ready, pending, recovery, out>>
  BY DEF RestartFails, PollIdle
<1>3. /\ dma' \in DmaStates /\ dma'.ct = dma.ct /\ dma'.tc = dma.tc
      /\ dma'.half = dma.half
  BY <1>1, <1>2, StreamTypes DEF DmaStates
<1>4. StreamTypeOK'
  <2>1. faults + 1 \in 0 .. MaxFaults
    BY <1>1, <1>2, StreamAssumption DEF StreamTypeOK
  <2>2. poll' \in PollStates
    BY <1>2, IdleType
  <2> QED
    BY <1>1, <1>2, <1>3, <2>1, <2>2 DEF StreamTypeOK, PollStates, DmaStates, Numbers
<1>5. outstanding' = outstanding /\ TargetInv'
  BY <1>1, <1>2, <1>3 DEF outstanding, TargetInv
<1>6. CopyInv'
  BY <1>2 DEF CopyInv, Copying
<1>7. OrderInv' /\ RecoveryInv'
  BY <1>1, <1>2, <1>5 DEF OrderInv, RecoveryInv, Holding, Copying
<1> QED
  BY <1>4, <1>5, <1>6, <1>7 DEF StreamIInv

LEMMA TriggerStep == ASSUME StreamIInv, Trigger PROVE StreamIInv'
<1>1. StreamTypeOK /\ TargetInv /\ CopyInv /\ OrderInv /\ RecoveryInv
  BY DEF StreamIInv
<1>2. /\ poll.pc = "trigger" /\ flowing' = TRUE
      /\ poll' = [poll EXCEPT !.pc = "acknowledge"]
      /\ UNCHANGED <<dma, ovr, buf, blocks, laps, ready, pending, recovery, out, faults>>
  BY DEF Trigger
<1>3. poll' \in PollStates /\ poll'.pc = "acknowledge"
  BY <1>1, <1>2, StreamTypes DEF PollStates
<1>4. StreamTypeOK'
  BY <1>1, <1>2, <1>3 DEF StreamTypeOK, PollStates, Numbers
<1>5. outstanding' = outstanding /\ TargetInv'
  BY <1>1, <1>2 DEF outstanding, TargetInv
<1>6. CopyInv'
  BY <1>3 DEF CopyInv, Copying
<1>7. OrderInv' /\ RecoveryInv'
  BY <1>1, <1>2, <1>3, <1>5 DEF OrderInv, RecoveryInv, Holding, Copying
<1> QED
  BY <1>4, <1>5, <1>6, <1>7 DEF StreamIInv

LEMMA AcknowledgeStep == ASSUME StreamIInv, Acknowledge PROVE StreamIInv'
<1>1. StreamTypeOK /\ TargetInv /\ CopyInv /\ OrderInv /\ RecoveryInv
  BY DEF StreamIInv
<1>2. /\ poll.pc = "acknowledge" /\ recovery' = FALSE
      /\ poll' = [poll EXCEPT !.pc = "select"]
      /\ UNCHANGED <<dma, flowing, ovr, buf, blocks, laps, ready, pending, out, faults>>
  BY DEF Acknowledge, hardware
<1>3. poll' \in PollStates /\ poll'.pc = "select"
  BY <1>1, <1>2, StreamTypes DEF PollStates
<1>4. StreamTypeOK'
  BY <1>1, <1>2, <1>3 DEF StreamTypeOK, PollStates, Numbers
<1>5. outstanding' = outstanding /\ TargetInv'
  BY <1>1, <1>2 DEF outstanding, TargetInv
<1>6. CopyInv'
  BY <1>3 DEF CopyInv, Copying
<1>7. OrderInv' /\ RecoveryInv'
  BY <1>1, <1>2, <1>3, <1>5 DEF OrderInv, RecoveryInv, Holding, Copying
<1> QED
  BY <1>4, <1>5, <1>6, <1>7 DEF StreamIInv

LEMMA SelectStep == ASSUME StreamIInv, Select, Laps = 1 PROVE StreamIInv'
<1>1. StreamTypeOK /\ TargetInv /\ CopyInv /\ OrderInv /\ RecoveryInv
  BY DEF StreamIInv
<1>2. poll.pc = "select" /\ UNCHANGED <<dma, flowing, ovr, buf, blocks, recovery, out, faults>>
  BY DEF Select
<1>3. CASE ready = {}
  <2>1. poll' = PollIdle /\ poll'.pc = "idle" /\ UNCHANGED <<ready, pending, laps>>
    BY <1>3 DEF Select, PollIdle
  <2>2. StreamTypeOK'
    BY <1>1, <1>2, <2>1, IdleType DEF StreamTypeOK, PollStates, Numbers
  <2>3. outstanding' = outstanding /\ TargetInv'
    BY <1>1, <1>2, <2>1 DEF outstanding, TargetInv
  <2>4. CopyInv'
    BY <2>1 DEF CopyInv, Copying
  <2>5. OrderInv' /\ RecoveryInv'
    BY <1>1, <1>2, <2>1, <2>3 DEF OrderInv, RecoveryInv, Holding, Copying
  <2> QED
    BY <2>2, <2>3, <2>4, <2>5 DEF StreamIInv
<1>4. CASE ready # {}
  <2> DEFINE b == IF 0 \in ready THEN 0 ELSE 1
  <2>1. /\ poll' = [pc |-> "check", sel |-> b, flags |-> pending, copy |-> <<0, 0>>]
        /\ ready' = ready \ {b} /\ pending' = {}
        /\ laps' = IF dma.tc THEN 1 ELSE 0
    BY <1>4 DEF Select
  <2>2. /\ b \in Buffers /\ b \in ready /\ ready = {b}
        /\ b = IF dma.tc THEN dma.ct ELSE Other(dma.ct)
    <3>1. b \in Buffers /\ b \in ready
      BY <1>1, <1>4 DEF Buffers, StreamTypeOK
    <3> QED
      BY <1>1, <3>1 DEF TargetInv
  <2> HIDE DEF b
  <2>3. ready' = {} /\ poll'.pc = "check" /\ poll'.sel = b /\ poll'.flags = pending
    BY <2>1, <2>2
  <2>4. <<0, 0>> \in (0 .. MaxBlocks) \X (0 .. MaxBlocks)
    BY StreamAssumption
  <2>5. poll' \in PollStates
    BY <1>1, <2>1, <2>2, <2>4 DEF PollStates, StreamTypeOK, Numbers
  <2>6. StreamTypeOK'
    BY <1>1, <1>2, <2>1, <2>3, <2>5, StreamAssumption DEF StreamTypeOK, PollStates, Numbers
  <2>7. outstanding = outstanding' + 1 /\ outstanding' = IF dma.tc THEN 1 ELSE 0
    BY <1>2, <1>4, <2>3 DEF outstanding
  <2>8. TargetInv'
    BY <1>1, <1>2, <2>3 DEF TargetInv
  <2>9. CopyInv'
    BY <1>1, <1>2, <1>4, <2>1, <2>2, <2>3, <2>7, StreamTypes, TwoBuffers
    DEF CopyInv, Copying, Holding, TargetInv, OrderInv
  <2>10. OrderInv'
    BY <1>1, <1>2, <2>3, <2>7, StreamTypes DEF OrderInv, Holding, Copying
  <2>11. RecoveryInv'
    BY <1>1, <1>2, <2>1, <2>3 DEF RecoveryInv, Holding, Copying
  <2> QED
    BY <2>6, <2>8, <2>9, <2>10, <2>11 DEF StreamIInv
<1> QED
  BY <1>3, <1>4

LEMMA DiscardStep ==
  ASSUME StreamIInv, Discard,
         UNCHANGED <<dma, flowing, ovr, buf, blocks, laps, ready, recovery, out, faults>>
  PROVE  StreamIInv'
<1>1. StreamTypeOK /\ TargetInv /\ CopyInv /\ OrderInv /\ RecoveryInv
  BY DEF StreamIInv
<1>2. /\ poll' \in PollStates /\ poll'.pc = "idle"
      /\ pending' = pending \union poll.flags \union {"DMA_DROP"} /\ pending' # {}
  BY IdleType DEF Discard
<1>3. pending' \in SUBSET Flags
  BY <1>1, <1>2 DEF StreamTypeOK, Flags
<1>4. StreamTypeOK'
  BY <1>1, <1>2, <1>3 DEF StreamTypeOK, PollStates, Numbers
<1>5. outstanding' = outstanding /\ TargetInv'
  BY <1>1 DEF outstanding, TargetInv
<1>6. CopyInv' /\ OrderInv' /\ RecoveryInv'
  BY <1>1, <1>2, <1>5 DEF CopyInv, OrderInv, RecoveryInv, Copying
<1> QED
  BY <1>4, <1>5, <1>6 DEF StreamIInv

LEMMA CheckStep == ASSUME StreamIInv, Check PROVE StreamIInv'
<1>1. StreamTypeOK /\ TargetInv /\ CopyInv /\ OrderInv /\ RecoveryInv
  BY DEF StreamIInv
<1>2. /\ poll.pc = "check" /\ "check" \in Copying
      /\ UNCHANGED <<dma, flowing, ovr, buf, blocks, laps, ready, recovery, out, faults>>
  BY DEF Check, hardware, Copying
<1>3. CASE dma.ct = poll.sel
  <2>1. Discard
    BY <1>3 DEF Check
  <2> QED
    BY <1>1, <1>2, <2>1, DiscardStep DEF StreamIInv
<1>4. CASE dma.ct # poll.sel
  <2>1. poll' = [poll EXCEPT !.pc = "copy1"] /\ pending' = pending
    BY <1>4 DEF Check
  <2>2. /\ poll' \in PollStates /\ poll'.pc = "copy1" /\ poll'.sel = poll.sel
        /\ poll'.flags = poll.flags /\ poll'.copy = poll.copy
    BY <1>1, <2>1, StreamTypes DEF PollStates
  <2>3. StreamTypeOK'
    BY <1>1, <1>2, <2>1, <2>2 DEF StreamTypeOK, PollStates, Numbers
  <2>4. outstanding' = outstanding /\ TargetInv'
    BY <1>1, <1>2 DEF outstanding, TargetInv
  <2>5. outstanding = 0
    BY <1>1, <1>2, <1>4 DEF outstanding, CopyInv
  <2>6. CopyInv'
    BY <1>1, <1>2, <1>4, <2>1, <2>2, <2>4, <2>5, StreamTypes DEF CopyInv, Copying
  <2>7. OrderInv' /\ RecoveryInv'
    BY <1>1, <1>2, <2>1, <2>2, <2>4 DEF OrderInv, RecoveryInv, Holding, Copying
  <2> QED
    BY <2>3, <2>4, <2>6, <2>7 DEF StreamIInv
<1> QED
  BY <1>3, <1>4

LEMMA CopyFirstHalfStep == ASSUME StreamIInv, CopyFirstHalf PROVE StreamIInv'
<1>1. StreamTypeOK /\ TargetInv /\ CopyInv /\ OrderInv /\ RecoveryInv
  BY DEF StreamIInv
<1>2. /\ poll.pc = "copy1"
      /\ poll' = [poll EXCEPT !.copy[1] = buf[poll.sel][1], !.pc = "copy2"]
      /\ UNCHANGED <<dma, flowing, ovr, buf, blocks, laps, ready, pending, recovery, out,
                     faults>>
  BY DEF CopyFirstHalf, hardware
<1>3. buf[poll.sel][1] \in Numbers
  BY <1>1, StreamTypes
<1>4. /\ [poll.copy EXCEPT ![1] = buf[poll.sel][1]] \in Numbers \X Numbers
      /\ [poll.copy EXCEPT ![1] = buf[poll.sel][1]][1] = buf[poll.sel][1]
      /\ [poll.copy EXCEPT ![1] = buf[poll.sel][1]][2] = poll.copy[2]
  BY <1>1, <1>3, StreamTypes, PairUpdate
<1>5. /\ poll' \in PollStates /\ poll'.pc = "copy2" /\ poll'.sel = poll.sel
      /\ poll'.flags = poll.flags
      /\ poll'.copy[1] = buf[poll.sel][1] /\ poll'.copy[2] = poll.copy[2]
  BY <1>1, <1>2, <1>4, StreamTypes DEF PollStates
<1>6. StreamTypeOK'
  BY <1>1, <1>2, <1>5 DEF StreamTypeOK, PollStates, Numbers
<1>7. outstanding' = outstanding /\ TargetInv'
  BY <1>1, <1>2 DEF outstanding, TargetInv
<1>8. CopyInv'
  BY <1>1, <1>2, <1>5 DEF CopyInv, Copying
<1>9. OrderInv' /\ RecoveryInv'
  BY <1>1, <1>2, <1>5, <1>7 DEF OrderInv, RecoveryInv, Holding, Copying
<1> QED
  BY <1>6, <1>7, <1>8, <1>9 DEF StreamIInv

LEMMA CopySecondHalfStep == ASSUME StreamIInv, CopySecondHalf PROVE StreamIInv'
<1>1. StreamTypeOK /\ TargetInv /\ CopyInv /\ OrderInv /\ RecoveryInv
  BY DEF StreamIInv
<1>2. /\ poll.pc = "copy2"
      /\ poll' = [poll EXCEPT !.copy[2] = buf[poll.sel][2], !.pc = "recheck"]
      /\ UNCHANGED <<dma, flowing, ovr, buf, blocks, laps, ready, pending, recovery, out,
                     faults>>
  BY DEF CopySecondHalf, hardware
<1>3. buf[poll.sel][2] \in Numbers
  BY <1>1, StreamTypes
<1>4. /\ [poll.copy EXCEPT ![2] = buf[poll.sel][2]] \in Numbers \X Numbers
      /\ [poll.copy EXCEPT ![2] = buf[poll.sel][2]][2] = buf[poll.sel][2]
      /\ [poll.copy EXCEPT ![2] = buf[poll.sel][2]][1] = poll.copy[1]
  BY <1>1, <1>3, StreamTypes, PairUpdate
<1>5. /\ poll' \in PollStates /\ poll'.pc = "recheck" /\ poll'.sel = poll.sel
      /\ poll'.flags = poll.flags
      /\ poll'.copy[2] = buf[poll.sel][2] /\ poll'.copy[1] = poll.copy[1]
  BY <1>1, <1>2, <1>4, StreamTypes DEF PollStates
<1>6. StreamTypeOK'
  BY <1>1, <1>2, <1>5 DEF StreamTypeOK, PollStates, Numbers
<1>7. outstanding' = outstanding /\ TargetInv'
  BY <1>1, <1>2 DEF outstanding, TargetInv
<1>8. CopyInv'
  BY <1>1, <1>2, <1>5 DEF CopyInv, Copying
<1>9. OrderInv' /\ RecoveryInv'
  BY <1>1, <1>2, <1>5, <1>7 DEF OrderInv, RecoveryInv, Holding, Copying
<1> QED
  BY <1>6, <1>7, <1>8, <1>9 DEF StreamIInv

LEMMA RecheckStep == ASSUME StreamIInv, Recheck PROVE StreamIInv'
<1>1. StreamTypeOK /\ TargetInv /\ CopyInv /\ OrderInv /\ RecoveryInv
  BY DEF StreamIInv
<1>2. /\ poll.pc = "recheck" /\ "recheck" \in Copying
      /\ UNCHANGED <<dma, flowing, ovr, buf, blocks, laps, ready, recovery, out, faults>>
  BY DEF Recheck, hardware, Copying
<1>3. CASE dma.ct = poll.sel
  <2>1. Discard
    BY <1>3 DEF Recheck
  <2> QED
    BY <1>1, <1>2, <2>1, DiscardStep DEF StreamIInv
<1>4. CASE dma.ct # poll.sel
  <2>1. poll' = [poll EXCEPT !.pc = "process"] /\ pending' = pending
    BY <1>4 DEF Recheck
  <2>2. /\ poll' \in PollStates /\ poll'.pc = "process" /\ poll'.sel = poll.sel
        /\ poll'.flags = poll.flags /\ poll'.copy = poll.copy
    BY <1>1, <2>1, StreamTypes DEF PollStates
  <2>3. StreamTypeOK'
    BY <1>1, <1>2, <2>1, <2>2 DEF StreamTypeOK, PollStates, Numbers
  <2>4. outstanding' = outstanding /\ TargetInv'
    BY <1>1, <1>2 DEF outstanding, TargetInv
  <2>5. outstanding = 0
    BY <1>1, <1>2, <1>4 DEF outstanding, CopyInv
  <2>6. CopyInv'
    BY <1>1, <1>2, <1>4, <2>1, <2>2, <2>4, <2>5, StreamTypes DEF CopyInv, Copying
  <2>7. OrderInv' /\ RecoveryInv'
    BY <1>1, <1>2, <2>1, <2>2, <2>4 DEF OrderInv, RecoveryInv, Holding, Copying
  <2> QED
    BY <2>3, <2>4, <2>6, <2>7 DEF StreamIInv
<1> QED
  BY <1>3, <1>4

LEMMA PublishStep == ASSUME StreamIInv, Publish PROVE StreamIInv'
<1>1. StreamTypeOK /\ TargetInv /\ CopyInv /\ OrderInv /\ RecoveryInv
  BY DEF StreamIInv
<1>2. /\ poll.pc = "process"
      /\ out' = [block |-> poll.copy[2], flags |-> poll.flags]
      /\ poll' \in PollStates /\ poll'.pc = "idle"
      /\ UNCHANGED <<dma, flowing, ovr, buf, blocks, laps, ready, pending, recovery, faults>>
  BY IdleType DEF Publish, hardware
<1>3. out'.block = poll.copy[2] /\ out'.flags = poll.flags
  BY <1>2
<1>4. StreamTypeOK'
  BY <1>1, <1>2 DEF StreamTypeOK, PollStates, Numbers
<1>5. outstanding' = outstanding /\ TargetInv'
  BY <1>1, <1>2 DEF outstanding, TargetInv
<1>6. CopyInv'
  BY <1>2 DEF CopyInv, Copying
<1>7. OrderInv' /\ RecoveryInv'
  BY <1>1, <1>2, <1>3, <1>5, StreamTypes DEF CopyInv, OrderInv, RecoveryInv, Holding, Copying
<1> QED
  BY <1>4, <1>5, <1>6, <1>7 DEF StreamIInv

LEMMA ProcessFailsStep == ASSUME StreamIInv, ProcessFails PROVE StreamIInv'
<1>1. StreamTypeOK /\ TargetInv /\ CopyInv /\ OrderInv /\ RecoveryInv
  BY DEF StreamIInv
<1>2. /\ pending' = pending \union poll.flags \union {"ADC_ERROR"} /\ pending' # {}
      /\ poll' \in PollStates /\ poll'.pc = "idle"
      /\ UNCHANGED <<dma, flowing, ovr, buf, blocks, laps, ready, recovery, out, faults>>
  BY IdleType DEF ProcessFails, hardware
<1>3. pending' \in SUBSET Flags
  BY <1>1, <1>2 DEF StreamTypeOK, Flags
<1>4. StreamTypeOK'
  BY <1>1, <1>2, <1>3 DEF StreamTypeOK, PollStates, Numbers
<1>5. outstanding' = outstanding /\ TargetInv'
  BY <1>1, <1>2 DEF outstanding, TargetInv
<1>6. CopyInv' /\ OrderInv' /\ RecoveryInv'
  BY <1>1, <1>2, <1>5 DEF CopyInv, OrderInv, RecoveryInv, Copying
<1> QED
  BY <1>4, <1>5, <1>6 DEF StreamIInv

LEMMA StreamInitInv == ASSUME StreamInit PROVE StreamIInv
<1>1. /\ dma = [en |-> TRUE, ct |-> 0, half |-> FALSE, tc |-> FALSE, err |-> FALSE]
      /\ buf = [b \in Buffers |-> <<0, 0>>]
      /\ flowing = TRUE /\ ovr = FALSE /\ ready = {} /\ pending = {} /\ recovery = FALSE
      /\ poll \in PollStates /\ poll.pc = "idle" /\ blocks = 0
      /\ out = [block |-> 0, flags |-> {}] /\ laps = 0 /\ faults = 0
  BY IdleType DEF StreamInit
<1>2. /\ 0 \in Numbers /\ 0 \in 0 .. Laps /\ 0 \in 0 .. MaxFaults
      /\ <<0, 0>> \in Numbers \X Numbers
  BY StreamAssumption DEF Numbers
<1>3. StreamTypeOK
  BY <1>1, <1>2 DEF StreamTypeOK, PollStates, Numbers, Buffers
<1>4. TargetInv /\ CopyInv /\ OrderInv /\ RecoveryInv
  BY <1>1 DEF TargetInv, CopyInv, OrderInv, RecoveryInv, outstanding, Copying
<1> QED
  BY <1>3, <1>4 DEF StreamIInv

LEMMA StreamNextInv ==
  ASSUME Laps = 1, StreamIInv, [StreamNext]_streamVars PROVE StreamIInv'
<1>1. CASE UNCHANGED streamVars
  BY <1>1 DEF streamVars, hardware, StreamIInv, StreamTypeOK, TargetInv, CopyInv, OrderInv,
              RecoveryInv, outstanding
<1>2. CASE FillFirstHalf \/ CompleteTarget \/ AdcOverrun
           \/ \E stops \in BOOLEAN : DmaError(stops)
  BY <1>2, FillFirstHalfStep, CompleteTargetStep, ErrorStep
<1>3. CASE Handlers
  BY <1>3, DmaIrqErrorStep, DmaIrqCompleteStep, AdcIrqStep DEF Handlers
<1>4. CASE Foreground
  BY <1>4, PollBeginStep, RestartStep, RestartFailsStep, TriggerStep, AcknowledgeStep,
     SelectStep, CheckStep, CopyFirstHalfStep, CopySecondHalfStep, RecheckStep, PublishStep,
     ProcessFailsStep DEF Foreground
<1> QED
  BY <1>1, <1>2, <1>3, <1>4 DEF StreamNext

\* The stream's invariant, when at most one completion falls into one copy: a
\* block takes 16 ms, copying 320 half-words far less.
THEOREM StreamInvariant == ASSUME Laps = 1 PROVE StreamSpec => []StreamIInv
BY StreamInitInv, StreamNextInv, PTL DEF StreamSpec

\* What the foreground hands on after both checks of CT is one whole block,
\* however DMA, the handlers and the foreground interleave.
THEOREM WholeBlocks == ASSUME Laps = 1 PROVE StreamSpec => []StreamSound
<1>1. StreamIInv => StreamSound
  BY DEF StreamIInv, StreamSound, CopyInv, NoTornBlock
<1> QED
  BY <1>1, StreamInvariant, PTL

\* No block is published twice or after a newer one.
THEOREM InOrder == ASSUME Laps = 1 PROVE StreamSpec => BlocksInOrder
<1>1. StreamIInv /\ [StreamNext]_streamVars => [Publish => out'.block > out.block]_streamVars
  <2> SUFFICES ASSUME StreamIInv, Publish PROVE out'.block > out.block
    OBVIOUS
  <2>1. poll.pc = "process" /\ out'.block = poll.copy[2] /\ CopyInv /\ StreamTypeOK
    BY DEF Publish, StreamIInv
  <2> QED
    BY <2>1, StreamTypes DEF CopyInv
<1> QED
  BY <1>1, StreamInvariant, PTL DEF StreamSpec, BlocksInOrder

\* Blocks that are missing between two measurements are announced by a flag.
THEOREM MissingAnnounced == ASSUME Laps = 1 PROVE StreamSpec => GapsAreFlagged
<1>1. StreamIInv /\ [StreamNext]_streamVars =>
        [(out' # out /\ out'.block > out.block + 1) => out'.flags # {} \/ out.flags # {}]_streamVars
  <2> SUFFICES ASSUME StreamIInv, StreamNext, out' # out, out'.block > out.block + 1
               PROVE  out'.flags # {} \/ out.flags # {}
    BY DEF streamVars
  <2>1. Publish
    BY DEF StreamNext, Handlers, Foreground, FillFirstHalf, CompleteTarget, DmaError, AdcOverrun,
       DmaIrqError, DmaIrqComplete, AdcIrq, PollBegin, Restart, RestartFails, Trigger,
       Acknowledge, Select, Check, CopyFirstHalf, CopySecondHalf, Recheck, ProcessFails
  <2>2. /\ poll.pc = "process" /\ out'.block = poll.copy[2] /\ out'.flags = poll.flags
        /\ CopyInv /\ StreamTypeOK
    BY <2>1 DEF Publish, StreamIInv
  <2> QED
    BY <2>2, StreamTypes DEF CopyInv
<1> QED
  BY <1>1, StreamInvariant, PTL DEF StreamSpec, GapsAreFlagged

\* The published measurements account for every block: each at most once, in
\* order, and the missing ones announced.
THEOREM EveryBlockAccounted == ASSUME Laps = 1 PROVE StreamSpec => BlocksAccounted
BY InOrder, MissingAnnounced DEF BlocksAccounted

(***************************************************************************)
(* The speed capture.  The overflow count and a capture that are pending   *)
(* together can be told apart because neither is older than half a wrap;   *)
(* from there the difference of two timestamps is the distance of the two  *)
(* pulses, modulo what the timestamps can count.                           *)
(***************************************************************************)
\* Quotient and remainder.
LEMMA DivMod ==
  ASSUME NEW a \in Int, NEW b \in Nat \ {0}
  PROVE  a = b * (a \div b) + (a % b) /\ a \div b \in Int /\ a % b \in 0 .. b - 1
<1>1. a \div b \in Int
  OBVIOUS
<1>2. a % b \in 0 .. b - 1
  OBVIOUS
<1>3. a = b * (a \div b) + (a % b)
  OBVIOUS
<1> QED
  BY <1>1, <1>2, <1>3

\* The same, as the quotient and the remainder there are.
LEMMA Divided ==
  ASSUME NEW a \in Nat, NEW b \in Nat \ {0}
  PROVE  \E q \in Int, r \in 0 .. b - 1 : a = b * q + r /\ q = a \div b /\ r = a % b
BY DivMod

\* A larger factor, a larger product.
LEMMA Mult ==
  ASSUME NEW b \in Nat \ {0}, NEW p \in Int, NEW q \in Int, p >= q + 1
  PROVE  b * p >= b * q + b
OBVIOUS

\* There is no other quotient and remainder.
LEMMA DivModUnique ==
  ASSUME NEW b \in Nat \ {0}, NEW q \in Int, NEW r \in 0 .. b - 1
  PROVE  (b * q + r) \div b = q /\ (b * q + r) % b = r
<1>0. PICK a \in Int : a = b * q + r
  OBVIOUS
<1>1. PICK p \in Int, s \in 0 .. b - 1 : a = b * p + s /\ p = a \div b /\ s = a % b
  BY DivMod
<1>2. ~(p >= q + 1)
  <2> SUFFICES ASSUME p >= q + 1 PROVE FALSE
    OBVIOUS
  <2>1. b * p >= b * q + b
    BY Mult
  <2>2. PICK u, v : u = b * p /\ v = b * q /\ u \in Int /\ v \in Int
    OBVIOUS
  <2> QED
    BY <1>0, <1>1, <2>1, <2>2
<1>3. ~(q >= p + 1)
  <2> SUFFICES ASSUME q >= p + 1 PROVE FALSE
    OBVIOUS
  <2>1. b * q >= b * p + b
    BY Mult
  <2>2. PICK u, v : u = b * p /\ v = b * q /\ u \in Int /\ v \in Int
    OBVIOUS
  <2> QED
    BY <1>0, <1>1, <2>1, <2>2
<1>4. p = q
  BY <1>2, <1>3
<1>5. s = r
  BY <1>0, <1>1, <1>4
<1> QED
  BY <1>0, <1>1, <1>4, <1>5

\* Timestamps that differ by whole moduli are the same.
LEMMA SameModulus ==
  ASSUME NEW b \in Nat \ {0}, NEW c \in Int, NEW j \in Int
  PROVE  (c + b * j) % b = c % b
<1>1. PICK q \in Int, r \in 0 .. b - 1 : c = b * q + r /\ r = c % b
  BY DivMod
<1>2. PICK p \in Int : p = q + j
  OBVIOUS
<1>3. c = b * q + r
  BY <1>1
<1>4. b * p = b * q + b * j
  BY <1>2
<1>5. c + b * j = b * p + r
  BY <1>3, <1>4
<1>6. (b * p + r) % b = r
  BY DivModUnique, Zenon
<1> QED
  BY <1>1, <1>5, <1>6

\* The values of the overflow count.
Wraps == Modulus \div Wrap
Half == Wrap \div 2

\* The widths of the hardware counter, of the overflow count and of a
\* timestamp.
LEMMA Counter ==
  /\ Wrap \in Nat \ {0} /\ Wrap > 1 /\ Modulus \in Nat \ {0} /\ Wraps \in Nat \ {0}
  /\ Modulus = Wrap * Wraps
  /\ Half \in Nat /\ Wrap = 2 * Half
<1>1. Wrap \in Nat \ {0} /\ Wrap > 1 /\ Modulus \in Nat \ {0}
  BY RpmAssumption
<1>2. PICK k \in Int : k = Wraps /\ Modulus = Wrap * k
  <2>1. Modulus % Wrap = 0
    BY RpmAssumption
  <2>2. Modulus = Wrap * (Modulus \div Wrap) + (Modulus % Wrap) /\ Modulus \div Wrap \in Int
    BY <1>1, DivMod
  <2> QED
    BY <1>1, <2>1, <2>2 DEF Wraps
<1>3. k > 0
  BY <1>1, <1>2
<1>4. Half \in Nat /\ Wrap = 2 * Half
  BY <1>1, RpmAssumption DEF Half
<1> QED
  BY <1>1, <1>2, <1>3, <1>4

\* The hardware counter passes zero once in Wrap counts.
LEMMA NextCount ==
  ASSUME NEW n \in Nat
  PROVE  /\ (n + 1) % Wrap = 0 => (n + 1) \div Wrap = (n \div Wrap) + 1 /\ n % Wrap = Wrap - 1
         /\ (n + 1) % Wrap # 0 => /\ (n + 1) \div Wrap = n \div Wrap
                                  /\ (n + 1) % Wrap = (n % Wrap) + 1
<1>1. PICK q \in Int, r \in 0 .. Wrap - 1 :
        n = Wrap * q + r /\ q = n \div Wrap /\ r = n % Wrap
  BY Counter, Divided, Zenon
<1>2. CASE r = Wrap - 1
  <2>1. PICK p \in Int : p = q + 1
    OBVIOUS
  <2>2. n + 1 = Wrap * p + 0
    <3>1. PICK w \in Nat : w = Wrap
      BY Counter
    <3>2. n = w * q + r /\ r = w - 1
      BY <1>1, <1>2, <3>1
    <3>3. w * p = w * q + w
      BY <2>1
    <3>4. n + 1 = w * p + 0
      BY <3>2, <3>3
    <3> QED
      BY <3>1, <3>4
  <2>3. 0 \in 0 .. Wrap - 1 /\ n + 1 \in Int /\ Wrap \in Nat \ {0}
    BY Counter
  <2>4. (Wrap * p + 0) \div Wrap = p /\ (Wrap * p + 0) % Wrap = 0
    BY <2>3, DivModUnique, Zenon
  <2> QED
    BY <1>1, <1>2, <2>1, <2>2, <2>4
<1>3. CASE r # Wrap - 1
  <2>1. PICK s \in 0 .. Wrap - 1 : s = r + 1
    BY <1>3, Counter
  <2>2. n + 1 = Wrap * q + s
    BY <1>1, <2>1, Counter
  <2>3. n + 1 \in Int /\ Wrap \in Nat \ {0}
    BY Counter
  <2>4. (Wrap * q + s) \div Wrap = q /\ (Wrap * q + s) % Wrap = s
    BY <2>3, DivModUnique, Zenon
  <2> QED
    BY <1>1, <2>1, <2>2, <2>4, Counter
<1> QED
  BY <1>2, <1>3

\* The capture of time t, extended by an overflow count that is right up
\* to its own wrap, is t as far as the timestamps tell.
LEMMA StampOf ==
  ASSUME NEW t \in Nat, NEW o \in Int, NEW j \in Int, t \div Wrap = o + Wraps * j
  PROVE  (o * Wrap + (t % Wrap)) % Modulus = t % Modulus
<1>1. PICK q \in Int, r \in 0 .. Wrap - 1 :
        t = Wrap * q + r /\ q = t \div Wrap /\ r = t % Wrap
  BY Counter, Divided, Zenon
<1>2. PICK w \in Nat \ {0}, k \in Nat \ {0} : w = Wrap /\ k = Wraps /\ Modulus = w * k
  BY Counter
<1>3. q = o + k * j /\ t = w * q + r
  BY <1>1, <1>2
<1>4. w * q = w * o + (w * k) * j
  BY <1>3
<1>5. PICK c \in Int : c = o * w + r
  BY <1>1, <1>2
<1>6. t = c + (w * k) * j
  BY <1>3, <1>4, <1>5
<1>7. (c + (w * k) * j) % (w * k) = c % (w * k)
  <2>1. w * k \in Nat \ {0}
    BY <1>2, Counter
  <2> QED
    BY <2>1, SameModulus
<1> QED
  BY <1>1, <1>2, <1>5, <1>6, <1>7

\* The difference of two timestamps is the time between them, as long as
\* that is less than the timestamps can count.
LEMMA DistanceOf ==
  ASSUME NEW b \in Nat, NEW l \in Nat, b <= l, l - b < Modulus
  PROVE  ((l % Modulus) - (b % Modulus) + Modulus) % Modulus = l - b
<1>1. PICK m \in Nat \ {0} : m = Modulus
  BY Counter
<1>2. PICK p \in Int, s \in 0 .. m - 1 : l = m * p + s /\ p = l \div m /\ s = l % m
  BY Divided, Zenon
<1>3. PICK q \in Int, r \in 0 .. m - 1 : b = m * q + r /\ q = b \div m /\ r = b % m
  BY Divided, Zenon
<1>4. PICK d \in 0 .. m - 1 : d = l - b
  BY <1>1
<1>5. PICK e \in Int : e = s - r + m
  OBVIOUS
<1>6. (0 <= d /\ d < m) /\ (m * 0 + d) % m = d /\ (m * 1 + d) % m = d
  BY DivModUnique
<1>7. l = m * p + s /\ b = m * q + r
  BY <1>2, <1>3
<1>8. PICK g \in Int : g = p - q /\ m * p = m * q + m * g
  OBVIOUS
<1>9. d = m * g + s - r
  BY <1>4, <1>7, <1>8
<1>10. g \in {0, 1}
  <2>1. g >= 2 => m * g >= m + m
    BY Mult
  <2>2. g <= -1 => 0 >= m * g + m
    BY Mult
  <2> QED
    BY <1>6, <1>9, <2>1, <2>2
<1>11. e = m * 0 + d \/ e = m * 1 + d
  BY <1>5, <1>9, <1>10
<1>12. e % m = d
  BY <1>6, <1>11
<1> QED
  BY <1>1, <1>2, <1>3, <1>4, <1>5, <1>12

\* The overflow count is right but for the update that is pending, pulses
\* and wraps that wait have waited for no longer than the handler may be
\* late, and the last timestamp is that of the last pulse, or of the one
\* before it while the last one waits.
CountInv ==
  /\ \E j \in Int : now \div Wrap = rpm.overflows + (IF tim.uif THEN 1 ELSE 0) + Wraps * j
  /\ tim.uif => now % Wrap <= waiting
  /\ ~Pending => waiting = 0

PulseInv ==
  /\ edges.before <= edges.last /\ edges.last - edges.before < Modulus
  /\ edges.last <= now /\ now - edges.last < Modulus
  /\ tim.cc1of => tim.cc1if
  /\ tim.cc1if => /\ tim.ccr1 = edges.last /\ now - edges.last <= waiting
                  /\ ~tim.uif => edges.last \div Wrap = now \div Wrap
  /\ rpm.has /\ ~tim.cc1if => rpm.stamp = edges.last % Modulus
  /\ rpm.has /\ tim.cc1if /\ ~tim.cc1of => rpm.stamp = edges.before % Modulus

\* The handler works on the flags there are: none comes up while it runs.
SnapshotInv ==
  irq.on => irq.uif = tim.uif /\ irq.cc1if = tim.cc1if /\ irq.cc1of = tim.cc1of

\* The age is never behind the ticks since the speed was computed, nor is
\* the age that the tick has read and is about to store.
AgeInv ==
  rpm.valid =>
    /\ tick.pc = "idle" => quiet <= rpm.age /\ quiet <= StaleMs
    /\ tick.pc = "store" => quiet <= Older(tick.age)
    /\ tick.pc = "test" => quiet <= rpm.age

\* The inductive invariant of the speed capture.
RpmInv == RpmTypeOK /\ CountInv /\ PulseInv /\ SnapshotInv /\ PeriodExact /\ AgeInv

\* No flag comes up while the handler runs, and it is less than half a wrap
\* late (at 10 kHz, 3.2 s).
Prompt == LateEvents = FALSE /\ 2 * Latency < Wrap

\* The timestamp is right whether the wrap came before the capture or after
\* it, because the handler is less than half a wrap late.
LEMMA CaptureStamped ==
  ASSUME Prompt, RpmInv, tim.cc1if
  PROVE  capture_timestamp(rpm, tim.uif, tim.ccr1 % Wrap) = edges.last % Modulus
<1>1. PICK t \in Nat, n \in Nat, o \in Nat, late \in Nat :
        t = edges.last /\ n = now /\ o = rpm.overflows /\ late = waiting
  BY RpmAssumption DEF RpmInv, RpmTypeOK
<1>2. /\ tim.ccr1 = t /\ t <= n /\ n - t <= late /\ 2 * late < Wrap
      /\ tim.uif \in BOOLEAN
      /\ ~tim.uif => t \div Wrap = n \div Wrap
      /\ tim.uif => n % Wrap <= late
  BY <1>1, RpmAssumption DEF Prompt, RpmInv, RpmTypeOK, PulseInv, CountInv
<1>3. PICK j \in Int : n \div Wrap = o + (IF tim.uif THEN 1 ELSE 0) + Wraps * j
  BY <1>1 DEF RpmInv, CountInv
<1>4. PICK c \in Nat : c = t % Wrap
  BY Counter, DivMod
<1>5. capture_timestamp(rpm, tim.uif, tim.ccr1 % Wrap) =
        IF tim.uif /\ c < Half THEN ((o + 1) * Wrap + c) % Modulus ELSE (o * Wrap + c) % Modulus
  BY <1>1, <1>2, <1>4 DEF capture_timestamp, Half
<1>6. CASE ~tim.uif
  <2>1. t \div Wrap = o + Wraps * j
    BY <1>2, <1>3, <1>6, Counter
  <2>2. (o * Wrap + (t % Wrap)) % Modulus = t % Modulus
    BY <2>1, StampOf
  <2> QED
    BY <1>1, <1>4, <1>5, <1>6, <2>2
<1>7. CASE tim.uif
  <2>1. PICK q \in Int, r \in 0 .. Wrap - 1 :
          n = Wrap * q + r /\ q = n \div Wrap /\ r = n % Wrap
    BY Counter, Divided, Zenon
  <2>2. PICK w \in Nat \ {0}, a \in Int : w = Wrap /\ a = w * q /\ w = 2 * Half /\ Half \in Nat
    BY Counter
  <2>3. n = a + r /\ r <= late /\ 2 * late < w /\ r \in 0 .. w - 1
    BY <1>2, <1>7, <2>1, <2>2
  <2>4. q = o + 1 + Wraps * j
    BY <1>3, <1>7, <2>1
  <2>5. PICK h \in Nat : h = Half /\ w = 2 * h
    BY <2>2
  <2>6. t <= n /\ n - t <= late /\ n = a + r /\ r <= late /\ late < h /\ w = 2 * h
    BY <1>2, <2>3, <2>5
  <2>7. a = w * q
    BY <2>2
  <2>8. CASE t >= a
    <3>1. PICK d \in 0 .. w - 1 : d = t - a /\ d < h
      BY <2>6, <2>8
    <3>2. (w * q + d) \div w = q /\ (w * q + d) % w = d
      BY DivModUnique, Zenon
    <3>3. t = w * q + d
      BY <2>7, <3>1
    <3>4. t \div Wrap = q /\ c = d
      BY <1>4, <2>2, <3>2, <3>3
    <3>5. PICK p \in Int : p = o + 1
      OBVIOUS
    <3>6. t \div Wrap = p + Wraps * j
      BY <2>4, <3>4, <3>5, Counter
    <3>7. (p * Wrap + (t % Wrap)) % Modulus = t % Modulus
      BY <3>6, StampOf
    <3> QED
      BY <1>1, <1>4, <1>5, <1>7, <2>5, <3>1, <3>4, <3>5, <3>7
  <2>9. CASE t < a
    <3>1. PICK d \in 0 .. w - 1 : d = w - (a - t) /\ ~(d < h)
      BY <2>6, <2>9
    <3>2. PICK p \in Int : p = q - 1
      OBVIOUS
    <3>3. (w * p + d) \div w = p /\ (w * p + d) % w = d
      BY DivModUnique, Zenon
    <3>4. w * q = w * p + w
      BY <3>2
    <3>5. t = w * p + d
      <4>1. PICK u \in Int, v \in Int : u = w * q /\ v = w * p
        OBVIOUS
      <4>2. t = v + d
        BY <2>7, <3>1, <3>4, <4>1
      <4> QED
        BY <4>1, <4>2
    <3>6. t \div Wrap = p /\ c = d
      BY <1>4, <2>2, <3>3, <3>5
    <3>7. t \div Wrap = o + Wraps * j
      BY <2>4, <3>2, <3>6, Counter
    <3>8. (o * Wrap + (t % Wrap)) % Modulus = t % Modulus
      BY <3>7, StampOf
    <3> QED
      BY <1>1, <1>4, <1>5, <1>7, <2>5, <3>1, <3>6, <3>8
  <2> QED
    BY <1>1, <2>2, <2>8, <2>9
<1> QED
  BY <1>2, <1>6, <1>7

\* The capture starts with nothing counted and nothing computed.
LEMMA RpmStarts == RpmInit => RpmInv
<1> SUFFICES ASSUME RpmInit PROVE RpmInv
  OBVIOUS
<1>1. (Wrap * 0 + 0) \div Wrap = 0 /\ (Wrap * 0 + 0) % Wrap = 0
      /\ (Modulus * 0 + 0) % Modulus = 0
  BY Counter, DivModUnique
<1>2. 0 \div Wrap = 0 /\ 0 % Wrap = 0 /\ 0 = 0 + 0 + Wraps * 0 /\ 0 \in 0 .. Wraps - 1
  BY <1>1, Counter
<1>3. RpmTypeOK
  BY <1>2, RpmAssumption, Counter DEF RpmInit, RpmTypeOK, IrqIdle, Never, Wraps
<1>4. CountInv
  BY <1>2 DEF RpmInit, CountInv, Pending
<1>5. PulseInv
  BY Counter DEF RpmInit, PulseInv
<1> QED
  BY <1>3, <1>4, <1>5 DEF RpmInit, RpmInv, SnapshotInv, PeriodExact, AgeInv, IrqIdle

\* A count of the timer: a second update cannot come before the first is
\* served.
LEMMA TimePasses ==
  ASSUME Prompt, RpmInv, Count
  PROVE  RpmInv'
<1>1. /\ ~irq.on /\ now < MaxTime /\ now + 1 - edges.last < Modulus
      /\ Pending => waiting < Latency
      /\ now' = now + 1 /\ tim' = [tim EXCEPT !.uif = @ \/ (now + 1) % Wrap = 0]
      /\ waiting' = IF Pending THEN waiting + 1 ELSE 0
      /\ UNCHANGED <<edges, irq, rpm, truth, tick, quiet>>
  BY RpmAssumption DEF Prompt, RpmInv, RpmTypeOK, Count, Possible
<1>2. RpmTypeOK /\ CountInv /\ PulseInv /\ SnapshotInv /\ PeriodExact /\ AgeInv
  BY DEF RpmInv
<1>3. PICK n \in Nat : n = now
  BY <1>2, RpmAssumption DEF RpmTypeOK
<1>4. /\ tim' \in [uif : BOOLEAN, cc1if : BOOLEAN, cc1of : BOOLEAN, ccr1 : 0..MaxTime]
      /\ tim'.uif = (tim.uif \/ (n + 1) % Wrap = 0)
      /\ tim'.cc1if = tim.cc1if /\ tim'.cc1of = tim.cc1of /\ tim'.ccr1 = tim.ccr1
  BY <1>1, <1>2, <1>3 DEF RpmTypeOK
<1>5. waiting' \in 0 .. Latency
  BY <1>1, <1>2, RpmAssumption DEF RpmTypeOK
<1>6. RpmTypeOK'
  BY <1>1, <1>2, <1>4, <1>5, RpmAssumption DEF RpmTypeOK
<1>7. /\ (n + 1) % Wrap = 0 => (n + 1) \div Wrap = (n \div Wrap) + 1 /\ n % Wrap = Wrap - 1
      /\ (n + 1) % Wrap # 0 => /\ (n + 1) \div Wrap = n \div Wrap
                               /\ (n + 1) % Wrap = (n % Wrap) + 1
  BY NextCount
<1>8. (n + 1) % Wrap = 0 => ~tim.uif
  <2>1. tim.uif => n % Wrap <= waiting /\ waiting < Latency /\ 2 * Latency < Wrap
    BY <1>1, <1>2, <1>3 DEF CountInv, Pending, Prompt
  <2> QED
    BY <1>2, <1>7, <2>1, RpmAssumption DEF RpmTypeOK
<1>9. CountInv'
  <2>1. PICK j \in Int : n \div Wrap = rpm.overflows + (IF tim.uif THEN 1 ELSE 0) + Wraps * j
    BY <1>2, <1>3 DEF CountInv
  <2>2. PICK o \in Nat, a \in Int, d \in Int : o = rpm.overflows /\ a = Wraps * j /\ d = n \div Wrap
    BY <1>2, Counter, DivMod DEF RpmTypeOK
  <2>3. (n + 1) \div Wrap = o + (IF tim'.uif THEN 1 ELSE 0) + a
    BY <1>2, <1>4, <1>7, <1>8, <2>1, <2>2 DEF RpmTypeOK
  <2>4. \E i \in Int : now' \div Wrap = rpm'.overflows + (IF tim'.uif THEN 1 ELSE 0) + Wraps * i
    BY <1>1, <1>3, <2>2, <2>3
  <2>5. tim'.uif => now' % Wrap <= waiting'
    <3>1. CASE (n + 1) % Wrap = 0
      BY <1>1, <1>3, <1>5, <3>1, RpmAssumption
    <3>2. CASE (n + 1) % Wrap # 0
      <4>1. tim'.uif => tim.uif /\ n % Wrap <= waiting /\ waiting' = waiting + 1
        BY <1>1, <1>2, <1>3, <1>4, <3>2 DEF CountInv, Pending
      <4>2. PICK e \in Nat : e = n % Wrap
        BY Counter, DivMod
      <4>3. now' % Wrap = e + 1 /\ waiting \in Nat
        BY <1>1, <1>2, <1>3, <1>7, <3>2, <4>2, RpmAssumption DEF RpmTypeOK
      <4> QED
        BY <4>1, <4>2, <4>3
    <3> QED
      BY <3>1, <3>2
  <2>6. ~Pending' => waiting' = 0
    BY <1>1, <1>2, <1>4 DEF Pending, CountInv
  <2> QED
    BY <2>4, <2>5, <2>6 DEF CountInv
<1>10. PulseInv'
  <2>1. /\ edges.last \in Nat /\ edges.before \in Nat /\ now \in Nat /\ waiting \in Nat
        /\ edges' = edges /\ rpm' = rpm
    BY <1>1, <1>2, RpmAssumption DEF RpmTypeOK
  <2>2. tim.cc1if => waiting' = waiting + 1
    BY <1>1 DEF Pending
  <2>3. tim'.cc1if => tim'.ccr1 = edges'.last /\ now' - edges'.last <= waiting'
    BY <1>1, <1>2, <1>4, <2>1, <2>2 DEF PulseInv
  <2>4. tim'.cc1if /\ ~tim'.uif => edges'.last \div Wrap = now' \div Wrap
    BY <1>1, <1>2, <1>3, <1>4, <1>7, <2>1 DEF PulseInv
  <2> QED
    BY <1>1, <1>2, <1>4, <2>1, <2>3, <2>4 DEF PulseInv
<1> QED
  BY <1>1, <1>2, <1>6, <1>9, <1>10 DEF RpmInv, SnapshotInv, PeriodExact, AgeInv

\* A pulse, on top of an unread capture or not.
LEMMA PulseCaptured ==
  ASSUME Prompt, RpmInv, Edge
  PROVE  RpmInv'
<1>1. /\ ~irq.on /\ edges' = [last |-> now, before |-> edges.last]
      /\ tim' = [tim EXCEPT !.cc1if = TRUE, !.cc1of = @ \/ tim.cc1if, !.ccr1 = now]
      /\ UNCHANGED <<now, waiting, irq, rpm, truth, tick, quiet>>
  BY RpmAssumption DEF Prompt, RpmInv, RpmTypeOK, Edge, Possible
<1>2. RpmTypeOK /\ CountInv /\ PulseInv /\ SnapshotInv /\ PeriodExact /\ AgeInv
  BY DEF RpmInv
<1>3. /\ tim' \in [uif : BOOLEAN, cc1if : BOOLEAN, cc1of : BOOLEAN, ccr1 : 0..MaxTime]
      /\ tim'.uif = tim.uif /\ tim'.cc1if = TRUE
      /\ tim'.cc1of = (tim.cc1of \/ tim.cc1if) /\ tim'.ccr1 = now
      /\ edges' \in [last : 0..MaxTime, before : 0..MaxTime]
      /\ edges'.last = now /\ edges'.before = edges.last
  BY <1>1, <1>2 DEF RpmTypeOK
<1>4. RpmTypeOK'
  BY <1>1, <1>2, <1>3 DEF RpmTypeOK
<1>5. CountInv'
  BY <1>1, <1>2, <1>3 DEF CountInv, Pending
<1>6. edges.last \in Nat /\ now \in Nat /\ waiting \in Nat /\ Modulus \in Nat \ {0}
  BY <1>2, RpmAssumption DEF RpmTypeOK
<1>7. PulseInv'
  <2>1. /\ edges.last <= now /\ now - edges.last < Modulus
        /\ tim.cc1of => tim.cc1if
        /\ rpm.has /\ ~tim.cc1if => rpm.stamp = edges.last % Modulus
    BY <1>2 DEF PulseInv
  <2>2. /\ edges'.before <= edges'.last /\ edges'.last - edges'.before < Modulus
        /\ edges'.last <= now' /\ now' - edges'.last < Modulus
        /\ now' - edges'.last <= waiting'
    BY <1>1, <1>3, <1>6, <2>1
  <2>3. rpm'.has /\ tim'.cc1if /\ ~tim'.cc1of => rpm'.stamp = edges'.before % Modulus
    BY <1>1, <1>2, <1>3, <2>1 DEF RpmTypeOK
  <2> QED
    BY <1>1, <1>3, <2>2, <2>3 DEF PulseInv
<1> QED
  BY <1>1, <1>2, <1>4, <1>5, <1>7 DEF RpmInv, SnapshotInv, PeriodExact, AgeInv

\* The handler reads the flags.
LEMMA TimerHandlerEntered ==
  ASSUME RpmInv, IrqEnter
  PROVE  RpmInv'
<1>1. RpmTypeOK /\ CountInv /\ PulseInv /\ SnapshotInv /\ PeriodExact /\ AgeInv
  BY DEF RpmInv
<1>2. /\ irq' = [on |-> TRUE, uif |-> tim.uif, cc1if |-> tim.cc1if, cc1of |-> tim.cc1of]
      /\ UNCHANGED <<now, edges, tim, waiting, rpm, truth, tick, quiet>>
  BY DEF IrqEnter
<1>3. RpmTypeOK' /\ SnapshotInv'
  BY <1>1, <1>2 DEF RpmTypeOK, SnapshotInv
<1>4. CountInv'
  BY <1>1, <1>2 DEF CountInv, Pending
<1> QED
  BY <1>1, <1>2, <1>3, <1>4 DEF RpmInv, PulseInv, PeriodExact, AgeInv

\* The steps of the tick, with the handler between any two of them.
LEMMA Ticked ==
  ASSUME RpmInv, TickRead \/ TickStore \/ TickTest \/ TickClear
  PROVE  RpmInv'
<1>1. RpmTypeOK /\ CountInv /\ PulseInv /\ SnapshotInv /\ PeriodExact /\ AgeInv
  BY DEF RpmInv
<1>2. \A age \in 0 .. Never : Older(age) \in 0 .. Never /\ age <= Older(age)
        /\ (age # Never => Older(age) <= OldAge)
  BY RpmAssumption DEF Older, OldAge, Never
<1>3. \A a, b \in 0 .. Never : a <= b => Older(a) <= Older(b)
  BY RpmAssumption DEF Older, OldAge, Never
<1>4. /\ UNCHANGED <<now, edges, tim, waiting, irq, truth>>
      /\ rpm.overflows = rpm'.overflows /\ rpm.has = rpm'.has /\ rpm.stamp = rpm'.stamp
      /\ rpm.period = rpm'.period /\ (rpm'.valid => rpm.valid)
  BY <1>1 DEF TickRead, TickStore, TickTest, TickClear, RpmTypeOK
<1>5. CountInv'
  BY <1>1, <1>4 DEF CountInv, Pending
<1>6. PulseInv'
  BY <1>1, <1>4 DEF PulseInv
<1>7. SnapshotInv' /\ PeriodExact'
  BY <1>1, <1>4 DEF SnapshotInv, PeriodExact
<1>8. CASE TickRead
  <2>1. RpmTypeOK'
    BY <1>1, <1>2, <1>8 DEF TickRead, RpmTypeOK
  <2>2. AgeInv'
    BY <1>1, <1>2, <1>3, <1>8, RpmAssumption DEF TickRead, RpmTypeOK, AgeInv, Never, OldAge
  <2> QED
    BY <1>5, <1>6, <1>7, <2>1, <2>2 DEF RpmInv
<1>9. CASE TickStore
  <2>1. RpmTypeOK' /\ rpm'.age = Older(tick.age) /\ rpm'.valid = rpm.valid
    BY <1>1, <1>2, <1>9 DEF TickStore, RpmTypeOK
  <2>2. AgeInv'
    BY <1>1, <1>9, <2>1 DEF TickStore, RpmTypeOK, AgeInv
  <2> QED
    BY <1>5, <1>6, <1>7, <2>1, <2>2 DEF RpmInv
<1>10. CASE TickTest
  <2>1. RpmTypeOK'
    BY <1>1, <1>10 DEF TickTest, RpmTypeOK
  <2>2. AgeInv'
    BY <1>1, <1>10, RpmAssumption DEF TickTest, RpmTypeOK, AgeInv, Never
  <2> QED
    BY <1>5, <1>6, <1>7, <2>1, <2>2 DEF RpmInv
<1>11. CASE TickClear
  <2>1. RpmTypeOK'
    BY <1>1, <1>11 DEF TickClear, RpmTypeOK
  <2>2. AgeInv'
    BY <1>1, <1>11 DEF TickClear, RpmTypeOK, AgeInv
  <2> QED
    BY <1>5, <1>6, <1>7, <2>1, <2>2 DEF RpmInv
<1> QED
  BY <1>8, <1>9, <1>10, <1>11

\* Two timestamps have no distance only when they are the same.
LEMMA ApartOf ==
  ASSUME NEW s \in 0 .. Modulus - 1, NEW r \in 0 .. Modulus - 1
  PROVE  /\ (s - r + Modulus) % Modulus \in 0 .. Modulus - 1
         /\ (s - r + Modulus) % Modulus = 0 <=> s = r
<1>1. PICK m \in Nat \ {0} : m = Modulus
  BY Counter
<1>2. PICK e \in Int : e = s - r + m
  BY <1>1
<1>3. CASE s >= r
  <2>1. PICK d \in 0 .. m - 1 : d = s - r
    BY <1>1, <1>3
  <2>2. (m * 1 + d) % m = d
    BY DivModUnique
  <2>3. e = m * 1 + d
    BY <1>1, <1>2, <2>1
  <2> QED
    BY <1>1, <1>2, <2>1, <2>2, <2>3
<1>4. CASE s < r
  <2>1. PICK d \in 0 .. m - 1 : d = s - r + m /\ d # 0
    BY <1>1, <1>4
  <2>2. (m * 0 + d) % m = d
    BY DivModUnique
  <2>3. e = m * 0 + d
    BY <1>1, <1>2, <2>1
  <2> QED
    BY <1>1, <1>2, <1>4, <2>1, <2>2, <2>3
<1> QED
  BY <1>1, <1>3, <1>4

\* The record the handler and the tick share.
RpmRecords ==
  [overflows : 0..Wraps - 1, has : BOOLEAN, stamp : 0..Modulus - 1,
   period : 0..Modulus - 1, valid : BOOLEAN, age : 0..Never]

\* The handler: a speed from the last two pulses, or none.
LEMMA TimerHandled ==
  ASSUME Prompt, RpmInv, IrqFinish
  PROVE  RpmInv'
<1> DEFINE C == IF tim.cc1if THEN captured(rpm, tim.uif, tim.ccr1 % Wrap) ELSE rpm
           computed == tim.cc1if /\ rpm.has /\ C.stamp # rpm.stamp
           U == IF tim.uif THEN [C EXCEPT !.overflows = (@ + 1) % Wraps] ELSE C
<1>1. RpmTypeOK /\ CountInv /\ PulseInv /\ SnapshotInv /\ PeriodExact /\ AgeInv
  BY DEF RpmInv
<1>2. irq.uif = tim.uif /\ irq.cc1if = tim.cc1if /\ irq.cc1of = tim.cc1of
  BY <1>1 DEF SnapshotInv, IrqFinish
<1>3. /\ rpm' = IF tim.cc1of THEN [U EXCEPT !.valid = FALSE, !.has = FALSE] ELSE U
      /\ truth' = IF computed THEN edges.last - edges.before ELSE truth
      /\ quiet' = IF computed THEN 0 ELSE quiet
      /\ tim' = [tim EXCEPT !.uif = FALSE, !.cc1if = FALSE, !.cc1of = FALSE]
      /\ waiting' = 0 /\ irq' = IrqIdle
      /\ UNCHANGED <<now, edges, tick>>
  BY <1>2 DEF IrqFinish, Wraps
<1>4. rpm \in RpmRecords
  BY <1>1 DEF RpmTypeOK, RpmRecords, Wraps
<1>5. PICK stamp \in 0 .. Modulus - 1 : stamp = edges.last % Modulus
  <2>1. PICK l \in Nat : l = edges.last
    BY <1>1, RpmAssumption DEF RpmTypeOK
  <2>2. \E q \in Int, r \in 0 .. Modulus - 1 : l = Modulus * q + r /\ q = l \div Modulus /\ r = l % Modulus
    BY Counter, Divided, Zenon
  <2> QED
    BY <2>1, <2>2
<1>6. PICK period \in 0 .. Modulus - 1 :
        /\ period = (stamp - rpm.stamp + Modulus) % Modulus
        /\ period = 0 <=> stamp = rpm.stamp
  <2>1. PICK old \in 0 .. Modulus - 1 : old = rpm.stamp
    BY <1>4 DEF RpmRecords
  <2>2. /\ (stamp - old + Modulus) % Modulus \in 0 .. Modulus - 1
        /\ (stamp - old + Modulus) % Modulus = 0 <=> stamp = old
    BY ApartOf, Zenon
  <2> QED
    BY <2>1, <2>2
<1>7. PICK c \in RpmRecords :
        /\ c = C /\ c.overflows = rpm.overflows
        /\ tim.cc1if => c.has /\ c.stamp = stamp
        /\ ~tim.cc1if => c = rpm
        /\ IF tim.cc1if /\ rpm.has /\ stamp # rpm.stamp
             THEN c.period = period /\ c.age = 0 /\ c.valid
             ELSE c.period = rpm.period /\ c.age = rpm.age /\ c.valid = rpm.valid
  <2>1. CASE ~tim.cc1if
    BY <1>4, <2>1
  <2>2. CASE tim.cc1if
    <3>1. capture_timestamp(rpm, tim.uif, tim.ccr1 % Wrap) = stamp
      BY <1>5, <2>2, CaptureStamped
    <3>2. C = IF rpm.has /\ stamp # rpm.stamp
                THEN [rpm EXCEPT !.period = period, !.age = 0, !.valid = TRUE, !.stamp = stamp]
                ELSE [rpm EXCEPT !.has = TRUE, !.stamp = stamp]
      BY <1>6, <2>2, <3>1 DEF captured
    <3>3. 0 \in 0 .. Never
      BY RpmAssumption DEF Never
    <3> HIDE DEF C
    <3>4. CASE rpm.has /\ stamp # rpm.stamp
      <4>1. C = [rpm EXCEPT !.period = period, !.age = 0, !.valid = TRUE, !.stamp = stamp]
        BY <3>2, <3>4
      <4>2. C \in RpmRecords /\ C.overflows = rpm.overflows /\ C.has /\ C.stamp = stamp
            /\ C.period = period /\ C.age = 0 /\ C.valid
        BY <1>4, <3>3, <3>4, <4>1 DEF RpmRecords
      <4> QED
        BY <2>2, <3>4, <4>2
    <3>5. CASE ~(rpm.has /\ stamp # rpm.stamp)
      <4>1. C = [rpm EXCEPT !.has = TRUE, !.stamp = stamp]
        BY <3>2, <3>5
      <4>2. C \in RpmRecords /\ C.overflows = rpm.overflows /\ C.has /\ C.stamp = stamp
            /\ C.period = rpm.period /\ C.age = rpm.age /\ C.valid = rpm.valid
        BY <1>4, <4>1 DEF RpmRecords
      <4> QED
        BY <2>2, <3>5, <4>2
    <3> QED
      BY <3>4, <3>5
  <2> QED
    BY <2>1, <2>2
<1>8. computed <=> tim.cc1if /\ rpm.has /\ stamp # rpm.stamp
  BY <1>7
<1>9. PICK o \in 0 .. Wraps - 1 :
        /\ o = IF tim.uif THEN (rpm.overflows + 1) % Wraps ELSE rpm.overflows
        /\ \E j \in Int : now \div Wrap = o + Wraps * j
  <2>1. PICK j \in Int : now \div Wrap = rpm.overflows + (IF tim.uif THEN 1 ELSE 0) + Wraps * j
    BY <1>1 DEF CountInv
  <2>2. PICK n \in Nat, k \in Nat \ {0} : n = rpm.overflows /\ k = Wraps /\ n \in 0 .. k - 1
    BY <1>4, Counter DEF RpmRecords
  <2>3. CASE ~tim.uif
    BY <1>4, <2>1, <2>2, <2>3 DEF RpmRecords
  <2>4. CASE tim.uif
    <3>1. PICK q \in Int, r \in 0 .. k - 1 :
            n + 1 = k * q + r /\ q = (n + 1) \div k /\ r = (n + 1) % k
      <4>1. n + 1 \in Nat
        OBVIOUS
      <4> QED
        BY <4>1, Divided, Zenon
    <3>2. PICK i \in Int : i = q + j
      OBVIOUS
    <3>3. k * i = k * q + k * j
      BY <3>2
    <3>4. n + 1 = k * q + r
      BY <3>1
    <3>5. n + 1 + k * j = r + k * i
      BY <3>3, <3>4
    <3>6. now \div Wrap = r + Wraps * i
      BY <2>1, <2>2, <2>4, <3>5
    <3>7. r = (rpm.overflows + 1) % Wraps /\ r \in 0 .. Wraps - 1
      BY <2>2, <3>1
    <3> QED
      BY <2>4, <3>6, <3>7
  <2> QED
    BY <2>3, <2>4
<1> HIDE DEF computed
<1>10. /\ rpm' \in RpmRecords
       /\ rpm'.overflows = o /\ rpm'.stamp = c.stamp /\ rpm'.period = c.period
       /\ rpm'.age = c.age
       /\ rpm'.valid = (c.valid /\ ~tim.cc1of) /\ rpm'.has = (c.has /\ ~tim.cc1of)
  <2>1. PICK u \in RpmRecords :
          u = U /\ u.overflows = o /\ u.stamp = c.stamp /\ u.period = c.period
          /\ u.age = c.age /\ u.valid = c.valid /\ u.has = c.has
    <3>1. U = IF tim.uif THEN [c EXCEPT !.overflows = o] ELSE c
      BY <1>7, <1>9
    <3> HIDE DEF U
    <3> QED
      BY <1>7, <1>9, <3>1 DEF RpmRecords
  <2>2. rpm' = IF tim.cc1of THEN [u EXCEPT !.valid = FALSE, !.has = FALSE] ELSE u
    BY <1>3, <2>1
  <2>3. tim.cc1of \in BOOLEAN
    BY <1>1 DEF RpmTypeOK
  <2> QED
    BY <2>1, <2>2, <2>3 DEF RpmRecords
<1>11. /\ tim' \in [uif : BOOLEAN, cc1if : BOOLEAN, cc1of : BOOLEAN, ccr1 : 0..MaxTime]
       /\ ~tim'.uif /\ ~tim'.cc1if /\ ~tim'.cc1of
  BY <1>1, <1>3 DEF RpmTypeOK
<1>12. /\ edges.last \in 0 .. MaxTime /\ edges.before \in 0 .. MaxTime
       /\ edges.before <= edges.last /\ edges.last - edges.before < Modulus
  BY <1>1 DEF RpmTypeOK, PulseInv
<1>13. RpmTypeOK'
  <2>1. truth' \in 0 .. MaxTime /\ quiet' \in 0 .. Never
    BY <1>1, <1>3, <1>12, RpmAssumption DEF RpmTypeOK, Never
  <2>2. rpm' \in [overflows : 0..(Modulus \div Wrap) - 1, has : BOOLEAN, stamp : 0..Modulus - 1,
                  period : 0..Modulus - 1, valid : BOOLEAN, age : 0..Never]
    BY <1>10 DEF RpmRecords, Wraps
  <2>3. waiting' \in 0 .. Latency /\ irq' \in [on : BOOLEAN, uif : BOOLEAN, cc1if : BOOLEAN, cc1of : BOOLEAN]
    BY <1>3, RpmAssumption DEF IrqIdle
  <2> QED
    BY <1>1, <1>3, <1>11, <2>1, <2>2, <2>3 DEF RpmTypeOK
<1>14. CountInv'
  <2>1. PICK j \in Int : now \div Wrap = o + Wraps * j
    BY <1>9
  <2>2. PICK d \in Int, a \in Int : d = now \div Wrap /\ a = Wraps * j /\ d = o + a
    BY <2>1, Counter
  <2>3. now' \div Wrap = rpm'.overflows + (IF tim'.uif THEN 1 ELSE 0) + Wraps * j
    BY <1>3, <1>10, <1>11, <2>2
  <2> QED
    BY <1>3, <1>11, <2>3 DEF CountInv
<1>15. PulseInv'
  <2>1. rpm'.has => rpm'.stamp = edges.last % Modulus
    BY <1>1, <1>5, <1>7, <1>10 DEF PulseInv
  <2> QED
    BY <1>1, <1>3, <1>11, <2>1 DEF PulseInv
<1>16. PeriodExact'
  <2> SUFFICES ASSUME rpm'.valid PROVE rpm'.period = truth'
    BY DEF PeriodExact
  <2>1. CASE computed
    <3>1. rpm.stamp = edges.before % Modulus
      BY <1>1, <1>8, <1>10, <2>1 DEF PulseInv
    <3>2. ((edges.last % Modulus) - (edges.before % Modulus) + Modulus) % Modulus
            = edges.last - edges.before
      <4>1. PICK b \in Nat, l \in Nat : b = edges.before /\ l = edges.last /\ b <= l /\ l - b < Modulus
        BY <1>12, RpmAssumption
      <4>2. ((l % Modulus) - (b % Modulus) + Modulus) % Modulus = l - b
        BY <4>1, DistanceOf, Zenon
      <4> QED
        BY <4>1, <4>2
    <3> QED
      BY <1>3, <1>5, <1>6, <1>7, <1>8, <1>10, <2>1, <3>1, <3>2
  <2>2. CASE ~computed
    BY <1>1, <1>3, <1>7, <1>8, <1>10, <2>2 DEF PeriodExact
  <2> QED
    BY <2>1, <2>2
<1>17. AgeInv'
  <2> SUFFICES ASSUME rpm'.valid
               PROVE  /\ tick.pc = "idle" => quiet' <= rpm'.age /\ quiet' <= StaleMs
                      /\ tick.pc = "store" => quiet' <= Older(tick.age)
                      /\ tick.pc = "test" => quiet' <= rpm'.age
    BY <1>3 DEF AgeInv
  <2>1. CASE computed
    <3>1. quiet' = 0 /\ rpm'.age = 0 /\ Older(tick.age) >= 0 /\ StaleMs >= 0
      BY <1>1, <1>3, <1>7, <1>8, <1>10, <2>1, RpmAssumption DEF RpmTypeOK, Older, OldAge, Never
    <3> QED
      BY <3>1
  <2>2. CASE ~computed
    BY <1>1, <1>3, <1>7, <1>8, <1>10, <2>2 DEF AgeInv
  <2> QED
    BY <2>1, <2>2
<1>18. SnapshotInv'
  BY <1>3 DEF SnapshotInv, IrqIdle
<1> QED
  BY <1>13, <1>14, <1>15, <1>16, <1>17, <1>18 DEF RpmInv

\* Every step of the timer, the handler and the tick keeps the invariant.
LEMMA RpmSteps ==
  ASSUME Prompt, RpmInv, [RpmNext]_rpmVars
  PROVE  RpmInv'
<1>1. CASE UNCHANGED rpmVars
  BY <1>1 DEF rpmVars, RpmInv, RpmTypeOK, CountInv, Pending, PulseInv, SnapshotInv, PeriodExact, AgeInv
<1> QED
  BY <1>1, TimePasses, PulseCaptured, TimerHandlerEntered, TimerHandled, Ticked DEF RpmNext

\* However pulses, wraps, the handler and the tick interleave, the capture keeps
\* its overflow count, its timestamps and its age in step with the time.
THEOREM SpeedInvariant == ASSUME Prompt PROVE RpmSpec => []RpmInv
BY RpmStarts, RpmSteps, PTL DEF RpmSpec

\* A speed TIM3_IRQHandler and the 1 ms tick leave marked valid is that of the
\* last two pulses it was computed from, across wraps of the counter and of the
\* timestamps, and is marked stale in time.
THEOREM SpeedIsSound == ASSUME Prompt PROVE RpmSpec => []SpeedSound
<1>1. RpmInv => SpeedSound
  BY DEF RpmInv, SpeedSound, StaleInTime, AgeInv
<1> QED
  BY <1>1, SpeedInvariant, PTL

(***************************************************************************)
(* The start of the device, for every clock tree, every set of factory     *)
(* words and every baud rate.  The drivers decode the clock tree one       *)
(* divider after the other and round down at each; that is the same as     *)
(* dividing once by all of them.  The limits of the preflight and of the   *)
(* acquisition driver then bound the divisors from below, and so the       *)
(* rounding of the divisors from above.                                    *)
(***************************************************************************)
\* Rounding down twice is rounding down once.
LEMMA DividedTwice ==
  ASSUME NEW a \in Nat, NEW b \in Nat \ {0}, NEW c \in Nat \ {0}
  PROVE  (a \div b) \div c = a \div (b * c)
<1>1. PICK q \in Int, r \in 0 .. b - 1 : a = b * q + r /\ q = a \div b
  BY Divided
<1>2. q \in Nat
  BY <1>1
<1>3. PICK p \in Int, s \in 0 .. c - 1 : q = c * p + s /\ p = q \div c
  BY <1>2, Divided
<1>4. b * c \in Nat \ {0}
  OBVIOUS
<1>5. PICK m \in Int : m = b * s
  OBVIOUS
<1>6. m + r \in 0 .. b * c - 1
  <2>1. m >= 0
    BY <1>5
  <2>2. m <= b * (c - 1)
    BY <1>5
  <2>3. b * (c - 1) = b * c - b
    OBVIOUS
  <2> QED
    BY <2>1, <2>2, <2>3, <1>1, <1>4
<1>7. a = (b * c) * p + (m + r)
  <2>1. b * q = b * (c * p) + b * s
    BY <1>3
  <2>2. b * (c * p) = (b * c) * p
    OBVIOUS
  <2> QED
    BY <1>1, <1>5, <2>1, <2>2
<1>8. ((b * c) * p + (m + r)) \div (b * c) = p
  BY <1>4, <1>6, DivModUnique, Zenon
<1> QED
  BY <1>1, <1>3, <1>7, <1>8

\* The shifts of the code are the divisors of the reference manual.
LEMMA AhbDivisor ==
  ASSUME NEW h \in 0 .. 15
  PROVE  /\ 2^AHBPrescTable[h + 1] = AHB_DIVISOR[h + 1]
         /\ AHB_DIVISOR[h + 1] \in Nat \ {0}
<1>0. \/ h = 0 \/ h = 1 \/ h = 2 \/ h = 3 \/ h = 4 \/ h = 5 \/ h = 6 \/ h = 7
      \/ h = 8 \/ h = 9 \/ h = 10 \/ h = 11 \/ h = 12 \/ h = 13 \/ h = 14 \/ h = 15
  OBVIOUS
<1>1. CASE h = 0
  BY <1>1 DEF AHBPrescTable, AHB_DIVISOR
<1>2. CASE h = 1
  BY <1>2 DEF AHBPrescTable, AHB_DIVISOR
<1>3. CASE h = 2
  BY <1>3 DEF AHBPrescTable, AHB_DIVISOR
<1>4. CASE h = 3
  BY <1>4 DEF AHBPrescTable, AHB_DIVISOR
<1>5. CASE h = 4
  BY <1>5 DEF AHBPrescTable, AHB_DIVISOR
<1>6. CASE h = 5
  BY <1>6 DEF AHBPrescTable, AHB_DIVISOR
<1>7. CASE h = 6
  BY <1>7 DEF AHBPrescTable, AHB_DIVISOR
<1>8. CASE h = 7
  BY <1>8 DEF AHBPrescTable, AHB_DIVISOR
<1>9. CASE h = 8
  BY <1>9 DEF AHBPrescTable, AHB_DIVISOR
<1>10. CASE h = 9
  BY <1>10 DEF AHBPrescTable, AHB_DIVISOR
<1>11. CASE h = 10
  BY <1>11 DEF AHBPrescTable, AHB_DIVISOR
<1>12. CASE h = 11
  BY <1>12 DEF AHBPrescTable, AHB_DIVISOR
<1>13. CASE h = 12
  BY <1>13 DEF AHBPrescTable, AHB_DIVISOR
<1>14. CASE h = 13
  BY <1>14 DEF AHBPrescTable, AHB_DIVISOR
<1>15. CASE h = 14
  BY <1>15 DEF AHBPrescTable, AHB_DIVISOR
<1>16. CASE h = 15
  BY <1>16 DEF AHBPrescTable, AHB_DIVISOR
<1> QED
  BY <1>0, <1>1, <1>2, <1>3, <1>4, <1>5, <1>6, <1>7, <1>8, <1>9, <1>10, <1>11, <1>12, <1>13, <1>14, <1>15, <1>16

LEMMA ApbDivisor ==
  ASSUME NEW hclk \in Nat, NEW p \in 0 .. 7
  PROVE  /\ decode_pclk(hclk, p) = hclk \div APB_DIVISOR[p + 1]
         /\ APB_DIVISOR[p + 1] \in 1 .. 16
         /\ p < 4 => APB_DIVISOR[p + 1] = 1
<1>1. p \in 0 .. 3 \/ p = 4 \/ p = 5 \/ p = 6 \/ p = 7
  OBVIOUS
<1>2. CASE p \in 0 .. 3
  BY <1>2 DEF APB_DIVISOR, decode_pclk
<1>3. CASE p = 4
  BY <1>3 DEF APB_DIVISOR, decode_pclk
<1>4. CASE p = 5
  BY <1>4 DEF APB_DIVISOR, decode_pclk
<1>5. CASE p = 6
  BY <1>5 DEF APB_DIVISOR, decode_pclk
<1>6. CASE p = 7
  BY <1>6 DEF APB_DIVISOR, decode_pclk
<1> QED
  BY <1>1, <1>2, <1>3, <1>4, <1>5, <1>6

LEMMA VcoIsNat == ASSUME NEW b \in BoardRecords PROVE pllvco(b) \in Nat
<1>1. b.pllm \in Nat \ {0} /\ b.plln \in Nat
  BY DEF BoardRecords
<1>2. PICK n \in Nat : n = (IF b.pllsrc = "HSE" THEN HSE_VALUE ELSE HSI_VALUE)
  BY DEF HSE_VALUE, HSI_VALUE
<1>3. n \div b.pllm \in Nat
  BY <1>1
<1>4. (n \div b.pllm) * b.plln \in Nat
  BY <1>1, <1>3
<1> QED
  BY <1>2, <1>4 DEF pllvco

\* What decode_pclk makes of SystemCoreClock is what the bus runs at.
LEMMA BusIsDecoded ==
  ASSUME NEW b \in BoardRecords, NEW ppre \in 0 .. 7
  PROVE  /\ SystemCoreClockUpdate(b) \in Nat
         /\ decode_pclk(SystemCoreClockUpdate(b), ppre) = BusHz(b, ppre)
<1>1. b.hpre \in 0 .. 15 /\ b.pllp \in 0 .. 3 /\ b.sws \in {"HSI", "HSE", "PLL"}
  BY DEF BoardRecords
<1> DEFINE p == IF b.sws = "PLL" THEN 2 * (b.pllp + 1) ELSE 1
           h == AHB_DIVISOR[b.hpre + 1]
           a == APB_DIVISOR[ppre + 1]
           src == SourceHz(b)
<1>2. p \in Nat \ {0}
  BY <1>1
<1>3. h \in Nat \ {0} /\ 2^AHBPrescTable[b.hpre + 1] = h
  BY <1>1, AhbDivisor
<1>4. src \in Nat
  BY <1>1, VcoIsNat DEF SourceHz, HSI_VALUE, HSE_VALUE
<1>5. SystemCoreClockUpdate(b) = (src \div p) \div h
  <2>1. CASE b.sws = "HSE"
    BY <2>1, <1>3 DEF SystemCoreClockUpdate, SourceHz, HSE_VALUE
  <2>2. CASE b.sws = "HSI"
    BY <2>2, <1>3 DEF SystemCoreClockUpdate, SourceHz, HSI_VALUE
  <2>3. CASE b.sws = "PLL"
    <3>1. (b.pllp + 1) * 2 = p
      BY <2>3, <1>1
    <3> QED
      BY <2>3, <1>3, <3>1 DEF SystemCoreClockUpdate, SourceHz
  <2> QED
    BY <1>1, <2>1, <2>2, <2>3
<1>6. src \div p \in Nat
  BY <1>2, <1>4
<1>7. SystemCoreClockUpdate(b) \in Nat
  BY <1>3, <1>5, <1>6
<1>8. a \in Nat \ {0}
  <2>1. a \in 1 .. 16
    BY <1>7, ApbDivisor
  <2> QED
    BY <2>1
<1>9. decode_pclk(SystemCoreClockUpdate(b), ppre) = ((src \div p) \div h) \div a
  BY <1>5, <1>7, ApbDivisor
<1>10. p * h \in Nat \ {0} /\ (src \div p) \div h = src \div (p * h)
  <2> HIDE DEF p, h, src
  <2>1. p * h \in Nat \ {0}
    BY <1>2, <1>3
  <2>2. (src \div p) \div h = src \div (p * h)
    BY <1>2, <1>3, <1>4, DividedTwice, Zenon
  <2> QED
    BY <2>1, <2>2
<1>11. (src \div (p * h)) \div a = src \div (p * h * a)
  <2> HIDE DEF p, h, src, a
  <2> QED
    BY <1>10, <1>4, <1>8, DividedTwice
<1>12. BusHz(b, ppre) = src \div (p * h * a)
  BY DEF BusHz
<1> QED
  BY <1>7, <1>9, <1>10, <1>11, <1>12

\* A preflight without a failure flag.
LEMMA NothingFlagged ==
  ASSUME NEW b \in BoardRecords, NEW baud \in Nat, failure_flags(b, baud) = {}
  PROVE  LET uart == uart_report(decode_pclk(b.hclk, b.ppre1), baud)
         IN uart.brr \in 1 .. U16_MAX /\ ~(uart.ppm > UART_MAX_ERROR_PPM)
<1> DEFINE uart == uart_report(decode_pclk(b.hclk, b.ppre1), baud)
<1>1. "UART_DIVISOR" \notin failure_flags(b, baud) /\ "UART_ERROR" \notin failure_flags(b, baud)
  OBVIOUS
<1>2. "UART_DIVISOR" \in PREFLIGHT_FLAGS /\ "UART_ERROR" \in PREFLIGHT_FLAGS
  BY DEF PREFLIGHT_FLAGS
<1>3. uart.brr \in 1 .. U16_MAX
  BY <1>1, <1>2 DEF failure_flags
<1>4. ~(uart.ppm > UART_MAX_ERROR_PPM)
  BY <1>1, <1>2 DEF failure_flags
<1> QED
  BY <1>3, <1>4

\* The nearest divisor, and how near.
LEMMA NearestDivisor ==
  ASSUME NEW n \in Nat, NEW d \in Nat \ {0}
  PROVE  /\ Nearest(n, d) \in Nat
         /\ 2 * (n - d * Nearest(n, d)) <= d
         /\ 2 * (d * Nearest(n, d) - n) <= d
<1>1. PICK h \in Nat : h = d \div 2 /\ 2 * h <= d /\ d <= 2 * h + 1
  <2>1. PICK q \in Int, r \in 0 .. 1 : d = 2 * q + r /\ q = d \div 2
    OBVIOUS
  <2> QED
    BY <2>1
<1>2. n + h \in Nat
  OBVIOUS
<1>3. PICK q \in Int, r \in 0 .. d - 1 : n + h = d * q + r /\ q = (n + h) \div d
  BY <1>2, Divided
<1>4. PICK m \in Int : m = d * q
  OBVIOUS
<1>5. Nearest(n, d) = q
  BY <1>1, <1>3 DEF Nearest
<1>6. q \in Nat
  BY <1>2, <1>3
<1> QED
  BY <1>1, <1>3, <1>4, <1>5, <1>6

\* The rate that comes out of a divisor d when a clock of n Hz should be
\* divided down to f Hz: off by no more than the share of the d that half a
\* period is.
LEMMA RateOfNearest ==
  ASSUME NEW n \in Nat, NEW f \in Nat \ {0}, NEW d \in Nat \ {0}, d = Nearest(n, f),
         NEW slack \in Nat, f <= 2 * slack * d
  PROVE  n \div d <= f + slack /\ n \div d >= f - slack - 1
<1>1. 2 * (n - f * d) <= f /\ 2 * (f * d - n) <= f
  BY NearestDivisor
<1>2. PICK q \in Int, r \in 0 .. d - 1 : n = d * q + r /\ q = n \div d
  BY Divided
<1>3. PICK e \in Int : e = q - f
  OBVIOUS
<1>4. PICK m \in Int : m = d * e /\ n - f * d = m + r
  <2>1. d * q = d * f + d * e
    BY <1>3
  <2> QED
    BY <1>2, <2>1
<1>5. PICK k \in Int : k = slack * d /\ f <= 2 * k
  OBVIOUS
<1>6. m + r <= k /\ -k <= m + r
  BY <1>1, <1>4, <1>5
<1>7. e <= slack
  <2> SUFFICES ASSUME e >= slack + 1 PROVE FALSE
    OBVIOUS
  <2>1. d * e >= d * slack + d
    BY Mult
  <2>2. d * slack = k
    BY <1>5
  <2>3. m >= k + d
    BY <2>1, <2>2, <1>4, Zenon
  <2> QED
    BY <2>3, <1>2, <1>6
<1>8. e >= -slack - 1
  <2> SUFFICES ASSUME -slack - 1 >= e + 1 PROVE FALSE
    OBVIOUS
  <2>1. d * (-slack - 1) >= d * e + d
    BY Mult
  <2>2. d * (-slack - 1) = -k - d
    BY <1>5
  <2>3. -k - d >= m + d
    BY <2>1, <2>2, <1>4, Zenon
  <2> QED
    BY <2>3, <1>2, <1>6
<1> QED
  BY <1>2, <1>3, <1>7, <1>8

\* The error in ppm, computed in two halves, is the whole one rounded down.
LEMMA PpmBounds ==
  ASSUME NEW d \in Nat, NEW baud \in Nat \ {0}, ErrorPpm(d, baud) <= 20000
  PROVE  1000000 * d < 20001 * baud
<1>1. PICK n \in Nat : n = d * 1000
  OBVIOUS
<1>2. PICK q \in Int, r \in 0 .. baud - 1 : n = baud * q + r /\ q = n \div baud /\ r = n % baud
  BY Divided
<1>3. PICK m \in Nat : m = r * 1000
  OBVIOUS
<1>4. PICK u \in Int, v \in 0 .. baud - 1 : m = baud * u + v /\ u = m \div baud
  BY Divided
<1>5. ErrorPpm(d, baud) = 1000 * q + u
  BY <1>1, <1>2, <1>3, <1>4 DEF ErrorPpm
<1>6. PICK w \in Int : w = 1000 * q + u /\ w <= 20000
  BY <1>5
<1>7. 1000 * n = baud * w + v
  <2>1. baud * w = 1000 * (baud * q) + baud * u
    BY <1>6
  <2>2. PICK x \in Int, y \in Int : x = baud * q /\ y = baud * u
    OBVIOUS
  <2> QED
    BY <2>1, <2>2, <1>2, <1>3, <1>4
<1>8. baud * w <= 20000 * baud
  <2>1. CASE w = 20000
    BY <2>1
  <2>2. CASE 20000 >= w + 1
    <3>1. baud * 20000 >= baud * w + baud
      BY <2>2, Mult
    <3> QED
      BY <3>1
  <2> QED
    BY <1>6, <2>1, <2>2
<1> QED
  BY <1>1, <1>4, <1>7, <1>8

\* The limits are numbers.
LEMMA Limits == U16_MAX \in Nat /\ ADC_CONSERVATIVE_MAX_CLOCK_HZ \in Nat
BY DEF U16_MAX, ADC_CONSERVATIVE_MAX_CLOCK_HZ

\* The UART runs within 2% of the rate asked for.
LEMMA UartWithinTwoPercent ==
  ASSUME NEW pclk1 \in Nat, NEW baud \in Nat,
         uart_report(pclk1, baud).brr \in 1 .. U16_MAX,
         ~(uart_report(pclk1, baud).ppm > UART_MAX_ERROR_PPM)
  PROVE  LET brr == uart_report(pclk1, baud).brr
         IN /\ brr = Nearest(pclk1, baud) /\ baud # 0 /\ pclk1 # 0
            /\ 50 * Difference(brr * baud, pclk1) <= brr * (baud + baud \div 20000 + 50)
<1>1. baud \in Nat \ {0} /\ pclk1 # 0
  <2> SUFFICES ASSUME baud = 0 \/ pclk1 = 0 PROVE FALSE
    OBVIOUS
  <2>1. uart_report(pclk1, baud).brr = 0
    BY DEF uart_report
  <2> QED
    BY <2>1, Limits
<1>2. uart_report(pclk1, baud).brr = Nearest(pclk1, baud)
  BY <1>1 DEF uart_report
<1>3. PICK brr \in Nat \ {0} : brr = Nearest(pclk1, baud) /\ brr \in 1 .. U16_MAX
  BY <1>2, Limits
<1>4. uart_report(pclk1, baud).ppm = ErrorPpm(Difference(pclk1 \div brr, baud), baud)
  BY <1>1, <1>3 DEF uart_report
<1>5. PICK q \in Int, r \in 0 .. brr - 1 : pclk1 = brr * q + r /\ q = pclk1 \div brr
  BY Divided
<1>6. PICK d \in Nat : d = Difference(q, baud) /\ (d = q - baud \/ d = baud - q)
  <2>1. Difference(q, baud) \in Nat
    BY <1>1 DEF Difference
  <2>2. Difference(q, baud) = q - baud \/ Difference(q, baud) = baud - q
    BY <1>1 DEF Difference
  <2> QED
    BY <2>1, <2>2
<1>7. 1000000 * d < 20001 * baud
  <2>1. ErrorPpm(d, baud) \in Int
    BY <1>1, <1>6 DEF ErrorPpm
  <2>2. ~(ErrorPpm(d, baud) > UART_MAX_ERROR_PPM)
    BY <1>4, <1>5, <1>6
  <2>3. ErrorPpm(d, baud) <= 20000
    <3> HIDE <1>4
    <3> QED
      BY <2>1, <2>2 DEF UART_MAX_ERROR_PPM
  <2> QED
    BY <2>3, <1>1, PpmBounds
<1>8. PICK t \in Nat : t = baud \div 20000 /\ baud < 20000 * t + 20000
  BY <1>1
<1>9. 50 * d <= baud + t
  BY <1>7, <1>8
<1>10. PICK m \in Nat : m = brr * d /\ Difference(brr * baud, pclk1) <= m + brr
  <2>1. PICK x \in Int, y \in Int, z \in Int : x = brr * q /\ y = brr * baud /\ z = brr * d
    OBVIOUS
  <2>2. z \in Nat
    BY <2>1
  <2>3. z = x - y \/ z = y - x
    <3>1. CASE d = q - baud
      BY <3>1, <2>1
    <3>2. CASE d = baud - q
      BY <3>2, <2>1
    <3> QED
      BY <1>6, <3>1, <3>2
  <2>4. pclk1 = x + r
    BY <1>5, <2>1
  <2>5. Difference(y, pclk1) <= z + brr
    BY <2>2, <2>3, <2>4 DEF Difference
  <2> QED
    BY <2>1, <2>2, <2>5
<1>11. PICK s \in Nat : s = baud + t + 50 /\ s >= 50 * d + 50
  BY <1>8, <1>9
<1>12. brr * s >= 50 * m + 50 * brr
  <2>1. brr * (50 * d + 50) = 50 * m + 50 * brr
    BY <1>10
  <2>2. CASE s = 50 * d + 50
    BY <2>1, <2>2
  <2>3. CASE s >= (50 * d + 50) + 1
    <3>1. brr * s >= brr * (50 * d + 50) + brr
      BY <2>3, Mult
    <3> QED
      BY <2>1, <3>1
  <2> QED
    BY <1>11, <2>2, <2>3
<1>13. Difference(brr * baud, pclk1) \in Int
  BY <1>1 DEF Difference
<1>14. 50 * Difference(brr * baud, pclk1) <= brr * s
  BY <1>10, <1>12, <1>13
<1> QED
  BY <1>1, <1>2, <1>3, <1>8, <1>11, <1>14

\* The ADC clock the driver selects, when it is fast enough for the default
\* rate, is within its limit, and the bus it comes from is fast enough that
\* the timers' divisors are large.
LEMMA SelectedClock ==
  ASSUME NEW b \in BoardRecords, acquisition_init_ok(b, default_config(b))
  PROVE  LET clock == CHOOSE c \in select_adc_clock(b) : TRUE
         IN /\ clock \in Nat /\ clock <= ADC_CONSERVATIVE_MAX_CLOCK_HZ
            /\ clock >= DEFAULT_SAMPLE_RATE_HZ * ADC_SEQUENCE_CYCLES
            /\ pclk2_hz(b) \in Nat /\ 2 * clock <= pclk2_hz(b)
<1> DEFINE n == pclk2_hz(b)
<1>1. b.hclk \in Nat /\ b.ppre2 \in 0 .. 7
  BY DEF BoardRecords
<1>2. n \in Nat
  <2>1. APB_DIVISOR[b.ppre2 + 1] \in 1 .. 16
        /\ pclk2_hz(b) = b.hclk \div APB_DIVISOR[b.ppre2 + 1]
    BY <1>1, ApbDivisor DEF pclk2_hz
  <2> QED
    BY <1>1, <2>1
<1> DEFINE fits == {d \in {2, 4, 6, 8} : n \div d \in 1 .. ADC_CONSERVATIVE_MAX_CLOCK_HZ}
<1>3. select_adc_clock(b) = {n \div d : d \in {e \in fits : \A o \in fits : e <= o}}
  BY Zenon DEF select_adc_clock
<1>4. PICK c0 \in select_adc_clock(b) : c0 >= DEFAULT_SAMPLE_RATE_HZ * ADC_SEQUENCE_CYCLES
  <2>1. default_config(b).sample_rate_hz = DEFAULT_SAMPLE_RATE_HZ
    BY DEF default_config
  <2>2. \E c \in select_adc_clock(b) :
          c >= default_config(b).sample_rate_hz * ADC_SEQUENCE_CYCLES
    BY DEF acquisition_init_ok
  <2> QED
    BY <2>1, <2>2, Zenon
<1> HIDE DEF n
<1>5. PICK d0 \in {2, 4, 6, 8} : d0 \in fits /\ (\A o \in fits : d0 <= o) /\ c0 = n \div d0
  BY <1>3, <1>4, Zenon
<1>6. \A c \in select_adc_clock(b) : c = c0
  <2> SUFFICES ASSUME NEW c \in select_adc_clock(b) PROVE c = c0
    OBVIOUS
  <2>1. PICK d \in {2, 4, 6, 8} : d \in fits /\ (\A o \in fits : d <= o) /\ c = n \div d
    BY <1>3, Zenon
  <2>2. d <= d0 /\ d0 <= d
    BY <1>5, <2>1, Zenon
  <2>3. d = d0
    BY <2>2, SMT
  <2> QED
    BY <1>5, <2>1, <2>3, Zenon
<1>7. (CHOOSE c \in select_adc_clock(b) : TRUE) = c0
  BY <1>4, <1>6, Zenon
<1>8. c0 \in Nat /\ c0 <= ADC_CONSERVATIVE_MAX_CLOCK_HZ
  <2>1. c0 \in 1 .. ADC_CONSERVATIVE_MAX_CLOCK_HZ
    BY <1>5, Zenon
  <2> QED
    BY <2>1, Limits, SMT
<1>9. 2 * c0 <= n
  <2>1. CASE d0 = 2
    BY <2>1, <1>2, <1>5, SMT
  <2>2. CASE d0 = 4
    BY <2>2, <1>2, <1>5, SMT
  <2>3. CASE d0 = 6
    BY <2>3, <1>2, <1>5, SMT
  <2>4. CASE d0 = 8
    BY <2>4, <1>2, <1>5, SMT
  <2> QED
    BY <2>1, <2>2, <2>3, <2>4
<1> QED
  BY <1>2, <1>4, <1>7, <1>8, <1>9, Zenon DEF n

SLOWEST_TIMER_HZ == 1188000

\* What the timers count at: at least 1.188 MHz.
LEMMA TimerFast ==
  ASSUME NEW b \in BoardRecords, acquisition_init_ok(b, default_config(b))
  PROVE  apb1_timer_hz(b) \in Nat /\ apb1_timer_hz(b) >= SLOWEST_TIMER_HZ
<1>1. b.hclk \in Nat /\ b.ppre1 \in 0 .. 7 /\ b.ppre2 \in 0 .. 7
  BY DEF BoardRecords
<1>2. pclk2_hz(b) \in Nat /\ pclk2_hz(b) >= 9504000
  <2>1. PICK c : /\ c \in Nat /\ c >= DEFAULT_SAMPLE_RATE_HZ * ADC_SEQUENCE_CYCLES
                 /\ pclk2_hz(b) \in Nat /\ 2 * c <= pclk2_hz(b)
    BY SelectedClock, Zenon
  <2> QED
    BY <2>1, SMT DEF DEFAULT_SAMPLE_RATE_HZ, ADC_SEQUENCE_CYCLES
<1>3. PICK h \in Nat : h = b.hclk /\ h >= 9504000
  <2>1. PICK a \in 1 .. 16 : pclk2_hz(b) = b.hclk \div a
    BY <1>1, ApbDivisor DEF pclk2_hz
  <2>2. a \in Nat \ {0}
    OBVIOUS
  <2>3. PICK q \in Int, r \in 0 .. a - 1 : b.hclk = a * q + r /\ q = b.hclk \div a
    BY <1>1, <2>2, Divided
  <2>4. q \in Nat /\ q >= 9504000
    BY <1>2, <2>1, <2>3, SMT
  <2>5. a * q >= q
    BY <2>2, <2>4, SMT
  <2> QED
    BY <1>1, <2>3, <2>4, <2>5, SMT
<1>4. CASE b.ppre1 < 4
  <2>1. apb1_timer_hz(b) = b.hclk
    BY <1>4 DEF apb1_timer_hz, pclk1_hz, decode_pclk
  <2> QED
    BY <1>3, <2>1, SMT DEF SLOWEST_TIMER_HZ
<1>5. CASE ~(b.ppre1 < 4)
  <2>1. PICK a \in 1 .. 16 : pclk1_hz(b) = h \div a
    BY <1>1, <1>3, ApbDivisor DEF pclk1_hz
  <2>2. PICK q \in Int, r \in 0 .. a - 1 : h = a * q + r /\ q = h \div a
    BY <2>1, Divided
  <2>3. q >= 594000
    <3> SUFFICES ASSUME 593999 >= q PROVE FALSE
      BY SMT
    <3>1. a * q <= a * 593999
      BY SMT
    <3> QED
      BY <1>3, <2>2, <3>1, SMT
  <2>4. apb1_timer_hz(b) = 2 * q
    BY <1>5, <2>1, <2>2 DEF apb1_timer_hz
  <2> QED
    BY <2>3, <2>4, SMT DEF SLOWEST_TIMER_HZ
<1> QED
  BY <1>4, <1>5, SMT

\* The sample clock and the RPM clock.
LEMMA TimersWithinOnePercent ==
  ASSUME NEW timer \in Nat, timer >= SLOWEST_TIMER_HZ
  PROVE  LET period == Nearest(timer, DEFAULT_SAMPLE_RATE_HZ)
             divisor == Nearest(timer, RPM_TIMER_HZ)
         IN /\ 100 * Difference(timer \div period, DEFAULT_SAMPLE_RATE_HZ)
                 <= DEFAULT_SAMPLE_RATE_HZ
            /\ timer \div divisor \in Nat
            /\ 100 * Difference(timer \div divisor, RPM_TIMER_HZ) <= RPM_TIMER_HZ
<1>1. PICK rate \in Nat \ {0}, ticks \in Nat \ {0} :
        rate = DEFAULT_SAMPLE_RATE_HZ /\ ticks = RPM_TIMER_HZ /\ rate = 4000 /\ ticks = 10000
  BY DEF DEFAULT_SAMPLE_RATE_HZ, RPM_TIMER_HZ
<1>2. PICK period \in Nat \ {0} : period = Nearest(timer, rate) /\ period >= 297
  <2>1. PICK p \in Nat : p = Nearest(timer, rate) /\ 2 * (timer - rate * p) <= rate
    BY <1>1, NearestDivisor
  <2>2. p >= 297
    BY <1>1, <2>1, SMT DEF SLOWEST_TIMER_HZ
  <2> QED
    BY <2>1, <2>2
<1>3. PICK divisor \in Nat \ {0} : divisor = Nearest(timer, ticks) /\ divisor >= 118
  <2>1. PICK p \in Nat : p = Nearest(timer, ticks) /\ 2 * (timer - ticks * p) <= ticks
    BY <1>1, NearestDivisor
  <2>2. p >= 118
    BY <1>1, <2>1, SMT DEF SLOWEST_TIMER_HZ
  <2> QED
    BY <2>1, <2>2
<1>4. timer \div period <= rate + 7 /\ timer \div period >= rate - 7 - 1
  <2>1. rate <= 2 * 7 * period
    BY <1>1, <1>2
  <2>2. 7 \in Nat
    OBVIOUS
  <2> QED
    BY <1>2, <2>1, <2>2, RateOfNearest
<1>5. timer \div divisor <= ticks + 43 /\ timer \div divisor >= ticks - 43 - 1
  <2>1. ticks <= 2 * 43 * divisor
    BY <1>1, <1>3
  <2>2. 43 \in Nat
    OBVIOUS
  <2> QED
    BY <1>3, <2>1, <2>2, RateOfNearest
<1>6. timer \div period \in Nat /\ timer \div divisor \in Nat
  BY <1>2, <1>3
<1>7. 100 * Difference(timer \div period, rate) <= rate
  <2>1. PICK x \in Nat : x = timer \div period /\ x <= 4007 /\ x >= 3992
    BY <1>1, <1>4, <1>6
  <2> QED
    BY <1>1, <2>1 DEF Difference
<1>8. 100 * Difference(timer \div divisor, ticks) <= ticks
  <2>1. PICK x \in Nat : x = timer \div divisor /\ x <= 10043 /\ x >= 9956
    BY <1>1, <1>5, <1>6
  <2> QED
    BY <1>1, <2>1 DEF Difference
<1> QED
  BY <1>1, <1>2, <1>3, <1>6, <1>7, <1>8

\* What the stages before it have established, for each stage of main.
BootInv ==
  /\ board \in BoardRecords /\ usart \in [brr : Nat, baud : Nat]
  /\ stage \in {"uart", "link", "acquisition", "polling"} =>
       /\ board.hclk = SystemCoreClockUpdate(board)
       /\ report = preflight_run(board, usart.baud) /\ report.failure_flags = {}
  /\ stage \in {"link", "acquisition", "polling"} =>
       usart.brr = Nearest(decode_pclk(board.hclk, board.ppre1), usart.baud)
  /\ stage = "polling" =>
       /\ acquisition_init_ok(board, default_config(board))
       /\ adc = adc_configured(board, default_config(board))

\* SystemCoreClockUpdate reads the registers, not what it computed before.
LEMMA ClockUpdated ==
  ASSUME NEW b \in BoardRecords, NEW c, c = [b EXCEPT !.hclk = SystemCoreClockUpdate(b)]
  PROVE  /\ c \in BoardRecords /\ c.hclk = SystemCoreClockUpdate(b)
         /\ SystemCoreClockUpdate(c) = SystemCoreClockUpdate(b)
<1>1. SystemCoreClockUpdate(b) \in Nat
  <2>1. 0 \in 0 .. 7
    OBVIOUS
  <2> QED
    BY <2>1, BusIsDecoded
<1>2. PICK n \in Nat : n = SystemCoreClockUpdate(b) /\ c = [b EXCEPT !.hclk = n]
  BY <1>1
<1>3. /\ c.hclk = n /\ c.sws = b.sws /\ c.pllsrc = b.pllsrc /\ c.pllm = b.pllm
      /\ c.plln = b.plln /\ c.pllp = b.pllp /\ c.hpre = b.hpre
  BY <1>2 DEF BoardRecords
<1>4. c \in BoardRecords
  BY <1>2 DEF BoardRecords
<1>5. SystemCoreClockUpdate(c) = SystemCoreClockUpdate(b)
  BY <1>3, Zenon DEF SystemCoreClockUpdate, pllvco
<1> QED
  BY <1>2, <1>3, <1>4, <1>5

LEMMA BootStarts == BootInit => BootInv
BY BoardAssumption DEF BootInit, BootInv

LEMMA BootSteps == BootInv /\ [BootNext]_bootVars => BootInv'
<1> SUFFICES ASSUME BootInv, [BootNext]_bootVars PROVE BootInv'
  OBVIOUS
<1>1. CASE StartClock
  <2>1. board' \in BoardRecords
    BY <1>1, ClockUpdated DEF BootInv, StartClock
  <2>2. stage' \in {"preflight", "stopped"}
    BY <1>1 DEF StartClock, fail_stop
  <2> QED
    BY <1>1, <2>1, <2>2 DEF BootInv, StartClock
<1>2. CASE RunPreflight
  <2>1. PICK baud \in BaudRates :
          /\ board' = [board EXCEPT !.hclk = SystemCoreClockUpdate(board)]
          /\ report' = preflight_run(board', baud)
          /\ usart' = [usart EXCEPT !.baud = baud]
    BY <1>2 DEF RunPreflight
  <2>2. /\ board' \in BoardRecords /\ board'.hclk = SystemCoreClockUpdate(board)
        /\ SystemCoreClockUpdate(board') = SystemCoreClockUpdate(board)
    BY <2>1, ClockUpdated DEF BootInv
  <2>3. usart' \in [brr : Nat, baud : Nat] /\ usart'.baud = baud
    BY <2>1, BoardAssumption DEF BootInv
  <2>4. \/ stage' = "uart" /\ report'.failure_flags = {}
        \/ stage' = "stopped"
    BY <1>2 DEF RunPreflight, fail_stop
  <2> QED
    BY <2>1, <2>2, <2>3, <2>4 DEF BootInv
<1>3. CASE InitUart
  <2>1. UNCHANGED << board, report, adc >> /\ stage = "uart"
    BY <1>3 DEF InitUart
  <2>2. CASE uart2_init_ok(board, usart.baud)
    <3>1. /\ usart' = [usart EXCEPT !.brr = uart2_brr(uart2_apb1_clock_hz(board), usart.baud)]
          /\ stage' = "link"
      BY <1>3, <2>2 DEF InitUart
    <3>2. uart2_brr(uart2_apb1_clock_hz(board), usart.baud)
            = Nearest(decode_pclk(board.hclk, board.ppre1), usart.baud)
      BY Zenon DEF uart2_brr, uart2_apb1_clock_hz, decode_pclk
    <3>3. uart2_brr(uart2_apb1_clock_hz(board), usart.baud) \in Nat
      <4>1. uart2_brr(uart2_apb1_clock_hz(board), usart.baud) \in 1 .. U16_MAX
        BY <2>2 DEF uart2_init_ok
      <4> QED
        BY <4>1, Limits
    <3>4. /\ usart' \in [brr : Nat, baud : Nat] /\ usart'.baud = usart.baud
          /\ usart'.brr = Nearest(decode_pclk(board.hclk, board.ppre1), usart.baud)
      BY <3>1, <3>2, <3>3 DEF BootInv
    <3> QED
      BY <2>1, <3>1, <3>4 DEF BootInv
  <2>3. CASE ~uart2_init_ok(board, usart.baud)
    <3>1. stage' = "stopped" /\ usart' = usart
      BY <1>3, <2>3 DEF InitUart, fail_stop
    <3> QED
      BY <2>1, <3>1 DEF BootInv
  <2> QED
    BY <2>2, <2>3
<1>4. CASE InitLink
  BY <1>4 DEF BootInv, InitLink
<1>5. CASE InitAcquisition
  <2>1. UNCHANGED << board, report, usart >> /\ stage = "acquisition"
    BY <1>5 DEF InitAcquisition
  <2>2. \/ /\ acquisition_init_ok(board, default_config(board)) /\ stage' = "polling"
           /\ adc' = adc_configured(board, default_config(board))
        \/ stage' = "stopped"
    BY <1>5, Zenon DEF InitAcquisition, fail_stop
  <2> QED
    BY <2>1, <2>2 DEF BootInv
<1>6. CASE InitAcquisitionFails
  BY <1>6 DEF BootInv, InitAcquisitionFails, fail_stop
<1>7. CASE AppPoll
  BY <1>7 DEF BootInv, AppPoll
<1>8. CASE AppSetState
  BY <1>8 DEF BootInv, AppSetState
<1>9. CASE SysTick
  BY <1>9 DEF BootInv, SysTick
<1>10. CASE UNCHANGED bootVars
  BY <1>10 DEF BootInv, bootVars
<1> QED
  BY <1>1, <1>2, <1>3, <1>4, <1>5, <1>6, <1>7, <1>8, <1>9, <1>10 DEF BootNext

\* The stages of main establish what ClocksAsChecked states.
LEMMA ClocksFollow == BootInv => ClocksAsChecked
<1> SUFFICES ASSUME BootInv, stage = "polling" PROVE ClocksAsChecked
  BY DEF ClocksAsChecked
<1> DEFINE pclk1 == BusHz(board, board.ppre1)
           timer == IF board.ppre1 < 4 THEN pclk1 ELSE 2 * pclk1
<1>1. /\ board \in BoardRecords /\ board.ppre1 \in 0 .. 7
      /\ usart.baud \in Nat /\ usart.brr \in Nat
  BY DEF BootInv, BoardRecords
<1>2. /\ board.hclk = SystemCoreClockUpdate(board) /\ report = preflight_run(board, usart.baud)
      /\ report.failure_flags = {} /\ acquisition_init_ok(board, default_config(board))
      /\ adc = adc_configured(board, default_config(board))
      /\ usart.brr = Nearest(decode_pclk(board.hclk, board.ppre1), usart.baud)
  BY DEF BootInv
<1>3. decode_pclk(board.hclk, board.ppre1) = pclk1 /\ board.hclk \in Nat
  BY <1>1, <1>2, BusIsDecoded
<1>4. pclk1 \in Nat
  <2>1. PICK a \in 1 .. 16 : pclk1 = board.hclk \div a
    BY <1>1, <1>3, ApbDivisor
  <2> QED
    BY <1>3, <2>1
<1>5. /\ report.pclk1_hz = pclk1 /\ failure_flags(board, usart.baud) = {}
      /\ report.uart = uart_report(pclk1, usart.baud)
  BY <1>2, <1>3 DEF preflight_run
<1>6. apb1_timer_hz(board) = timer
  BY <1>3, Zenon DEF apb1_timer_hz, pclk1_hz
<1> HIDE DEF pclk1
<1>7. /\ uart_report(pclk1, usart.baud).brr \in 1 .. U16_MAX
      /\ ~(uart_report(pclk1, usart.baud).ppm > UART_MAX_ERROR_PPM)
  BY <1>1, <1>3, <1>5, NothingFlagged
<1>8. /\ usart.brr = report.uart.brr
      /\ 50 * Difference(usart.brr * usart.baud, pclk1)
           <= usart.brr * (usart.baud + usart.baud \div 20000 + 50)
  <2>1. LET brr == uart_report(pclk1, usart.baud).brr
        IN /\ brr = Nearest(pclk1, usart.baud)
           /\ 50 * Difference(brr * usart.baud, pclk1)
                <= brr * (usart.baud + usart.baud \div 20000 + 50)
    BY <1>1, <1>4, <1>7, UartWithinTwoPercent, SMT
  <2> QED
    BY <2>1, <1>2, <1>3, <1>5, SMT
<1> HIDE DEF timer
<1>9. /\ adc.clock = CHOOSE c \in select_adc_clock(board) : TRUE
      /\ adc.rate = DEFAULT_SAMPLE_RATE_HZ
      /\ adc.period = Nearest(timer, DEFAULT_SAMPLE_RATE_HZ)
      /\ adc.divisor = Nearest(timer, RPM_TIMER_HZ)
      /\ adc.rpm_timer_hz = timer \div adc.divisor
  BY <1>2, <1>6 DEF adc_configured, default_config, sample_period, rpm_divisor
<1>10. /\ adc.clock \in Nat /\ adc.clock <= ADC_CONSERVATIVE_MAX_CLOCK_HZ
       /\ adc.clock >= DEFAULT_SAMPLE_RATE_HZ * ADC_SEQUENCE_CYCLES
  BY <1>1, <1>2, <1>9, SelectedClock, Zenon
<1>11. adc.clock \div adc.rate >= ADC_SEQUENCE_CYCLES
  <2>1. PICK n \in Nat : n = adc.clock /\ n >= DEFAULT_SAMPLE_RATE_HZ * ADC_SEQUENCE_CYCLES
    BY <1>10
  <2>2. n \div DEFAULT_SAMPLE_RATE_HZ >= ADC_SEQUENCE_CYCLES
    BY <2>1, SMT DEF DEFAULT_SAMPLE_RATE_HZ, ADC_SEQUENCE_CYCLES
  <2> QED
    BY <2>1, <2>2, <1>9
<1>12. timer \in Nat /\ timer >= SLOWEST_TIMER_HZ
  BY <1>1, <1>2, <1>6, TimerFast
<1>13. /\ 100 * Difference(timer \div adc.period, adc.rate) <= adc.rate
       /\ adc.rpm_timer_hz \in Nat
       /\ 100 * Difference(adc.rpm_timer_hz, RPM_TIMER_HZ) <= RPM_TIMER_HZ
  BY <1>9, <1>12, TimersWithinOnePercent, Zenon
<1>14. 100 * Difference(timer \div adc.divisor, adc.rpm_timer_hz) <= adc.rpm_timer_hz
  BY <1>9, <1>13 DEF Difference
<1> QED
  BY <1>2, <1>5, <1>8, <1>10, <1>11, <1>13, <1>14, SMT DEF ClocksAsChecked, pclk1, timer

(***************************************************************************)
(* The composition: each part takes its own steps and no other's.          *)
(***************************************************************************)
LEMMA PartsTakeTheirSteps ==
  [AcquisitionNext]_<< part, rpmVars, streamVars, bootVars, signalVars >> =>
    [RpmNext]_rpmVars /\ [StreamNext]_streamVars /\ [BootNext]_bootVars
BY DEF AcquisitionNext

\* Whichever part a behaviour of the measuring side exercises, it is a
\* behaviour of the speed capture and of the sample stream.
LEMMA PartsAreImplemented == AcquisitionSpec => RpmSpec /\ StreamSpec
BY PartsTakeTheirSteps, PTL DEF AcquisitionSpec, AcquisitionInit, RpmSpec, StreamSpec

\* From reset to the main loop, for every clock tree, every set of factory
\* words and every baud rate: guardian_preflight_run's report stays the
\* report of the board that runs, and each driver has what it was started
\* with.
THEOREM BootInvariant == AcquisitionSpec => []BootInv
BY BootStarts, BootSteps, PartsTakeTheirSteps, PTL DEF AcquisitionSpec, AcquisitionInit

\* A device that polls talks and samples at the rates it claims, whatever its
\* clock registers hold: the divisors of stm32f401_uart2_init and of
\* stm32f401_acquisition_init fit the clock the preflight judged.
THEOREM ClocksAlwaysAsChecked == AcquisitionSpec => []ClocksAsChecked
BY BootInvariant, ClocksFollow, PTL

\* In the composed measuring side: blocks are whole, in order, and the missing
\* ones announced, when at most one completion falls into one copy.
THEOREM StreamSoundInDevice ==
  ASSUME Laps = 1 PROVE AcquisitionSpec => []StreamSound /\ BlocksAccounted
BY PartsAreImplemented, WholeBlocks, EveryBlockAccounted, PTL

\* In the composed measuring side: a valid speed is that of the last two
\* pulses, when the handlers are prompt.
THEOREM SpeedSoundInDevice == ASSUME Prompt PROVE AcquisitionSpec => []SpeedSound
BY PartsAreImplemented, SpeedIsSound, PTL
=============================================================================
