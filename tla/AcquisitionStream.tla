-------------------------- MODULE AcquisitionStream --------------------------
(***************************************************************************)
(* The ADC/DMA sample stream (stm32f401_acquisition.c): DMA fills two      *)
(* buffers in turn, its interrupt handler marks the completed one ready,   *)
(* and the foreground copies a ready buffer, checking before and after the *)
(* copy that DMA has not come back to it. Errors stop the stream and the   *)
(* foreground rebuilds it. The foreground masks interrupts only where the  *)
(* code does; elsewhere handlers and hardware run between its steps.       *)
(*                                                                         *)
(* A block is identified by its number, a buffer holds the numbers of the  *)
(* blocks its two halves were written for.                                 *)
(***************************************************************************)
EXTENDS Naturals

CONSTANTS Laps,           \* completions possible while one buffer is copied
          MaxBlocks,      \* bound: blocks completed
          MaxFaults       \* bound: errors and failing restarts

ASSUME StreamAssumption ==
  /\ Laps \in Nat \ {0} /\ MaxBlocks \in Nat /\ MaxFaults \in Nat

Buffers == {0, 1}
Flags   == {"DMA_DROP", "DMA_ERROR", "ADC_ERROR"}

VARIABLES
  dma,        \* DMA2_Stream0: EN, CT, flags, whether half of the target is written
  flowing,    \* TIM2 triggers the ADC and the ADC requests transfers
  ovr,        \* ADC_SR_OVR
  buf,        \* guardian_dma_buffer_0 and _1
  ready,      \* guardian_ready_mask
  pending,    \* guardian_pending_quality_flags
  recovery,   \* guardian_recovery_required
  poll,       \* the foreground: where it is, and its locals
  blocks,     \* blocks completed so far
  out,        \* the last published measurement: block number and quality flags
  laps,       \* completions since the foreground selected its buffer, or just before
  faults      \* errors and failed restarts so far

hardware == <<dma, flowing, ovr, buf, blocks, laps>>
streamVars == <<hardware, ready, pending, recovery, poll, out, faults>>

Other(b) == 1 - b
PollIdle == [pc |-> "idle", sel |-> 0, flags |-> {}, copy |-> <<0, 0>>]

\* State after guardian_stm32f401_acquisition_init.
StreamInit ==
  /\ dma = [en |-> TRUE, ct |-> 0, half |-> FALSE, tc |-> FALSE, err |-> FALSE]
  /\ flowing = TRUE /\ ovr = FALSE
  /\ buf = [b \in Buffers |-> <<0, 0>>]
  /\ ready = {} /\ pending = {} /\ recovery = FALSE
  /\ poll = PollIdle
  /\ blocks = 0 /\ out = [block |-> 0, flags |-> {}] /\ laps = 0 /\ faults = 0

(***************************************************************************)
(* The hardware                                                            *)
(***************************************************************************)
Sampling == dma.en /\ flowing

\* Half a block takes 8 ms: the handler has run by then.
FillFirstHalf ==
  /\ Sampling /\ ~dma.half /\ blocks < MaxBlocks
  /\ ~dma.tc /\ ~dma.err
  /\ buf' = [buf EXCEPT ![dma.ct][1] = blocks + 1]
  /\ dma' = [dma EXCEPT !.half = TRUE]
  /\ UNCHANGED <<flowing, ovr, blocks, laps, ready, pending, recovery, poll, out, faults>>

\* The target is complete and DMA switches to the other one. A block takes
\* 16 ms: no copy of 320 half-words spans more than Laps completions.
CompleteTarget ==
  /\ Sampling /\ dma.half
  /\ poll.pc \in {"check", "copy1", "copy2", "recheck"} => laps < Laps
  /\ buf' = [buf EXCEPT ![dma.ct][2] = blocks + 1]
  /\ blocks' = blocks + 1
  /\ laps' = IF laps < Laps THEN laps + 1 ELSE laps
  /\ dma' = [dma EXCEPT !.half = FALSE, !.ct = Other(@), !.tc = TRUE]
  /\ UNCHANGED <<flowing, ovr, ready, pending, recovery, poll, out, faults>>

\* A transfer error disables the stream, a direct-mode error does not.
DmaError(stops) ==
  /\ Sampling /\ faults < MaxFaults
  /\ dma' = [dma EXCEPT !.err = TRUE, !.en = ~stops]
  /\ faults' = faults + 1
  /\ UNCHANGED <<flowing, ovr, buf, blocks, laps, ready, pending, recovery, poll, out>>

\* After an overrun the ADC requests no further transfers.
AdcOverrun ==
  /\ Sampling /\ faults < MaxFaults
  /\ ovr' = TRUE /\ flowing' = FALSE
  /\ faults' = faults + 1
  /\ UNCHANGED <<dma, buf, blocks, laps, ready, pending, recovery, poll, out>>

(***************************************************************************)
(* The interrupt handlers                                                  *)
(***************************************************************************)
DmaIrqError ==
  /\ dma.err
  /\ pending' = pending \union {"DMA_ERROR"}
  /\ recovery' = TRUE
  /\ ready' = {}
  /\ dma' = [dma EXCEPT !.err = FALSE, !.tc = FALSE]
  /\ UNCHANGED <<flowing, ovr, buf, blocks, laps, poll, out, faults>>

\* The buffer that is not the target any more is complete; one that is ready and
\* about to be overwritten, or ready again, is a drop.
DmaIrqComplete ==
  /\ dma.tc /\ ~dma.err
  /\ pending' = IF ready # {} THEN pending \union {"DMA_DROP"} ELSE pending
  /\ ready' = (ready \ {dma.ct}) \union {Other(dma.ct)}
  /\ dma' = [dma EXCEPT !.tc = FALSE]
  /\ UNCHANGED <<flowing, ovr, buf, blocks, laps, recovery, poll, out, faults>>

\* Mutant: the overrun is reported but nobody rebuilds the stream.
AdcIrqReported ==
  /\ ovr
  /\ pending' = pending \union {"ADC_ERROR"}
  /\ ovr' = FALSE
  /\ UNCHANGED <<dma, flowing, buf, blocks, laps, ready, recovery, poll, out, faults>>

AdcIrq ==
  /\ ovr
  /\ pending' = pending \union {"ADC_ERROR"}
  /\ recovery' = TRUE
  /\ ovr' = FALSE
  /\ UNCHANGED <<dma, flowing, buf, blocks, laps, ready, poll, out, faults>>

(***************************************************************************)
(* guardian_stm32f401_acquisition_poll_ex                                  *)
(***************************************************************************)
PollBegin ==
  /\ poll.pc = "idle"
  /\ poll' = [poll EXCEPT !.pc = IF recovery THEN "restart" ELSE "select"]
  /\ UNCHANGED <<hardware, ready, pending, recovery, out, faults>>

\* start_stream up to the enabled DMA stream: timer and ADC stopped, all flags
\* cleared, the first buffer the target, nothing ready.
Restart ==
  /\ poll.pc = "restart"
  /\ dma' = [en |-> TRUE, ct |-> 0, half |-> FALSE, tc |-> FALSE, err |-> FALSE]
  /\ flowing' = FALSE /\ ovr' = FALSE /\ ready' = {}
  /\ poll' = [poll EXCEPT !.pc = "trigger"]
  /\ UNCHANGED <<buf, blocks, laps, pending, recovery, out, faults>>

\* The stream does not stop in time: poll fails, a later one tries again.
RestartFails ==
  /\ poll.pc = "restart" /\ faults < MaxFaults
  /\ dma' = [dma EXCEPT !.en = FALSE]
  /\ flowing' = FALSE /\ ovr' = FALSE
  /\ poll' = PollIdle
  /\ faults' = faults + 1
  /\ UNCHANGED <<buf, blocks, laps, ready, pending, recovery, out>>

\* The timer is started: the stream runs.
Trigger ==
  /\ poll.pc = "trigger"
  /\ flowing' = TRUE
  /\ poll' = [poll EXCEPT !.pc = "acknowledge"]
  /\ UNCHANGED <<dma, ovr, buf, blocks, laps, ready, pending, recovery, out, faults>>

Acknowledge ==
  /\ poll.pc = "acknowledge"
  /\ recovery' = FALSE
  /\ poll' = [poll EXCEPT !.pc = "select"]
  /\ UNCHANGED <<hardware, ready, pending, out, faults>>

\* With interrupts masked: take a ready buffer and the flags raised so far.
Select ==
  /\ poll.pc = "select"
  /\ IF ready = {} THEN poll' = PollIdle /\ UNCHANGED <<ready, pending, laps>>
     ELSE LET b == IF 0 \in ready THEN 0 ELSE 1
          IN  /\ poll' = [pc |-> "check", sel |-> b, flags |-> pending, copy |-> <<0, 0>>]
              /\ ready' = ready \ {b}
              /\ pending' = {}
              /\ laps' = IF dma.tc THEN 1 ELSE 0
  /\ UNCHANGED <<dma, flowing, ovr, buf, blocks, recovery, out, faults>>

\* Mutant: the buffer is discarded without a trace, and the flags taken with it.
DiscardForgetting ==
  /\ poll' = PollIdle
  /\ UNCHANGED pending

\* The buffer is DMA's again: its block is lost, its flags wait for the next one.
Discard ==
  /\ pending' = pending \union poll.flags \union {"DMA_DROP"}
  /\ poll' = PollIdle

Check ==
  /\ poll.pc = "check"
  /\ IF dma.ct = poll.sel THEN Discard
     ELSE poll' = [poll EXCEPT !.pc = "copy1"] /\ UNCHANGED pending
  /\ UNCHANGED <<hardware, ready, recovery, out, faults>>

CopyFirstHalf ==
  /\ poll.pc = "copy1"
  /\ poll' = [poll EXCEPT !.copy[1] = buf[poll.sel][1], !.pc = "copy2"]
  /\ UNCHANGED <<hardware, ready, pending, recovery, out, faults>>

CopySecondHalf ==
  /\ poll.pc = "copy2"
  /\ poll' = [poll EXCEPT !.copy[2] = buf[poll.sel][2], !.pc = "recheck"]
  /\ UNCHANGED <<hardware, ready, pending, recovery, out, faults>>

\* Mutant: the copy is trusted.
RecheckSkipped ==
  /\ poll.pc = "recheck"
  /\ poll' = [poll EXCEPT !.pc = "process"]
  /\ UNCHANGED <<hardware, ready, pending, recovery, out, faults>>

Recheck ==
  /\ poll.pc = "recheck"
  /\ IF dma.ct = poll.sel THEN Discard
     ELSE poll' = [poll EXCEPT !.pc = "process"] /\ UNCHANGED pending
  /\ UNCHANGED <<hardware, ready, recovery, out, faults>>

Publish ==
  /\ poll.pc = "process"
  /\ out' = [block |-> poll.copy[2], flags |-> poll.flags]
  /\ poll' = PollIdle
  /\ UNCHANGED <<hardware, ready, pending, recovery, faults>>

\* guardian_acquisition_process_block_ex refuses the block.
ProcessFails ==
  /\ poll.pc = "process"
  /\ pending' = pending \union poll.flags \union {"ADC_ERROR"}
  /\ poll' = PollIdle
  /\ UNCHANGED <<hardware, ready, recovery, out, faults>>

Foreground ==
  \/ PollBegin \/ Restart \/ RestartFails \/ Trigger \/ Acknowledge
  \/ Select \/ Check \/ CopyFirstHalf \/ CopySecondHalf \/ Recheck
  \/ Publish \/ ProcessFails

Handlers == DmaIrqError \/ DmaIrqComplete \/ AdcIrq

StreamNext ==
  \/ FillFirstHalf \/ CompleteTarget
  \/ \E stops \in BOOLEAN : DmaError(stops)
  \/ AdcOverrun
  \/ Handlers
  \/ Foreground

StreamSpec == StreamInit /\ [][StreamNext]_streamVars

\* Pending interrupts are served and the main loop keeps polling.
StreamFairSpec == StreamSpec /\ WF_streamVars(Handlers) /\ WF_streamVars(Foreground)

(***************************************************************************)
(* Properties                                                              *)
(***************************************************************************)
\* Types of the stream's state.
StreamTypeOK ==
  /\ dma \in [en : BOOLEAN, ct : Buffers, half : BOOLEAN, tc : BOOLEAN, err : BOOLEAN]
  /\ flowing \in BOOLEAN /\ ovr \in BOOLEAN /\ recovery \in BOOLEAN
  /\ blocks \in 0..MaxBlocks /\ laps \in 0..Laps /\ faults \in 0..MaxFaults
  /\ buf \in [Buffers -> (0..MaxBlocks) \X (0..MaxBlocks)]
  /\ ready \in SUBSET Buffers /\ pending \in SUBSET Flags
  /\ poll \in [pc : {"idle", "restart", "trigger", "acknowledge", "select", "check",
                     "copy1", "copy2", "recheck", "process"},
               sel : Buffers, flags : SUBSET Flags, copy : (0..MaxBlocks) \X (0..MaxBlocks)]
  /\ out \in [block : 0..MaxBlocks, flags : SUBSET Flags]

\* A buffer that passed both checks of CT holds one whole block: DMA did not
\* write into it while it was copied.
NoTornBlock == poll.pc = "process" => poll.copy[1] = poll.copy[2]

\* The handlers and the foreground share well-formed state, and what the
\* foreground hands on is one block.
StreamSound == StreamTypeOK /\ NoTornBlock

\* No block is published twice, and none after a newer one.
BlocksInOrder == [][Publish => out'.block > out.block]_streamVars

\* When blocks are missing between two published measurements, the quality
\* flags say so: those of the later one, or those of the earlier one when it
\* already took the flag of the error that the stream was rebuilt for.
GapsAreFlagged ==
  [][(out' # out /\ out'.block > out.block + 1) => out'.flags # {} \/ out.flags # {}]_streamVars

\* The measurements a reader sees account for every block: in order, each at
\* most once, and missing ones are announced.
BlocksAccounted == BlocksInOrder /\ GapsAreFlagged

\* A stream that has stopped is rebuilt, as long as the stop is still recorded:
\* in the peripheral's flag or in a recovery request that the foreground is not
\* just about to clear (guardian_stm32f401_acquisition_poll_ex, irq handlers).
RecordedStopIsRepaired ==
  (~Sampling /\ (recovery \/ ovr \/ dma.err) /\ poll.pc # "acknowledge") ~> Sampling

(***************************************************************************)
(* A statement of the documentation that the code does not meet.           *)
(***************************************************************************)
\* "... the ADC/DMA stream is reconstructed in foreground code": a stream that
\* has stopped runs again in the end.
StreamReconstructed == ~Sampling ~> Sampling

=============================================================================
