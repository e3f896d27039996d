# Guardian F401: verification project

TLA+ models, TLC runs and TLAPS proofs for Guardian F401: the firmware of the
STM32F401 node (`firmware/`), which measures a machine, learns its health,
supervises its output, accepts authenticated commands and signed updates and
keeps replay protection across resets; and the host programs around it
(`console/`, `assurance/`) where they share a protocol or keep durable state.

Paths below are relative to the repository. Every definition that models code
is tied to its lines in the "map" of `PROJECT.json`; every property has a mutant
there, a plausible bug in the mapped code that makes TLC find it violated.

Contents: 1 Inventory, 2 Modules and code, 3 Runs, 4 Bounds, 5 Fairness and
timing, 6 Proofs, 7 Where code and documentation disagree, 8 What is left out,
9 Plan.

## 1. Inventory

How the parts meet. Interrupt handlers (USART2, DMA2 stream 0, ADC, TIM3,
SysTick) share volatile variables with one main loop. The main loop
(`App/guardian_firmware_app.c`, `Platform/Src/guardian_embedded_link.c`) drains
the receive ring into the protocol parser, dispatches commands to security,
control, health, telemetry and the firmware lifecycle, polls the acquisition
driver, runs the DSP on a complete block, hands the features to the health
model and its verdict to control, and queues answers in the transmit ring.
NodeLink code authenticates messages of peer nodes and protects them against
replay with a flash store and an external rollback anchor. On the host,
`guardianctl` opens sessions with the device, and the assurance library
judges signed statements against durable freshness files.

### Modelled

| Component | State | Operations | What is hard | What makes it correct |
|---|---|---|---|---|
| NodeLink freshness persistence (`NodeLink/Src/guardian_node_link_freshness_persistence*.c`, codec, STM32F401 flash media) | two flash slots, the pending slot | scan, recover, write, verify, commit, abort | power loss in an erase or a program step; operations that fail after taking effect or succeed without | one record or a refusal after every interruption; COMMITTED is durable |
| Freshness runtime (`..._freshness.c`) | the accepted session in RAM | classify, evaluate, evaluate_and_apply | forward gaps, epochs, peers | accepted sequences only rise |
| Rollback anchor (`..._rollback_anchor.c`) | anchored generation and commitment (external) | read, compare, compare-and-advance | a provider that fails with effect | one generation at a time |
| Persistent anti-replay (`..._persistent_anti_replay.c`) | the three above | bootstrap, recover, commit_continuation | a three-party update (flash, anchor, RAM) cut anywhere; old media put back | nothing acknowledged is ever accepted again |
| Ingress transaction (`NodeLink/Src/guardian_ingress_transaction.c`) | live and proposed state in RAM; two records and an anchor (external) | configure, recover, prepare, prepare_pending, commit, snapshot | power loss and failing storage inside commit; registry, key, deadline and clock that change between prepare and commit | durable is what was authenticated, readers see only that, nothing counts twice |
| Firmware lifecycle and trusted keys (`Firmware/Src/*.c`) | staging area, pending mark, rollback floor, RAM state | configure, begin, write_chunk, finalize, activate, confirm_boot, report_boot_failure | failing callbacks, resets between persistent steps, BEGIN in every state | only signed and newer images wait for activation; the floor rises at confirmation alone |
| Security sessions, device (`Security/Src/guardian_security.c`) and host (`console/src/guardianctl/security_client.py`) | challenge, session, counter, expiry; host key and counter | AUTH_BEGIN, AUTH_FINISH, SECURE_COMMAND, expiry, reset; authenticate, exchange | lost, repeated, late and reordered frames; two hosts; repeated session identifiers; counter end | a command runs at most once, authorized, and is reported truthfully |
| Cryptography (`Security/Src/guardian_crypto.c`) | hash context | update, final, hmac, compare | block and padding boundaries | the standard's digest, whatever the pieces |
| Health (`Health/Src/guardian_health.c`) | baseline, streaks, state | begin, learn, score, reject | hysteresis around thresholds, saturating counters | recovery and baselines are complete |
| Control (`Control/Src/guardian_control.c`) | state, latched faults, inputs, permit | configure, actions, interlock, run request, health, evaluate | order of faults and commands; a safe-off that fails | the output is on only when justified |
| USART2 driver (`Platform/STM32F401/Src/stm32f401_uart2.c`) | two rings, TXEIE, counters | handler, read_byte, write | handler against foreground at every shared access | no silent loss, no reordering, no stranded frame |
| Protocol frames, parser, embedded link, telemetry, device service (`Protocol/Src`, `Platform/Src/guardian_embedded_link.c`, `Telemetry/Src`, `App/Src/guardian_device_service.c`) | parser buffer, subscription, sequence numbers | poll, dispatch, transmit, telemetry poll and tick | bytes damaged, lost or repeated; a full queue; the wrap of numbers; two layouts of each report | only requests that were made are acted on; a repeated request is answered; the host reads what the device reported |
| Acquisition driver (`.../stm32f401_acquisition.c`) | DMA buffers, ready mask, flags, recovery request; speed capture | DMA/ADC/TIM3 handlers, 1 ms tick, poll_ex | handlers against foreground, restarts, counter wraps | no torn block; missing blocks flagged; exact speed |
| Start-up, application, preflight (`MDK-ARM/Templates/main_guardian.c`, `App/Src/guardian_firmware_app.c`, `.../guardian_stm32f401_preflight.c`) | clock registers, divisors, uptime | init in its order, poll, tick | the clock tree is decoded three times | a device that polls runs at the rates it claims |
| Block processing (`Acquisition/Src`) | latest block, statistics | process a block | calibration at its ends, refused blocks | measurements and features of one block |
| F401 NodeLink adapter and MCXN947 supervisor (`App/Src/guardian_f401_nodelink_adapter.c`, `MultiNode/Src/guardian_mcxn947_supervisor.c`) | sender sequence and epoch; supervisor state, missed count | start, send, accept_heartbeat, note_missed_heartbeat | lost, repeated, reordered, damaged heartbeats; restarts; a silent node | only news is a sign of life; silence ends in SAFE_HOLD |
| Node network (`MultiNode/Src`): registry, measurement and processing nodes, witness, signed evidence, corroboration | registry; counters; chains; round | register; accept_sample; analyze, fuse; create, sign, verify; submit, query, link loss | any order of registration, envelopes out of order, restarts, conflicting and old reports | one actuator; chains without gaps; nothing signed twice; a review means agreement |
| Interrupt vectors | none | one handler each | | part of the driver modules |

Partly modelled:

- **Assurance freshness and authorizations** of the host: one producer, one
  authority; the limit on replay scopes is not modelled.
- **DSP** (`DSP/Src/guardian_dsp.c`): the transform's index arithmetic and the
  features; not the tables of window and twiddle values nor the rounding of
  single-precision floats.
- **NodeLink frames, authentication, semantics, signed envelopes**: everything but
  `guardian_node_link_accept_sequence`, which only its own test calls.
- **guardianctl client and transports**: the exchange, its failures and what the
  host concludes from telemetry; not ports, command line and presentation.
- **Protocol library** of the host: the formats and checks with which it reads
  reports; not its encoders for requests nor its parser.

### Not modelled

| Component | Reason |
|---|---|
| Assurance authentication and trust stores | pure parsing and verification; AssuranceFreshness starts from authenticated objects |
| Vendored code | third party; Ed25519 is ideal: a signature verifies for the data and key it was made with and for no other |
| Simulator | a host re-implementation of the firmware, for tests |
| Common library, tools, fuzzing | build, release and test utilities |

## 2. Modules and code

**FreshnessStore, PersistentAntiReplay, ReplayGuard.** `FreshnessStore` is the
dual-slot medium as operators: a slot is erased, partly programmed, staged,
valid with a record, or corrupted; `recover_internal`, the write precheck and
the outcome of each stage follow the backend. `PersistentAntiReplay` makes every
provider call of a transaction one action (`WriteErase`, `ProgramBody`,
`Verify`, `CommitMarker`, `Readback`, `AnchorCheck`, `AnchorAdvance`), driven by
`call.pc`; `Bootstrap`, `CommitContinuation`, `Recover` and `EvaluateAndApply`
begin or are operations; `PowerLoss` cuts the step under way, leaving any image
that an interrupted erase or program can leave; `RestoreOldMedia` puts back
records that were once valid; `ProvisionAnchor` is the external provisioning.
`acked`, `written` and `intact` are history variables. `ReplayGuard` is the
abstract promise: `floor` (highest sequence reported as persisted) never falls,
`view` (what RAM accepts above) may be lost and never comes back below it.

**FirmwareLifecycle.** `fw` is the RAM record; `staging`, `pending`, `pfloor`
and `confirmed` are the platform's persistent state and `running` the boot
loader's choice. One action per operation, refusals and callback failures
included; `confirm_boot` is two actions because power may be lost between its
two callbacks (`call`). `Reset` restarts into the pending or the confirmed
image. A digest is the block sequence it stands for, a signature the pair of key
and transcript; key resolution follows the trusted-key table with revoked,
legacy and ambiguous rows.

**IngressTransaction, SignedEnvelope.** `SignedEnvelope` is the envelope codec and
the peer registry with `gsea_verify` in the order of its checks. `x` is
`gi_context`; `gi_commit` is one action per provider call (`CommitCheck`,
`Stage`, `Advance`, the read-backs, the publication), each of which may fail with
or without effect, with power lost before, during and after it. The registry may
be replaced between two calls and `now` is whatever the caller passes.

**SecureSession, Crypto, SecureChannel.** `dev` is `guardian_security_t`; `host[h]` is one
`GuardianSecuritySession` with its exchange under way; `reqs` and `resps` are
every frame ever sent, so each may be delivered late, again, out of order or
never. `AuthBegin`, `AuthFinish` and `SecureCommand` are the link's dispatch of a
frame, `ReceiveNoise` of one that does not verify; `Expire`, `Tick`,
`DeviceReset` and the host's failures interleave with them. MACs are records
labelled with their purpose; session keys are derived from both nonces.
`log` lists executed commands, `done` those a host reported. `Crypto` is the hash
below, on 64-byte blocks and 32-bit words; `SecureChannel` puts both into one
specification.

**Health, Control, SupervisedDevice.** Health and control are sequential code
called from the main loop, so `Health` and `Control` define each operation as an
operator on a record, and `SupervisedDevice` composes them as
`guardian_embedded_link.c` does: an action is a whole link operation with the
control update and the synchronisation of the device state that follow it. Both
outcomes of each output call, with and without effect on the board, are inputs
(`o1`, `o2`). The weighted score is abstracted to the band it falls in.

**NodeLinkPeer, HeartbeatPath, SupervisedNode.** `NodeLinkPeer` is the receiver's
chain for one frame: authenticate, semantic compatibility, freshness, each an
operator with the results of the code in its order. `HeartbeatPath` puts it
between the F401 adapter (`adapter`: sequence, epoch, period) and the supervisor
(`sup`), over a medium that keeps every frame ever sent, with flipped bits, a
transport that fails after sending, and restarts of both. What hands a frame to
the supervisor and calls `note_missed_heartbeat` is external: the repository has
the functions and no caller. `SupervisedNode` puts both sides of the F401 into
one specification.

**UartRings, ByteFifo.** The foreground takes one shared access per step
(`ReadBegin`, `ReadCopy`, `ReadAdvance`; `WriteBegin`, `WriteCopy`,
`WritePublish`, `WriteEnable`); the handler is two steps, the read of SR and the
rest, because the line keeps delivering in between. Bytes are their numbers.
`ByteFifo` is the abstract transmitter: a bounded channel that takes frames
whole.

**Wire, LinkService, Reports, SerialLine.** `Wire` is both frame codecs on bytes,
with CRC-32 computed bit by bit as in the code. `LinkService` is the parser state
machine (`push_byte`), the dispatch with its refusals, telemetry and the host
that makes a request and, without an answer, makes it again (guardianctl has no
retry of its own: its operator has). `Reports` is the layout of every status
payload, written at offsets by the C code and read by struct formats in Python:
a device that holds the largest value in one field after another answers, and
the host reads. `SerialLine` stacks the three layers: the link sees the driver
only as a line that loses bytes, which is all that `UartRings` allows it to do.

**RpmCapture.** TIM3 (`Count`, `Edge`), its handler between the snapshot and the
clearing of SR (`IrqEnter`, `IrqFinish`), and the tick one access at a time.
Timestamps keep their width as a modulus.

**AcquisitionStream.** DMA fills two buffers in halves; `DmaIrqComplete`,
`DmaIrqError` and `AdcIrq` are the handlers; `poll_ex` is a sequence of steps
(restart, trigger, acknowledge, select, check, two copies, recheck, process)
split where interrupts are enabled in the code.

**Boot.** `main`, the preflight, the two drivers' set-up and the application's
init as one action each, on a `board` that is its clock registers and factory
words; `SystemCoreClockUpdate` and the three decoders of the APB prescalers are
operators of their own, as is every divisor.

**Signal.** A block of ADC codes through calibration, RMS and publication in
integers as in the code; features as fractions. The transform only adds and
multiplies, so it runs over a finite field with a root of unity of the right
order and the code's index arithmetic, where it can be compared exactly with the
definition of the DFT.

**Acquisition** composes Boot, RpmCapture, AcquisitionStream and Signal.

**MultiNodeRegistry, Measurement, EvidenceChain, Corroboration, NodeNetwork.**
The registry is a sequence of nodes. `Measurement` is the sampling node with its
regression checks and the processing node's windows, correlation and fusion.
`EvidenceChain` is producers, the witness and the verifier with their bounded
tables; a digest is the tuple of what it was computed from. `Corroboration` is a
round on the bytes of its two codecs. `NodeNetwork` composes them with the
ingress transaction.

The composed modules share values (a rate, a byte, a registered node), not
variables that both write, so each behaviour exercises one part, chosen in the
initial state (`part`, `layer`), while the others rest: the runs check each part
in full without the product of their states. Parts that do interact through
state are composed action by action: FreshnessStore with anchor and runtime,
Health with Control, envelope with transaction, host with device, adapter with
receiver and supervisor.

**AssuranceFreshness.** Callers run requests of the orchestrators against three
files. A commit is check, write of the candidate, replace, directory sync and
verify; `disk[f]` is the set of contents power loss may leave; any step may fail.
A recovery, whose caller is not in the repository, takes up the transaction file
it can read, durable or not, and projects it. `reports` and `authorized` are the
answers given so far.

`MC_*` modules hold the values of constants that a cfg cannot write (key table,
manifests, roles, symmetry). `*_proofs` modules hold the theorems.

## 3. Runs

Passing runs (a property named "... Sound" is a conjunction of named parts, given
in brackets):

| Run | Properties | Shows |
|---|---|---|
| `persistent_anti_replay` | NoReplayAfterReset, DurableState (AnchoredRecordDurable, OkIsDurable), ImplementsGuard | with power loss at every step, failing operations and old media: an active runtime is never behind what was acknowledged; on its own medium the anchored record is always in a valid slot; COMMITTED is what recovery selects; the whole implements `ReplayGuard` |
| `firmware_lifecycle` | UpdateSound (VerifiedIsSigned, CandidateIsNewer, OutcomeIsPersistent), FloorFollowsConfirmation | only a completely staged, signed and newer image is verified or pending; an outcome is reported once it is persistent; the floor rises only to the pending version |
| `secure_channel` | AtMostOnce, OnlyAuthorized, ReportedIsExecuted, DigestsAreStandard, SessionLifetime (SessionOnlyReplacedByProof, IdleSessionIsDead) | commands run at most once and under a sufficient role, are reported only when executed; unauthenticated traffic ends no session; an idle session runs nothing; digests and codes are the standard ones |
| `supervised_node` | OutputJustified, LatchesHold (OnlyLocalStart, FaultsStayLatched, RecoveryIsPersistent), SafeOffInTheEnd; PathSound (HeartbeatTypeOK, HeardAsSent), HoldReleasedByNews, SilentPeerHeld | the output is on only when every condition holds now or an adapter failure is latched; only a local request starts it; faults leave the latch only by a successful CLEAR_FAULT; recovery takes the full calm streak; a held fault gets the output off. Heartbeats are heard as sent, once, in order; old frames release no hold; silence ends in SAFE_HOLD for good |
| `serial_line` | RingsSound (LossesAreCounted, NoLostWakeup), TransmitsAsFifo, AcceptedBytesAreSent; RequestAsSent, RetryIsAnswered; HostInformed (GapIsLoss, ReadAsReported, AnswersAsDispatched) | every gap in the received stream is counted, a published frame is never stranded, the transmitter refines `ByteFifo`, accepted bytes are sent; damaged bytes never make a request, a repeated request is answered; the host reads each field as reported and counts telemetry losses right |
| `acquisition` | SpeedSound (PeriodExact, StaleInTime), StreamSound (StreamTypeOK, NoTornBlock), BlocksAccounted (BlocksInOrder, GapsAreFlagged), RecordedStopIsRepaired, ClocksAsChecked, SpectrumIsDft, FeaturesSound (FeaturesMatchMeasurements, FeaturesConsistent) | a valid speed has the exact period, also across counter and timestamp wraps, and does not outlive the stale time; a published buffer is one whole block, newer than the last; missing blocks show in the quality flags; a recorded stop is repaired; a polling device has the clocks the preflight judged; the transform is the DFT; features are possible values and of the published block |
| `assurance_freshness` | UsedOnce (FreshAtMostOnce, ConsumedOnce), ReportedIsDurable, ConsumedBeforeProjected | a statement is FRESH once and stays recorded after power loss; an authorization is consumed once; a lifecycle changes the freshness file only when its authorization is consumed in every transaction file power loss can leave, whatever recoveries run beside it |
| `node_network` | OneActuator; ObservationsInOrder; FusionSaysWhatWindowsSay; EvidenceSound (AcceptedArePrefix, WitnessSignsOnce); ReviewMeansAgreement, ConflictIsFinal; IngressSound (AnchorNamesARecord, SnapshotIsAnchored, AcceptedOnce), DurableIsJustified | as in the inventory: one actuator, ordered observations, chains without gaps, nothing signed twice, reviews that mean agreement, and an ingress transaction that makes durable, once, what was authenticated and comes from a peer still admitted at the commit |

Runs that refute a statement of the documentation (section 7):

| Run | Property |
|---|---|
| `anchored_slot_recovery` | AnchoredSlotRecovered |
| `boot_confirmation` | BootedCandidateCanConfirm |
| `rpm_wrap` | PeriodExact, with events allowed inside the handler |
| `late_stream_error` | StreamReconstructed |

## 4. Bounds

| Run | Bounds | Why they are enough |
|---|---|---|
| `persistent_anti_replay` | 2 peers, epochs 0 and 1, MaxSeq 3, MaxGen 3, MaxGap 2 | three generations make each slot be rewritten once, so that a slot is old, current and future; one sequence lies beyond the gap |
| `firmware_lifecycle` | 2 blocks, images and chunks of at most 2 blocks, versions to 3, 10 manifests, keys usable, legacy, revoked and an ambiguous pair | two chunks and two consecutive updates; each reason for refusing a manifest occurs |
| `secure_channel` | an observer and an operator, 1 session identifier, 1 command, CounterMod 4, session timeout 2, challenge timeout 1, time to 2, 2 nonces on each side; messages to 130 bytes in pieces of 3, 23, 32, 55, keys of 0, 32, 64, 65 | one identifier means that it always repeats; two nonces give a replaced challenge, a replaced session and a reset between; the counter reaches its end. Sums of the pieces end before, on and after the padding limit of a block and cross two blocks; the keys are empty, usual, a block and more |
| `supervised_node` | 1 or 2 baseline blocks, 2 sample rates, streaks 3/2/5 as in the code, counters capped at 5; 3 heartbeats, numbers to 3, gap 1, limit 2, one restart of either node, flips in state, number and CRC | nothing compares a streak above 5; three frames give a duplicate, an overtaking and a gap that is too wide, and the number reaches its end |
| `serial_line` | rings of 3 and 4, frames to 3, 4 bytes arriving, 4 accepted; 2 requests of 4 kinds, 2 faults, bits 0 and 7, payloads to 8, telemetry numbers to 2; every report with each field at its largest | both rings fill, wrap and refuse; two faults damage a frame and its repetition; the numbers wrap; a field at its largest with the others at zero shows an offset or a width that is wrong |
| `acquisition`, `rpm_wrap`, `late_stream_error` | counter of 4, timestamps of 12, stale after 2, latency 1, 16 counts (18 in `rpm_wrap`); 1 completion per copy, 5 blocks, 2 faults (3 blocks in `late_stream_error`); 7 clock trees with 12 prescaler pairs, 3 baud rates; transform of 8 points modulo 7, 6 blocks, 18 spectra, 2 published | four counter wraps and one timestamp wrap; each buffer is filled twice, and an error meets the repair of another; trees below, at and above the limits; unit vectors determine a linear transform |
| `assurance_freshness` | 2 callers, 2 epochs, 2 logical times, 2 sequences, UINT64_MAX 2, symmetry over callers and epochs | a transition in each direction, exhausted generations, every pair of requests interleaved, a recovery at every point; UsedOnce and ReportedIsDurable were also checked once with 3 epochs (10,677,333 states, 14 minutes) |
| `node_network` | 10 candidates for 5 places; samples with numbers and times to 4, counter end 2; windows of 2 and 3 samples; 3 producers for tables of 2, 2 lives, 3 envelopes, one restart and one revocation; a round of 3 peers with threshold 2, 6 reports, clock to 2; one ingress peer, 4 genuine and 3 spoilt messages, 3 registries, times 0 to 2, 4 revisions | every refusal of the registry; the sample counter reaches its end; a table overflows; two commitments, a second epoch, a claim of actuation and another round; each commit can be cut, repeated and recovered |

MaxSeq, MaxGen, MaxVersion, MaxTime, MaxClientNonce, MaxDeviceNonce, MaxArrived,
MaxAccepted, MaxBlocks, MaxFaults, MaxSent, MaxNodeRestarts, MaxRequests,
MaxPublished, MaxSequence, MaxLives, MaxEnvelopes, MaxRestarts, MaxRevoked,
MaxRoundClock, UPTIME_MAX and REVISION_MAX bound what is unbounded or 2^32 and
more in the program. Deadlock is checked everywhere except in `serial_line`,
`node_network` and the acquisition runs, which stop when their bounded input is
used up.

## 5. Fairness and timing

- `SupervisedNode`: weak fairness of "a block arrives and the adapter works" (the
  main loop analyses a block every 16 ms; an adapter that fails at every single
  call is the one thing software cannot repair), and of the supervisor's period
  timer, which calls `note_missed_heartbeat` (the caller is external).
- `SerialLine`, driver: weak fairness of the handler (the NVIC serves a pending
  interrupt), of the transmitter, and of the remaining steps of a read or write
  that has begun. Nothing forces the foreground to begin one.
- `SerialLine`, link: weak fairness of `TakeByte` (the main loop polls) and of
  `HostRetry`. `guardianctl` itself never repeats a request: the retry is its
  operator's, and RetryIsAnswered says what such a retry can rely on.
- `Acquisition`: weak fairness of the stream's handlers and of the polling
  foreground; faults are finitely many.
- Timing assumed: the DMA handler has run before the next half block (8 ms) and
  copying one buffer spans at most `Laps` = 1 completion (16 ms);
  the TIM3 handler starts within `Latency` counts, far less than half a counter
  wrap; pulses are closer than the timestamp modulus; in `acquisition` no event
  falls inside the handler (`LateEvents` FALSE; `rpm_wrap` drops that).
- `AssuranceFreshness`: two commits of one file do not overlap (`Overlap`
  FALSE). The backends take no lock, so this is a duty of the deployment; with
  TRUE, FreshAtMostOnce fails (section 7).

All other specifications are safety only and use no fairness.

## 6. Proofs

Eight modules prove their theorems for every value of the constants, from the
named assumptions of the modules (StoreConstants, AntiReplayConstants,
FirmwareAssumption, HealthAssumption, RingAssumption, SessionAssumption,
BadIsNoMac, NoneIsNoKey, StreamAssumption, RpmAssumption, AssuranceAssumption,
NoneIsNoState, EvidenceConstants, IngressConstants, MeasurementConstants,
ResultsAreListed, UInt32Assumption, NoRefAssumption, HeartbeatConstants,
SequenceAssumption, RequestAssumption, BoardAssumption). These say that widths
and bounds are numbers and fit the bytes they are sent in, that roles are
assigned, that an identity is one node's, that the ingress configuration is one
`config_ok` accepts, that a request consists of bytes, that clock registers hold
values of their fields and the PLL runs in the range it locks in (at most 432 MHz,
so that its product fits 32 bits), and that the values standing for "nothing"
(None, Bad, NoRec, Torn, NO_REF) differ from every something. Four hypotheses
are about the environment, not about constants of the code, and are written in
the theorems that need them:

- `Laps = 1` (stream): at most one DMA completion falls into one copy;
- `Prompt` (speed): no timer flag comes up while the handler runs, and the
  handler starts less than half a counter wrap late (3.2 s at 10 kHz); `rpm_wrap`
  shows that the first half is needed;
- `Overlap = FALSE` (host freshness): no two processes are inside commit of one
  file; section 7 says what happens otherwise;
- `MaxFaults = 0` (QuietLine only): the line loses and changes nothing and the
  transmit queue has room. The theorems on the parser and on what the device acts
  on need no such hypothesis.

**PersistentAntiReplay_proofs.** NoReplayAfterReset is not inductive: it depends
on what a step in flight will do. The invariant adds that valid slots and the
candidate of an open call are records of the tracked peer (DataInv), that a
continuation in flight extends the anchored record, or is the anchored record
once the anchor has advanced (CallInv), that what was acknowledged is at or
below the anchor (AckInv), and that an active session was acknowledged
(RuntimeInv). Then RAM can only be established from a record that matches the
anchor. Theorems: AntiReplayInvariant, TypeCorrect, NoReplay, AnchorForward
(AnchorStepwise), GuardRefinement (ImplementsGuard). DurableRecords (DurableState)
needs one thing more: that the slot a transaction is writing is not the one that
holds the anchored record (TransactionInv), so that an erase can never take it.

**FirmwareLifecycle_proofs.** The invariant adds that a manifest being received,
verified or pending is one that fits a configured lifecycle (ManifestInv), and
that RAM and persistent policy agree: RAM floor and persisted floor, active,
running, pending and confirmed versions, also between the two callbacks of
confirm_boot (PolicyInv); without them a failing callback could leave a state that a
later operation trusts. Theorems: LifecycleInvariant, LifecycleTypeCorrect, OnlySignedImages,
OnlyNewerImages, ReportedOutcomes, together UpdatesAreSound, and FloorRises.

**SupervisedNode_proofs, the machine.** One control operation calls several
others, so the argument is two lemmas about records: Settling holds in the middle
of an operation, Settled after the evaluation that ends it. With the streaks and
baseline (HealthInv), the agreement of history and streak (CalmInv) and
HealthNotStale, the invariant is preserved by each link operation. Theorems:
DeviceInvariant, DeviceTypeCorrect, StatusAlwaysConsistent, OutputIsJustified,
HealthAndStateInStep, BaselinesComplete, and StartsAreLocal, FaultsLatch,
RecoveriesPersist, together LatchesAlwaysHold.

**SupervisedNode_proofs, the heartbeats.** A frame is bytes, so the first result
is that decoding gives back every frame that can be encoded (NodeLinkRoundTrip);
what remains of the receiver's chain is then a function of the frame. PathSound is
not inductive: it says of the frames heard that their numbers rise, while what
rejects a frame is the freshness runtime. The invariant (PathInv) adds that an
active runtime is for the one peer, that whatever was heard is of its epoch and at
or below what it accepted (HeardInv), and that each frame on the medium is one the
adapter could send. A restart of the receiver recovers that record or leaves the
runtime uninitialised, in which state it accepts nothing. Frames with flipped
bits need no argument about the CRC: what is accepted has to carry the
authentication of a frame that was sent. Theorems: PathInvariant, HeartbeatsAreSound
(PathSound), HoldIsReleasedByNews (HoldReleasedByNews); and for the node that does
both, NodeInvariant, NodeOutputIsJustified, NodeLatchesHold.

**SerialLine_proofs, the rings.** The invariant says that the queued bytes rise
along the receive ring (RxOrdered), what the reader holds at each of its steps
(ReaderInStep), what the handler's snapshot of SR still says of the peripheral
(SnapshotInStep), that every loss is counted or still visible in a flag
(LossVisible), and that the transmit ring and the frame being copied hold
consecutive numbers (TxFilled). Theorems: UartInvariant, UartTypeCorrect,
NoSilentLoss and WakeupIsNeverLost, together RingsAreSound, NothingIsLeftBehind,
ReceivesInOrder, TransmitterRefines; RingsSoundOnLine for the whole line.

**SerialLine_proofs, the link.** The codec comes first, for every payload:
ProtocolRoundTrip (what encode accepts, decode gives back) and its converse
DecodesOnlyEncodings (bytes that decode are the encoding of what they decode to).
The CRC enters only as a function of the bytes before it. The parser is a state
machine on its buffer: ParserOk says that below 12 bytes no size is known, and
from there on the buffer is shorter than the size, which is at most that of the
longest frame. It holds whatever arrives (LineInv), so the test for a full buffer
in `push_frame_byte` is never true (ParserStaysInBounds), and the device acts only
on frames that could have been encoded (ActsOnFramesOnly). QuietLine adds that the
buffer and the rest of the line are together the frame of the pending request
(QuietInv), which on a line without faults gives RequestAsSent and
AnsweredAtOnce. GapsAreLosses is the first part of HostInformed: the numbers run
from 1 to their last and round again, so the next one is told by a remainder.

**SecureSession_proofs.** AtMostOnce speaks of the log, while what keeps a frame
out is the counter of the open session. The invariant ties them together through
the device nonce: a pending challenge has a nonce that no executed command and no
open session was made with (DevInv), so the session it opens has an empty past,
and of the open session's own commands only counters below the next one were
executed (LogInv). A repeated session identifier is harmless for that reason. The
rest says that every tag on the medium is a host's own and of its role (ReqInv,
HostInv) and that a positive response answers an executed request (RespInv).
Theorems: SessionInvariant, TypeCorrect, NeverTwice, AuthorizedOnly,
ReportsAreTrue, and Lifetime.

**Acquisition_proofs, the stream.** NoTornBlock depends on where DMA is during a
copy: in the other buffer, or back in this one with the one completion spent,
which the second check sees (TargetInv, CopyInv). GapsAreFlagged needs a count:
completed blocks are published, on their way (the pending flag, the ready mask),
or announced by a quality flag that travels with the next block (OrderInv,
RecoveryInv). Theorems: StreamInvariant, WholeBlocks, InOrder, MissingAnnounced,
EveryBlockAccounted.

**Acquisition_proofs, the speed.** The invariant says that the overflow count is
right but for a pending update, modulo its width (CountInv), that the last
timestamp is that of the last pulse, or of the one before while the last waits
(PulseInv), that the handler works on the flags there are (SnapshotInv) and that
the age is not behind the ticks (AgeInv). The core is lemma CaptureStamped: the
comparison with half a wrap assigns a capture to the right side of an update that
is pending. It rests on lemmas on division and remainder (DivModUnique,
StampOf, DistanceOf), since counter and timestamp wrap. Theorems: SpeedInvariant,
SpeedIsSound.

**Acquisition_proofs, the start.** ClocksAsChecked compares each divisor with what
the clock tree delivers, computed in one division from the source. The code
decodes the tree one divider at a time, in three places, and rounds down at each;
that this is the same is lemma DividedTwice (rounding down twice is rounding down
once) with the prescaler tables against the manual's (AhbDivisor, ApbDivisor), in
BusIsDecoded. What the preflight and `acquisition_init` accepted bounds the
divisors from below, hence their rounding from above. The invariant (BootInv) says
which stage has which of these behind it, and that the report is about the clocks
in use. Theorems: BootInvariant, ClocksAlwaysAsChecked; StreamSoundInDevice and
SpeedSoundInDevice carry the results above to the composed device.

**AssuranceFreshness_proofs.** Both files move forward only, in orders that agree
with each other: each record that power loss may leave is below the committed one
(FileInv), and a transaction is ahead of each freshness state it may be projected
onto, which is why comparing generations alone is enough. Each request in flight
satisfies RequestOK: what commit compared with still stands, the candidate
follows it, and a transaction being projected fits the freshness file; that it is
durable is known of a lifecycle's own, not of one that a recovery found. PairOK
relates two requests: no generation is replaced twice, one lifecycle reports each
transaction. All under `Overlap` FALSE. Theorems: FreshnessInvariant, TypeCorrect,
NothingCountsTwice, FreshStaysRecorded, LifecycleConsumesFirst.

**NodeNetwork_proofs.** The parts share no state, so each has its own invariant,
and PartsMove carries them to the network.

- Registry: registered nodes are valid and differ in identifier and role, so
  only one can have the role that may actuate (AtMostOneActuator).
- Measurement: what the regression check compares with is the last observation
  handed out, also when the sample counter is at its end (ObservationsOrdered).
- Evidence: each signed number is covered by one table entry (SignerInv); each
  life has created a chain and holds its last digest (CreatedInv); the verifier
  holds the digest of the last envelope accepted (LedgerInv). An envelope
  that fits that digest is the next of the same chain, because digests of
  different content differ (SignsOnce, AcceptedPrefix, EvidenceIsSound).
- Corroboration: the slots of an open round hold one commitment, a second one
  latches (RoundInv); reports go through the wire format, so the proof has the
  byte positions at which a commitment is read back (ReviewedAgreement,
  ConflictsFinal).
- Ingress: the record in flight continues the anchored one, is in the other slot
  before the anchor names it, its message was not accepted before and its sender is
  still admitted by registry and keys; all else is on hold (LiveInv, FlightInv,
  CountInv). Theorems TransactionIsSound and
  DurableJustified.

The theorems are about the component's own specification (`Spec`, `StreamSpec`,
`RpmSpec`) or, where their name says so, about the composition (`NodeSpec`,
`SerialSpec`, `AcquisitionSpec`, `NetworkSpec`), whose parts share no variable.
`SecureChannel` is the exception: it contains `Crypto`, whose RECURSIVE operators
keep the SMT backend out of every module that reaches it, so the theorems of
`SecureSession` stay theorems of its own `Spec`.

Only model-checked:

- liveness (SafeOffInTheEnd, SilentPeerHeld, AcceptedBytesAreSent,
  RetryIsAnswered, RecordedStopIsRepaired), which with ENABLED is out of the
  prover's reach;
- RequestAsSent on a line with faults: that damaged bytes never pass for another
  request rests on the distance of the CRC, which is a recursion over the bits of
  the frame. The run tries every pair of faults; what is proved is that the device
  acts on whole frames only, and RequestAsSent without faults;
- HostInformed as a whole: GapIsLoss is proved; ReadAsReported and
  AnswersAsDispatched compare two tables of offsets field by field, which the run
  does exhaustively;
- DigestsAreStandard, SpectrumIsDft: what a recursion over blocks or points
  computes for every input needs induction over data (and Crypto uses RECURSIVE and
  bitwise operators);
- FeaturesSound and FusionSaysWhatWindowsSay: sums and an integer square root over
  a window, that is folds whose value for every window needs induction.

## 7. Where code and documentation disagree

Four runs show it; `PROJECT.json` quotes the lines.

1. Recovery compares only the newest slot with the anchor. After power loss
   between the flash commit and the anchor advance it refuses, although the other
   slot holds the anchored record, which the R3D contract makes the recovery
   candidate (`anchored_slot_recovery`). It fails safe: nothing is replayed.
2. `confirm_boot` needs the RAM state PENDING_ACTIVATION, which a boot never
   restores, so the booted candidate cannot confirm (`boot_confirmation`).
3. The TIM3 handler clears flags that were set after its snapshot of SR; one wrap
   or pulse is lost and the next speed is wrong (`rpm_wrap`).
4. `poll_ex` clears the recovery request after the stream runs again and can
   clear the request of a new error; the stream then stays stopped
   (`late_stream_error`).

The modules also state the following, which no run lists as holding:

- PendingImageIntact (FirmwareLifecycle): BEGIN after ACTIVATE erases the image
  that is marked for the next boot.
- FailureDiscardsSession (SecureSession): a transport exception inside
  `authenticate()` leaves the former session in place at the host.
- DisabledPublishesIdle (SupervisedDevice): once control has given up the device
  state, the last published one stays.
- AlarmNeedsSevereBlocks (SupervisedDevice): one severe block after mild ones can
  reach ALARM (`guardian_health.c:657`); the documentation asks for two severe
  ones.
- NotStaleEarly (RpmCapture): the tick's read-modify-write of the age, preempted
  by a capture, can mark a new speed stale.
- ConsumedIsApplied (AssuranceFreshness): a FRESH statement committed between a
  transition's read of the freshness state and its projection makes
  reconciliation report CONFLICT; the authorization is consumed and the change
  never applied. Likewise commit compares the previous freshness state with the
  last transaction of the scope (`authorization_host_backend.py:473-483`), so a
  later transition is refused as STALE once an ordinary statement has moved the
  freshness file.
- ConsumptionPrecedesMutation (AssuranceFreshness): the design
  (`docs/validation/m15-td-006-bootstrap-and-epoch-transition-authorization.md:532-534`)
  says that a failed or interrupted transaction "must not create a state where: the
  authorization is reusable while the protected state mutation became
  authoritative", and line 176 says the same of power loss. A recovery can create
  it. A bootstrap replaces its transaction file
  (`authorization_host_backend.py:501`), the directory sync fails or the process
  ends there (`:502`); a process that starts again reads the new file, `verify`
  (515-536) compares only what is visible, whatever its message says of durable
  state, and reconciliation replaces and syncs the freshness file; power loss then
  takes the transaction's rename back. With one caller TLC shows it in 13 states.
  The lifecycles themselves are not concerned: they project only after their own
  sync (ConsumedBeforeProjected). A recovery that syncs the directory before it
  projects would close it.
- When another caller has already projected its transaction, a lifecycle finds it
  applied (ALREADY_RECONCILED) and reports it consumed although the other's
  directory sync is still to come; power loss may then leave the old freshness
  file, with the transaction to project again in the other.
- With `Overlap` TRUE, two processes inside commit of one file both report the
  same statement FRESH.

Behaviour of the code that the models reproduce and a user of it should know; no
document says otherwise:

- Host link: a telemetry frame whose number equals the pending request's makes
  the exchange raise (`console/src/guardianctl/transport.py:48`,
  `serial_transport.py:172`), at the cost of one attempt. The link answers the
  queries for security and firmware status whatever the frame type. A telemetry
  number is used up before the frame is queued, so a full ring looks to the host
  like a lost frame, which it is.
- Sessions: uptime stops at 2^32 - 1 ms; a session alive then lives until it is
  replaced or the device is reset.
- Heartbeats: losing more than `max_forward_gap` in a row, or a sender that
  restarts with another epoch, leaves the peer refused until it is registered
  again. After a transport failure during sending two frames carry one number,
  and one of them is accepted. The adapter stores its projection of the link
  state also when the link refuses it, and never reads it.
- Ingress: a pending request whose deadline passes without an acknowledgement
  stays pending and no operation drops it.
- Evidence: a lost envelope, or one refused for its producer's role, stops the
  chain behind it; a producer that restarts starts a chain its verifiers refuse
  with CHAIN_MISMATCH; verifier and witness keep their tables in RAM and forget
  them at a restart; a table fills up as keys are rotated.
- Corroboration: a rejected report does not advance the round's clock; a second,
  different report under the same sequence is rejected and does not latch a
  conflict.
- Rollback backend: identities are compared over the whole buffers (`memcmp`)
  there and up to the terminator (`strncmp`) in the contract.
- `dsp_status_flags` never leaves the device.

## 8. What is left out

- Diagnostic and rejection counters (the UART receive counters are kept as their
  sum).
- Numbers: the rounding of single-precision floats, and the window and twiddle
  tables. The transform is computed modulo a prime with an element of the right
  order for the root of unity; scores are the bands that the thresholds cut.
- Ed25519 is ideal, and so are SHA-256 and HMAC outside `Crypto`, which checks
  the block, padding and key arithmetic of the repository's own implementation;
  keys are never disclosed.
- Host encoders for requests, the host's parser, ports and presentation.
- The blocked conditions of the freshness runtime that no code sets.
- The capacity of the replay-scope set (4096).
- RpmCapture: pulses more than a timestamp period apart.
- `guardian_node_link_accept_sequence`, which only its own test calls.
- Components of section 1 marked as not modelled.

## 9. Plan

The components that carry the system's logic are modelled, and what their runs
check is proved but for the list at the end of section 6. Worth doing next:

1. The host's side of the serial line: its parser and the matching of answers by
   number in `transport.py`, with telemetry frames between request and answer.
2. Two processes inside commit of one state file (`Overlap` TRUE), once the
   backends take a lock.
3. A CRC given by its table instead of bit by bit: then the distance of short
   frames could be a lemma, and RequestAsSent a theorem for one flipped bit.
