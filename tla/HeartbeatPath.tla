--------------------------- MODULE HeartbeatPath ----------------------------
(***************************************************************************)
(* A heartbeat's way from the F401 to the MCXN947 supervisor:              *)
(*   firmware/App/Src/guardian_f401_nodelink_adapter.c   sender            *)
(*   Wire and NodeLinkPeer                               frame, receiver   *)
(*   firmware/MultiNode/Src/guardian_mcxn947_supervisor.c                  *)
(* The medium loses, repeats, reorders and corrupts frames; a transport    *)
(* may report a failure after the frame has gone out.  The signature       *)
(* travels with the frame, and the receiving application (external) hands  *)
(* a HEARTBEAT frame that passed every stage to the supervisor and calls   *)
(* note_missed_heartbeat whenever a heartbeat period has run out.          *)
(***************************************************************************)
EXTENDS NodeLinkPeer, MultiNodeRegistry, FiniteSets

CONSTANTS
  HEARTBEAT_MS,    \* GUARDIAN_F401_NODELINK_DEFAULT_HEARTBEAT_MS
  MaxGap,          \* freshness policy: max_forward_gap
  MissedLimit,     \* missed_heartbeat_limit
  SenderStates,    \* node states the F401 application sets
  Epochs,          \* sender epochs a start of the F401 may be given
  SelfNodes,       \* nodes the supervisor may be configured as
  KeyStates,       \* what the key store may answer
  CompatStates,    \* what the compatibility provider may answer
  RecordStatus,    \* what loading the persisted record may report
  Flips,           \* <<byte, bit>> positions the medium may flip
  MaxNodeRestarts,     \* bound on restarts of the two nodes
  MaxSent          \* bound on the frames that go out

ASSUME HeartbeatConstants ==
  /\ HEARTBEAT_MS \in Nat \ {0} /\ MaxGap \in Nat \ {0}
  /\ MissedLimit \in Nat \ {0} /\ MaxNodeRestarts \in Nat
  /\ SenderStates \subseteq Nat
  /\ Epochs \subseteq 0..UINT32_MAX /\ Epochs # {}
  /\ SelfNodes # {} /\ \A self \in SelfNodes : self.node_id \in Nat
  /\ KeyStates \subseteq VERIFY_RESULTS
  /\ CompatStates \subseteq COMPAT_PROVIDER_RESULTS

VARIABLES
  adapter,    \* guardian_f401_nodelink_adapter_t
  alive,      \* the F401 is running
  medium,     \* frames that have gone out
  rt,         \* guardian_node_link_freshness_runtime_t of the receiver
  sup,        \* guardian_mcxn947_supervisor_t
  heartbeats,      \* history: frames the supervisor accepted, in order
  restarts    \* restarts so far

heartbeatVars == <<adapter, alive, medium, rt, sup, heartbeats, restarts>>

-----------------------------------------------------------------------------
(* The sender.                                                             *)

ADAPTER_RESULTS ==
  {"OK", "NODE_ID_ZERO", "EPOCH_ZERO", "NOT_INITIALIZED", "INVALID_STATE",
   "TRANSPORT_NOT_CONFIGURED", "ENCODE", "TRANSPORT", "SEQUENCE_EXHAUSTED"}

Adapters ==
  [state: 0..5, node: Nat, epoch: Nat, next_sequence: 1..UINT32_MAX,
   elapsed: 0..HEARTBEAT_MS, transport: BOOLEAN, initialized: BOOLEAN,
   exhausted: BOOLEAN]

Uninitialized ==
  [state |-> NODE_STATE.BOOT, node |-> 0, epoch |-> 0, next_sequence |-> 1,
   elapsed |-> 0, transport |-> FALSE, initialized |-> FALSE,
   exhausted |-> FALSE]

adapter_init(node, epoch) ==
  IF node = 0 \/ epoch = 0 THEN Uninitialized
  ELSE [Uninitialized EXCEPT !.node = node, !.epoch = epoch, !.initialized = TRUE]

f401_nodelink_state_valid(state) == state <= NODE_STATE.FAULT

NodeId == 1
Peer == [sender |-> NodeId, producer |-> 1, key |-> 1,
         algorithm |-> SIGNATURE_ED25519]
Binding == [sender |-> NodeId, producer |-> 1, key |-> 1,
            algorithm |-> SIGNATURE_ED25519, profile |-> "f401"]

Authenticator == authenticator_configure(<<Peer>>, SIGNATURE_ED25519, TRUE)
Resolver == resolver_configure(<<Binding>>, "mcxn947", TRUE)

FrameOf(a, type) ==
  [type |-> type, flags |-> NL_SUPPORTED_FLAGS, state |-> a.state,
   sequence |-> a.next_sequence, epoch |-> a.epoch, sender |-> a.node,
   payload |-> << >>]

(* The F401's signature over the transcript of a frame.                    *)
SignatureOf(frame) ==
  [key |-> Peer.key,
   over |-> build_auth_transcript(frame, Peer.producer, Peer.key).bytes]

(* The sequence number is used up only when the transport reports success. *)
sent_adapter(a, reported) ==
  IF ~reported THEN a
  ELSE IF a.next_sequence = UINT32_MAX THEN [a EXCEPT !.exhausted = TRUE]
  ELSE [a EXCEPT !.next_sequence = @ + 1]

send_precheck(a) ==
  CASE ~a.initialized -> "NOT_INITIALIZED"
    [] a.initialized /\ ~a.transport -> "TRANSPORT_NOT_CONFIGURED"
    [] a.initialized /\ a.transport /\ a.exhausted -> "SEQUENCE_EXHAUSTED"
    [] OTHER -> IF node_link_encode_result(FrameOf(a, NL_MESSAGE.HEARTBEAT),
                                           NL_MAX_FRAME) = "OK"
                  THEN "OK" ELSE "ENCODE"

(* guardian_f401_nodelink_send: `left' says whether the frame went out,    *)
(* `reported' what the transport says.                                     *)
Send(type, left, reported, elapsed) ==
  /\ send_precheck(adapter) = "OK"
  /\ reported => left
  /\ left => Cardinality(medium) < MaxSent
  /\ adapter' = [sent_adapter(adapter, reported) EXCEPT !.elapsed = elapsed]
  /\ medium' = IF left THEN medium \cup {FrameOf(adapter, type)}
               ELSE medium

SendHello ==
  /\ alive
  /\ \E left, reported \in BOOLEAN :
       Send(NL_MESSAGE.HELLO, left, reported, adapter.elapsed)
  /\ UNCHANGED <<alive, rt, sup, heartbeats, restarts>>

(* guardian_f401_nodelink_adapter_poll: the period restarts only when the  *)
(* heartbeat was sent.                                                     *)
Poll ==
  /\ alive /\ adapter.initialized
  /\ adapter.elapsed >= HEARTBEAT_MS
  /\ \E left, reported \in BOOLEAN :
       Send(NL_MESSAGE.HEARTBEAT, left, reported,
            IF reported THEN 0 ELSE adapter.elapsed)
  /\ UNCHANGED <<alive, rt, sup, heartbeats, restarts>>

Tick ==
  /\ alive /\ adapter.initialized
  /\ adapter.elapsed < HEARTBEAT_MS
  /\ adapter' = [adapter EXCEPT !.elapsed = @ + 1]
  /\ UNCHANGED <<alive, medium, rt, sup, heartbeats, restarts>>

SetTransport ==
  /\ alive /\ adapter.initialized /\ ~adapter.transport
  /\ adapter' = [adapter EXCEPT !.transport = TRUE]
  /\ UNCHANGED <<alive, medium, rt, sup, heartbeats, restarts>>

SetNodeState(state) ==
  /\ alive /\ adapter.initialized
  /\ f401_nodelink_state_valid(state)
  /\ adapter.state # state
  /\ adapter' = [adapter EXCEPT !.state = state]
  /\ UNCHANGED <<alive, medium, rt, sup, heartbeats, restarts>>

(* The F401 stops for good, or starts again with the epoch it is given.    *)
Crash ==
  /\ alive
  /\ alive' = FALSE
  /\ UNCHANGED <<adapter, medium, rt, sup, heartbeats, restarts>>

RestartSender(epoch) ==
  /\ alive /\ restarts < MaxNodeRestarts
  /\ adapter' = adapter_init(NodeId, epoch)
  /\ restarts' = restarts + 1
  /\ UNCHANGED <<alive, medium, rt, sup, heartbeats>>

-----------------------------------------------------------------------------
(* The supervisor.                                                         *)

MCXN947_STATES == {"BOOTSTRAP", "MONITORING", "DEGRADED", "SAFE_HOLD"}
MCXN947_RESULTS ==
  {"OK", "INVALID_CONFIG", "INVALID_NODE", "NOT_AUTHENTICATED", "NOT_FRESH",
   "SEMANTICALLY_INCOMPATIBLE", "REPLAY_OR_REGRESSION", "INVALID_HEARTBEAT"}

Supervisors ==
  [self: Nat, state: MCXN947_STATES, epoch: Nat, sequence: 0..UINT32_MAX,
   missed: 0..UINT32_MAX, limit: Nat, initialized: BOOLEAN, recovery: BOOLEAN]

supervisor_init ==
  [self |-> 0, state |-> "BOOTSTRAP", epoch |-> 0, sequence |-> 0, missed |-> 0,
   limit |-> 0, initialized |-> FALSE, recovery |-> FALSE]

supervisor_configure_result(self, limit) ==
  IF limit = 0 THEN "INVALID_CONFIG"
  ELSE IF \/ validate_node(self) # "OK"
          \/ self.role # MCXN947
          \/ self.authority_class # "OBSERVE"
          \/ ~({"SUPERVISION", "RECOVERY_ASSIST"} \subseteq self.capabilities)
          \/ "ACTUATION_GATE" \in self.capabilities
    THEN "INVALID_NODE"
  ELSE "OK"

supervisor_configure(s, self, limit) ==
  IF supervisor_configure_result(self, limit) = "OK"
    THEN [supervisor_init EXCEPT !.self = self.node_id, !.limit = limit]
    ELSE s

accept_heartbeat_result(s, h) ==
  IF s.limit = 0 THEN "INVALID_CONFIG"
  ELSE IF h.healthy > 1 \/ h.disagreement > 1 THEN "INVALID_HEARTBEAT"
  ELSE IF ~h.authenticated THEN "NOT_AUTHENTICATED"
  ELSE IF ~h.fresh THEN "NOT_FRESH"
  ELSE IF ~h.compatible THEN "SEMANTICALLY_INCOMPATIBLE"
  ELSE IF \/ 0 \in {h.epoch, h.sequence}
          \/ s.initialized /\ h.epoch < s.epoch
          \/ s.initialized /\ h.epoch = s.epoch /\ h.sequence <= s.sequence
    THEN "REPLAY_OR_REGRESSION"
  ELSE "OK"

(* Mutant: the count of missed heartbeats restarts before the checks.      *)
accept_heartbeat_reset_first(s, h) ==
  IF s.limit # 0 /\ accept_heartbeat_result(s, h) # "OK"
    THEN [s EXCEPT !.missed = 0,
                   !.state = IF @ = "SAFE_HOLD" THEN "DEGRADED" ELSE @]
  ELSE IF accept_heartbeat_result(s, h) # "OK" THEN s
  ELSE [s EXCEPT !.epoch = h.epoch, !.sequence = h.sequence,
                 !.initialized = TRUE, !.missed = 0, !.recovery = FALSE,
                 !.state = "MONITORING"]

accept_heartbeat(s, h) ==
  IF accept_heartbeat_result(s, h) # "OK" THEN s
  ELSE [s EXCEPT !.epoch = h.epoch, !.sequence = h.sequence,
                 !.initialized = TRUE, !.missed = 0, !.recovery = FALSE,
                 !.state = IF h.healthy # 1 \/ h.disagreement = 1
                             THEN "DEGRADED" ELSE "MONITORING"]

note_missed_heartbeat(s) ==
  LET missed == IF s.missed < UINT32_MAX THEN s.missed + 1 ELSE s.missed
  IN IF s.limit = 0 THEN s
     ELSE [s EXCEPT !.missed = missed,
                    !.recovery = @ \/ missed >= s.limit,
                    !.state = IF missed >= s.limit THEN "SAFE_HOLD"
                              ELSE IF @ = "MONITORING" THEN "DEGRADED"
                              ELSE @]

build_recovery_request(s) ==
  [node |-> s.self, epoch |-> s.epoch, sequence |-> s.sequence,
   requested |-> s.recovery, actuation_authorized |-> FALSE]

-----------------------------------------------------------------------------
(* The receiver.                                                           *)

(* No bit, or one, is flipped on the way.                                  *)
Intact == <<1, 8>>
Flipped(bytes, at) ==
  IF at = Intact THEN bytes
  ELSE [bytes EXCEPT ![at[1]] =
          IF at[2] \in Bits(@) THEN @ - 2^at[2] ELSE @ + 2^at[2]]

(* Every frame the F401 can send, and how it is decoded at the other end.  *)
Frames ==
  [type: {NL_MESSAGE.HELLO, NL_MESSAGE.HEARTBEAT}, flags: {NL_SUPPORTED_FLAGS},
   state: SenderStates \cup {NODE_STATE.BOOT}, sequence: 1..UINT32_MAX,
   epoch: Epochs, sender: {NodeId}, payload: {<< >>}]

Arrivals ==
  {[frame |-> frame, at |-> at,
    decoded |-> node_link_decode(Flipped(node_link_encode(frame), at))] :
     frame \in Frames, at \in Flips \cup {Intact}}

Decoded(frame, at) ==
  (CHOOSE x \in Arrivals : x.frame = frame /\ x.at = at).decoded

(* A frame through decode, authenticate, compatibility and freshness.      *)
Stages(d, signature, key_state, compat_state) ==
  LET a == authenticate(Authenticator, d.frame, signature,
                        ED25519_SIGNATURE_SIZE, key_state)
      c == resolve_pre_freshness_compatibility(Resolver, a.message, compat_state,
                                               "contract")
  IN IF d.result # "OK" THEN Rejected(d.result)
     ELSE IF a.result # "OK" THEN Rejected(a.result)
     ELSE IF c.result # "OK" THEN Rejected(c.result)
     ELSE freshness_evaluate(TRUE, MaxGap, rt, c.message)

Heartbeat(frame, evaluation, disagreement) ==
  [sequence |-> frame.sequence, epoch |-> frame.epoch, authenticated |-> TRUE,
   fresh |-> evaluation.decision = "ACCEPT", compatible |-> TRUE,
   healthy |-> IF frame.state \in {NODE_STATE.DISCOVERING, NODE_STATE.ACTIVE}
               THEN 1 ELSE 0,
   disagreement |-> disagreement]

HearFrame(d, signature, key_state, compat_state, disagreement) ==
  LET e == Stages(d, signature, key_state, compat_state)
      h == Heartbeat(d.frame, e, disagreement)
      beats == d.frame.type = NL_MESSAGE.HEARTBEAT
  IN IF e.result # "OK" THEN UNCHANGED heartbeatVars
     ELSE /\ rt' = freshness_apply(rt, e)
          /\ sup' = IF beats THEN accept_heartbeat(sup, h) ELSE sup
          /\ heartbeats' = IF beats /\ accept_heartbeat_result(sup, h) = "OK"
                        THEN Append(heartbeats, d.frame) ELSE heartbeats
          /\ UNCHANGED <<adapter, alive, medium, restarts>>

DeliverFrame ==
  \E f \in medium, k \in KeyStates, c \in CompatStates, disagreement \in 0..1 :
    HearFrame(Decoded(f, Intact), SignatureOf(f), k, c, disagreement)

DeliverCorrupted ==
  \E f \in medium, at \in Flips :
    HearFrame(Decoded(f, at), SignatureOf(f), "VERIFIED", "COMPATIBLE", 0)

NoteMissed ==
  /\ sup' = note_missed_heartbeat(sup)
  /\ UNCHANGED <<adapter, alive, medium, rt, heartbeats, restarts>>

(* The receiver's freshness runtime after recovery: the record's state     *)
(* when the record is valid (and matches its anchor), else uninitialised.  *)
PeerIdentity ==
  [sender |-> NodeId, producer |-> Peer.producer, key |-> Peer.key,
   algorithm |-> SIGNATURE_ED25519, producer_profile |-> Binding.profile,
   consumer_profile |-> Resolver.consumer, contract |-> "contract"]

restore_runtime_from_record(record) ==
  [freshness_runtime_init EXCEPT
     !.condition = "ACTIVE", !.identity = record.identity,
     !.accepted_epoch = record.accepted_epoch,
     !.accepted_sequence = record.accepted_sequence]

recovered(status, record) ==
  LET c == persistence_classify(status, record, PeerIdentity)
      candidate == restore_runtime_from_record(record)
  IN IF /\ c.result = "OK" /\ c.class = "VALIDATED_RECORD_CANDIDATE"
        /\ freshness_runtime_validate(candidate) = "OK"
       THEN candidate
       ELSE freshness_runtime_init

(* The receiver starts again: the supervisor forgets, the freshness state  *)
(* comes back from the record that was committed with it.                  *)
RestartReceiver(self, status) ==
  /\ restarts < MaxNodeRestarts
  /\ sup' = supervisor_configure(supervisor_init, self, MissedLimit)
  /\ rt' = recovered(status, rt)
  /\ restarts' = restarts + 1
  /\ UNCHANGED <<adapter, alive, medium, heartbeats>>

-----------------------------------------------------------------------------
(* The first record names the epoch and the sequence that were authorised  *)
(* when the pair of nodes was bootstrapped.                                *)
FirstRecord(epoch) ==
  [identity |-> PeerIdentity, accepted_epoch |-> epoch, accepted_sequence |-> 1]

HeartbeatStart(epoch, self, status) ==
  /\ adapter = adapter_init(NodeId, epoch)
  /\ alive = TRUE
  /\ medium = {}
  /\ rt = recovered(status, FirstRecord(epoch))
  /\ sup = supervisor_configure(supervisor_init, self, MissedLimit)
  /\ heartbeats = << >>
  /\ restarts = 0

HeartbeatInit ==
  \E epoch \in Epochs, self \in SelfNodes, status \in RecordStatus :
    HeartbeatStart(epoch, self, status)

HeartbeatNext ==
  \/ SendHello \/ Poll \/ Tick \/ SetTransport
  \/ \E s \in SenderStates : SetNodeState(s)
  \/ Crash
  \/ \E e \in Epochs : RestartSender(e)
  \/ DeliverFrame \/ DeliverCorrupted
  \/ NoteMissed
  \/ \E self \in SelfNodes, status \in RecordStatus : RestartReceiver(self, status)

-----------------------------------------------------------------------------
(* Every record has the fields and ranges of its C structure.  The record  *)
(* of the receiver is always one its own validation accepts: no restart or *)
(* recovered record leaves an accepted sequence without its epoch, so a    *)
(* frame that arrives intact is always judged.                             *)
HeartbeatTypeOK ==
  /\ adapter \in Adapters /\ send_precheck(adapter) \in ADAPTER_RESULTS
  /\ rt \in FreshnessRuntimes
  /\ freshness_runtime_validate(rt) = "OK"
  /\ sup \in Supervisors
  /\ \A f \in medium :
       LET e == Stages(Decoded(f, Intact), SignatureOf(f), "VERIFIED", "COMPATIBLE")
       IN /\ e.result = "OK" /\ e.decision \in FRESHNESS_DECISIONS
          /\ accept_heartbeat_result(sup, Heartbeat(f, e, 0)) \in MCXN947_RESULTS
          /\ \A at \in Flips :
               Stages(Decoded(f, at), SignatureOf(f), "VERIFIED", "COMPATIBLE").result
                 \in NODE_LINK_RESULTS \cup AUTH_RESULTS \cup SEMANTIC_RESULTS
                     \cup FRESHNESS_RESULTS

(* Whatever the medium repeats, reorders or corrupts, and however often    *)
(* either node restarts, the supervisor takes each sequence number of an   *)
(* epoch at most once, in increasing order, and only as the F401 sent it.  *)
HeardAsSent ==
  /\ \A i \in DOMAIN heartbeats : heartbeats[i] \in medium
  /\ \A i, j \in DOMAIN heartbeats :
       i < j /\ heartbeats[i].epoch = heartbeats[j].epoch
         => heartbeats[i].sequence < heartbeats[j].sequence

(* Both nodes' records are well formed, and what is heard is what was sent. *)
PathSound == HeartbeatTypeOK /\ HeardAsSent

(* The supervisor leaves SAFE_HOLD only when it hears something new: old   *)
(* frames that are delivered again never release the hold.                 *)
HoldReleasedByNews ==
  [][sup.state = "SAFE_HOLD" /\ sup'.state \in {"MONITORING", "DEGRADED"}
       => Len(heartbeats') > Len(heartbeats)]_heartbeatVars

(* Once the F401 is silent for good, the supervisor ends in SAFE_HOLD with *)
(* a recovery request and stays there, although the medium may go on       *)
(* delivering the frames it still has.                                     *)
SilentPeerHeld ==
  (~alive /\ sup.limit # 0 /\ restarts = MaxNodeRestarts)
     ~> [](sup.state = "SAFE_HOLD" /\ build_recovery_request(sup).requested)
=============================================================================
