---------------------------- MODULE NodeLinkPeer ----------------------------
(***************************************************************************)
(* What a NodeLink receiver does with a decoded frame:                     *)
(*   firmware/NodeLink/Src/guardian_node_link_auth.c      authenticate     *)
(*   firmware/NodeLink/Src/guardian_node_link_semantic.c  compatibility    *)
(*   firmware/NodeLink/Src/guardian_node_link_freshness.c freshness        *)
(* Every function is an operator from its inputs to its result and the     *)
(* record it fills in.  A semantic profile is a name, NO_REF a reference   *)
(* that is empty or too long for its array.  A signature is the key that   *)
(* made it and the transcript it was made over: Ed25519 is taken to be     *)
(* unforgeable.                                                            *)
(***************************************************************************)
EXTENDS Wire

CONSTANTS UINT32_MAX, NO_REF

\* A number of UINT32_MAX fits four bytes.
ASSUME UInt32Assumption ==
  UINT32_MAX \in Nat \ {0} /\ UINT32_MAX \div 2^16 < 2^16

(* The semantic profiles of the two nodes and their contract.              *)
SEMANTIC_NAMES == {"f401", "mcxn947", "contract"}

ASSUME NoRefAssumption == NO_REF \notin SEMANTIC_NAMES

SIGNATURE_ED25519 == 1
ED25519_SIGNATURE_SIZE == 64
AUTH_MAX_PEERS == 8
SEMANTIC_MAX_BINDINGS == 8

VERIFY_RESULTS ==
  {"VERIFIED", "SIGNATURE_INVALID", "KEY_UNKNOWN", "KEY_REVOKED",
   "ALGORITHM_UNSUPPORTED", "PROVIDER_UNAVAILABLE", "PROVIDER_FAILURE"}
AUTH_RESULTS ==
  {"OK", "UNCONFIGURED", "PEER_UNKNOWN", "KEY_UNKNOWN", "KEY_REVOKED",
   "ALGORITHM_UNSUPPORTED", "TRANSCRIPT", "SIGNATURE_INVALID",
   "PROVIDER_UNAVAILABLE", "PROVIDER_FAILURE"}
COMPAT_PROVIDER_RESULTS ==
  {"COMPATIBLE", "INCOMPATIBLE", "UNKNOWN", "UNSUPPORTED",
   "HISTORICALLY_IMPOSSIBLE", "CONTEXT_INCOMPLETE", "UNAVAILABLE", "FAILURE"}
SEMANTIC_RESULTS ==
  {"OK", "UNCONFIGURED", "BINDING_MISSING", "BINDING_AMBIGUOUS",
   "CONTEXT_INCOMPLETE", "INCOMPATIBLE", "UNKNOWN", "UNSUPPORTED",
   "HISTORICALLY_IMPOSSIBLE", "PROVIDER_UNAVAILABLE", "PROVIDER_FAILURE"}

-----------------------------------------------------------------------------
(* Authentication.                                                         *)

authenticator_init == [configured |-> FALSE, peers |-> << >>]

authenticator_check(peers, algorithm, provider) ==
  LET ZeroIdentity(p) == 0 \in {p.sender, p.producer, p.key}
      Repeated(i) == \E j \in i + 1 .. Len(peers) :
                       peers[i].sender = peers[j].sender
      bad == {i \in DOMAIN peers : \/ ZeroIdentity(peers[i])
                                   \/ peers[i].algorithm # algorithm
                                   \/ Repeated(i)}
      first == CHOOSE i \in bad : \A j \in bad : i <= j
  IN IF ~provider \/ Len(peers) > AUTH_MAX_PEERS THEN "UNCONFIGURED"
     ELSE IF algorithm # SIGNATURE_ED25519 THEN "ALGORITHM_UNSUPPORTED"
     ELSE IF bad = {} THEN "OK"
     ELSE IF ~ZeroIdentity(peers[first]) /\ peers[first].algorithm # algorithm
       THEN "ALGORITHM_UNSUPPORTED"
     ELSE "UNCONFIGURED"

authenticator_configure(peers, algorithm, provider) ==
  IF authenticator_check(peers, algorithm, provider) = "OK"
    THEN [configured |-> TRUE, peers |-> peers]
    ELSE authenticator_init

auth_message_type_valid(type) == valid_message_type(type)
auth_state_valid(state) == state <= NODE_STATE.FAULT

(* The peers' sender ids are distinct, so the first match is the only one. *)
resolve_peer(a, sender) ==
  {a.peers[i] : i \in {k \in DOMAIN a.peers : a.peers[k].sender = sender}}

map_verify_result(result) ==
  IF result = "VERIFIED" THEN "OK"
  ELSE IF result \in VERIFY_RESULTS THEN result
  ELSE "PROVIDER_FAILURE"

build_auth_transcript(frame, producer, key) ==
  IF \/ frame.flags # NL_SUPPORTED_FLAGS
     \/ ~auth_message_type_valid(frame.type)
     \/ ~auth_state_valid(frame.state)
     \/ 0 \in {frame.sequence, frame.epoch, frame.sender, producer, key}
     \/ Len(frame.payload) > NL_MAX_PAYLOAD
    THEN Rejected("TRANSCRIPT")
    ELSE [result |-> "OK",
          bytes |-> <<NL_VERSION, frame.type, frame.flags, frame.state,
                      frame.sequence, frame.epoch, frame.sender, producer, key,
                      frame.payload>>]

(* `provider' is what the key store says of the peer's key before any      *)
(* signature is looked at; a good key verifies exactly what it has signed. *)
verify_signature(provider, peer, transcript, signature) ==
  IF provider # "VERIFIED" THEN provider
  ELSE IF signature = [key |-> peer.key, over |-> transcript] THEN "VERIFIED"
  ELSE "SIGNATURE_INVALID"

authenticate(a, frame, signature, signature_length, provider) ==
  LET found == resolve_peer(a, frame.sender)
      peer == CHOOSE p \in found : TRUE
      t == build_auth_transcript(frame, peer.producer, peer.key)
      verified == map_verify_result(
                    verify_signature(provider, peer, t.bytes, signature))
  IN IF ~a.configured THEN Rejected("UNCONFIGURED")
     ELSE IF signature_length # ED25519_SIGNATURE_SIZE
       THEN Rejected("SIGNATURE_INVALID")
     ELSE IF found = {} THEN Rejected("PEER_UNKNOWN")
     ELSE IF peer.algorithm # SIGNATURE_ED25519
       THEN Rejected("ALGORITHM_UNSUPPORTED")
     ELSE IF t.result # "OK" THEN Rejected(t.result)
     ELSE IF verified # "OK" THEN Rejected(verified)
     ELSE [result |-> "OK",
           message |-> [frame |-> frame, producer |-> peer.producer,
                        key |-> peer.key, algorithm |-> peer.algorithm]]

-----------------------------------------------------------------------------
(* Compatibility before freshness.                                         *)

semantic_snapshot_ref(ref) == ref # NO_REF

SameIdentity(x, y) ==
  <<x.sender, x.producer, x.key, x.algorithm>>
  = <<y.sender, y.producer, y.key, y.algorithm>>

semantic_identity_equal(binding, message) ==
  SameIdentity(binding, [sender |-> message.frame.sender,
                         producer |-> message.producer, key |-> message.key,
                         algorithm |-> message.algorithm])

semantic_map_provider_result(result) ==
  CASE result = "COMPATIBLE" -> "OK"
    [] result = "UNAVAILABLE" -> "PROVIDER_UNAVAILABLE"
    [] result = "FAILURE" -> "PROVIDER_FAILURE"
    [] OTHER -> result

(* Every answer of the two providers has its result of the enumeration.    *)
ASSUME AnswersAreMapped ==
  /\ \A v \in VERIFY_RESULTS : map_verify_result(v) \in AUTH_RESULTS
  /\ \A c \in COMPAT_PROVIDER_RESULTS :
       semantic_map_provider_result(c) \in SEMANTIC_RESULTS

resolver_init == [configured |-> FALSE, consumer |-> NO_REF, bindings |-> << >>]

resolver_check(bindings, consumer, provider) ==
  LET Why(i) == IF 0 \in {bindings[i].sender, bindings[i].producer, bindings[i].key}
                  THEN "CONTEXT_INCOMPLETE"
                ELSE IF bindings[i].algorithm # SIGNATURE_ED25519
                  THEN "UNSUPPORTED"
                ELSE IF ~semantic_snapshot_ref(bindings[i].profile)
                  THEN "CONTEXT_INCOMPLETE"
                ELSE IF \E j \in 1..(i - 1) : SameIdentity(bindings[i], bindings[j])
                  THEN "BINDING_AMBIGUOUS"
                ELSE "OK"
      bad == {i \in DOMAIN bindings : Why(i) # "OK"}
  IN IF ~provider \/ Len(bindings) > SEMANTIC_MAX_BINDINGS THEN "UNCONFIGURED"
     ELSE IF ~semantic_snapshot_ref(consumer) THEN "CONTEXT_INCOMPLETE"
     ELSE IF bad = {} THEN "OK"
     ELSE Why(CHOOSE i \in bad : \A j \in bad : i <= j)

resolver_configure(bindings, consumer, provider) ==
  IF resolver_check(bindings, consumer, provider) = "OK"
    THEN [configured |-> TRUE, consumer |-> consumer, bindings |-> bindings]
    ELSE resolver_init

resolve_pre_freshness_compatibility(r, message, provider, contract) ==
  LET match == {i \in DOMAIN r.bindings :
                  semantic_identity_equal(r.bindings[i], message)}
      binding == r.bindings[CHOOSE i \in match : TRUE]
      mapped == semantic_map_provider_result(provider)
  IN IF ~r.configured THEN Rejected("UNCONFIGURED")
     ELSE IF match = {} THEN Rejected("BINDING_MISSING")
     ELSE IF \E i, j \in match : i # j THEN Rejected("BINDING_AMBIGUOUS")
     ELSE IF mapped # "OK" THEN Rejected(mapped)
     ELSE IF ~semantic_snapshot_ref(contract) THEN Rejected("PROVIDER_FAILURE")
     ELSE [result |-> "OK",
           message |-> [auth |-> message, producer_profile |-> binding.profile,
                        consumer_profile |-> r.consumer, contract |-> contract]]

-----------------------------------------------------------------------------
(* Freshness.                                                              *)

FRESHNESS_CONDITIONS ==
  {"UNINITIALIZED", "ACTIVE", "UNKNOWN", "REJOIN_REQUIRED",
   "SESSION_REPLACEMENT_REQUIRED"}
FRESHNESS_RESULTS ==
  {"OK", "INVALID_CONDITION", "INVALID_STATE", "INVALID_POLICY",
   "INVALID_MESSAGE", "INVALID_EVALUATION"}
FRESHNESS_DECISIONS ==
  {"ACCEPT", "OBSERVE_ONLY", "REPLAY_DUPLICATE", "REPLAY_REGRESSION",
   "FORWARD_GAP_EXCEEDED", "EPOCH_TRANSITION_REQUIRED",
   "SESSION_REPLACEMENT_REQUIRED", "IDENTITY_MISMATCH", "STATE_BLOCKED"}

(* A number whose validity flag is clear is 0, which is never valid.       *)
NoIdentity ==
  [sender |-> 0, producer |-> 0, key |-> 0, algorithm |-> 0,
   producer_profile |-> NO_REF, consumer_profile |-> NO_REF, contract |-> NO_REF]

SemanticRefs == {NO_REF} \cup SEMANTIC_NAMES

FreshnessRuntimes ==
  [condition : FRESHNESS_CONDITIONS,
   identity : [sender : Nat, producer : Nat, key : Nat, algorithm : Nat,
               producer_profile : SemanticRefs, consumer_profile : SemanticRefs,
               contract : SemanticRefs],
   observed_epoch : Nat, observed_sequence : 0 .. UINT32_MAX,
   accepted_epoch : Nat, accepted_sequence : 0 .. UINT32_MAX]

freshness_runtime_init ==
  [condition |-> "UNINITIALIZED", identity |-> NoIdentity, observed_epoch |-> 0,
   observed_sequence |-> 0, accepted_epoch |-> 0, accepted_sequence |-> 0]

freshness_ref_valid(ref) == ref # NO_REF
freshness_condition_valid(condition) == condition \in FRESHNESS_CONDITIONS

identity_structurally_valid(id) ==
  /\ 0 \notin {id.sender, id.producer, id.key}
  /\ id.algorithm = SIGNATURE_ED25519
  /\ \A ref \in {id.producer_profile, id.consumer_profile, id.contract} :
       freshness_ref_valid(ref)

identity_equal(left, right) == left = right

freshness_runtime_validate(rt) ==
  LET identified == rt.identity # NoIdentity
      epoch_valid == rt.accepted_epoch # 0
      sequence_valid == rt.accepted_sequence # 0
      inconsistent ==
        \/ (rt.observed_sequence # 0 \/ epoch_valid \/ sequence_valid) /\ ~identified
        \/ identified /\ ~identity_structurally_valid(rt.identity)
        \/ rt.condition = "UNINITIALIZED" /\ (epoch_valid \/ sequence_valid)
        \/ sequence_valid /\ ~epoch_valid
        \/ rt.condition = "ACTIVE" /\ ~(identified /\ epoch_valid /\ sequence_valid)
  IN IF ~freshness_condition_valid(rt.condition) THEN "INVALID_CONDITION"
     ELSE IF inconsistent THEN "INVALID_STATE"
     ELSE "OK"

(* guardian_node_link_freshness_persistence_classify.                      *)
persistence_classify(status, record, expected) ==
  IF ~identity_structurally_valid(expected) THEN Rejected("INVALID_STATE")
  ELSE IF status = "NO_PERSISTED_STATE"
    THEN [result |-> "OK", class |-> "NO_STATE_BOOTSTRAP"]
  ELSE IF status \in {"CORRUPTED_STATE", "TORN_OR_INCOMPLETE_UPDATE",
                      "ROLLBACK_SUSPECTED", "UNAVAILABLE_STATE"}
    THEN [result |-> "OK", class |-> "FRESHNESS_UNKNOWN"]
  ELSE IF status # "VALID_PERSISTED_STATE" THEN Rejected("INVALID_STATE")
  ELSE IF \/ ~identity_structurally_valid(record.identity)
          \/ ~identity_equal(record.identity, expected)
          \/ record.accepted_epoch = 0 \/ record.accepted_sequence = 0
    THEN Rejected("INVALID_STATE")
  ELSE [result |-> "OK", class |-> "VALIDATED_RECORD_CANDIDATE"]

identity_from_message(m) ==
  [sender |-> m.auth.frame.sender, producer |-> m.auth.producer,
   key |-> m.auth.key, algorithm |-> m.auth.algorithm,
   producer_profile |-> m.producer_profile,
   consumer_profile |-> m.consumer_profile, contract |-> m.contract]

message_valid(m) ==
  /\ identity_structurally_valid(identity_from_message(m))
  /\ m.auth.frame.sequence # 0 /\ m.auth.frame.epoch # 0

(* Mutant: a sequence that has been accepted before counts as fresh.       *)
decision_replay(rt, m, max_forward_gap) ==
  IF rt.condition # "ACTIVE" THEN "STATE_BLOCKED"
  ELSE IF m.auth.frame.sequence > rt.accepted_sequence + max_forward_gap
    THEN "FORWARD_GAP_EXCEEDED"
  ELSE "ACCEPT"

decision(rt, m, max_forward_gap) ==
  LET f == m.auth.frame
  IN IF rt.condition = "UNINITIALIZED" THEN "OBSERVE_ONLY"
     ELSE IF rt.condition # "ACTIVE" THEN "STATE_BLOCKED"
     ELSE IF ~identity_equal(rt.identity, identity_from_message(m))
       THEN "IDENTITY_MISMATCH"
     ELSE IF rt.accepted_sequence = UINT32_MAX THEN "SESSION_REPLACEMENT_REQUIRED"
     ELSE IF f.epoch # rt.accepted_epoch THEN "EPOCH_TRANSITION_REQUIRED"
     ELSE IF f.sequence = rt.accepted_sequence THEN "REPLAY_DUPLICATE"
     ELSE IF f.sequence < rt.accepted_sequence THEN "REPLAY_REGRESSION"
     ELSE IF f.sequence - rt.accepted_sequence > max_forward_gap
       THEN "FORWARD_GAP_EXCEEDED"
     ELSE "ACCEPT"

(* guardian_node_link_freshness_evaluate: the evaluation binds the state   *)
(* it was made from (bind_prior_state).                                    *)
freshness_evaluate(configured, max_forward_gap, rt, m) ==
  IF ~configured \/ max_forward_gap = 0 THEN Rejected("INVALID_POLICY")
  ELSE IF freshness_runtime_validate(rt) # "OK" THEN Rejected("INVALID_STATE")
  ELSE IF ~message_valid(m) THEN Rejected("INVALID_MESSAGE")
  ELSE [result |-> "OK", decision |-> decision(rt, m, max_forward_gap),
        identity |-> identity_from_message(m), prior |-> rt,
        observed_epoch |-> m.auth.frame.epoch,
        observed_sequence |-> m.auth.frame.sequence]

(* guardian_node_link_freshness_evaluate_and_apply: the runtime after it.  *)
freshness_apply(rt, evaluation) ==
  LET candidate ==
        [rt EXCEPT !.observed_epoch = evaluation.observed_epoch,
                   !.observed_sequence = evaluation.observed_sequence,
                   !.accepted_sequence = evaluation.observed_sequence]
  IN IF /\ evaluation.result = "OK"
        /\ evaluation.decision = "ACCEPT"
        /\ freshness_runtime_validate(candidate) = "OK"
       THEN candidate
       ELSE rt
=============================================================================
