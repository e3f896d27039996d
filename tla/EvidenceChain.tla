--------------------------- MODULE EvidenceChain ----------------------------
(***************************************************************************)
(* Signed evidence: producers hand digests to the security witness, which  *)
(* signs one record per sequence number, and the verifier that shares its  *)
(* node accepts the envelopes that continue the chain of their producer.   *)
(*   firmware/MultiNode/Src/guardian_security_witness.c                    *)
(*   firmware/MultiNode/Src/guardian_signed_evidence.c                     *)
(* A digest is the tuple of what it was computed from, ZERO is the         *)
(* all-zero digest of the first envelope of a chain, and a signature is    *)
(* the tuple of the key and of the transcript it was made over.  Envelopes *)
(* travel over a medium that loses, repeats, reorders and alters them.     *)
(***************************************************************************)
EXTENDS MultiNodeRegistry, SequencesExt, FiniteSets

CONSTANTS MAX_SUBJECTS,    \* GUARDIAN_SECURITY_WITNESS_MAX_SUBJECTS and
                           \* GUARDIAN_SIGNED_EVIDENCE_MAX_TRACKED_PRODUCERS
          WitnessSelf,     \* the witness's own registered node
          Producers,       \* the node of every identity that produces evidence
          Classes,         \* the evidence classes producers use
          MaxSequence, MaxLives, MaxEnvelopes, MaxRestarts, MaxRevoked

VARIABLES witness,   \* guardian_security_witness_node_t
          ledger,    \* guardian_signed_evidence_t
          trust,     \* what the lookup answers for each producer
          producer,  \* per identity: its life (its epoch), its sequence, its tail
          flight,    \* the envelopes handed to the medium
          created,   \* history: per identity and life, the envelopes created
          accepted,  \* history: per identity, those accepted by this verifier
          signed     \* history: the records this witness signed

chainVars == << witness, ledger, trust, producer, flight, created, accepted, signed >>

SIGNED_EVIDENCE_CLASSES == {"MEASUREMENT", "ANALYSIS", "FUSION", "SUPERVISION", "RECOVERY"}
WITNESS_EVIDENCE_TYPES == {"OBSERVATION", "SUPERVISION", "DISAGREEMENT",
                           "RECOVERY_REQUEST", "FAULT", "EXECUTION_RESULT"}
WITNESS_PROVIDER_RESULTS ==
  {"OK", "SIGNATURE_INVALID", "KEY_UNKNOWN", "KEY_REVOKED", "UNAVAILABLE", "FAILURE"}
WITNESS_RESULTS ==
  {"OK", "INVALID_NODE", "INVALID_CONFIG", "INVALID_EVIDENCE", "TRANSCRIPT",
   "REPLAY_OR_REGRESSION", "SUBJECT_TABLE_FULL", "SIGNATURE_INVALID", "KEY_UNKNOWN",
   "KEY_REVOKED", "PROVIDER_UNAVAILABLE", "PROVIDER_FAILURE"}
SIGNED_EVIDENCE_RESULTS ==
  {"OK", "INVALID_CONFIG", "INVALID_PRODUCER", "INVALID_ENVELOPE", "TRANSCRIPT",
   "SIGNATURE_INVALID", "KEY_UNKNOWN", "KEY_REVOKED", "PROVIDER_UNAVAILABLE",
   "PROVIDER_FAILURE", "UNTRUSTED", "UNAUTHORIZED_ROLE", "CHAIN_MISMATCH",
   "REPLAY_OR_REGRESSION", "TRACKING_TABLE_FULL"}

ZERO == << >>
---------------------------------------------------------------------------
(* The witness.                                                            *)
witness_type_valid(type) == type \in WITNESS_EVIDENCE_TYPES

witness_map_provider(result) ==
  CASE result = "OK" -> "OK"
    [] result \in {"SIGNATURE_INVALID", "KEY_UNKNOWN", "KEY_REVOKED"} -> result
    [] result = "UNAVAILABLE" -> "PROVIDER_UNAVAILABLE"
    [] OTHER -> "PROVIDER_FAILURE"

record_structurally_valid(r) ==
  /\ witness_type_valid(r.evidence_type)
  /\ 0 \notin {r.witness[1], r.witness[2], r.witness[3],
               r.subject[1], r.subject[2], r.subject[3], r.epoch, r.sequence}

Identity(node) == << node.node_id, node.producer_id, node.key_id >>

(* A producer has a first life, and an identity is one node's.             *)
ASSUME EvidenceConstants ==
  /\ MaxLives \in Nat \ {0}
  /\ \A p, q \in Producers : Identity(p) = Identity(q) => p = q

subject_equal(slot, id) == slot.id = id

witness_init == [initialized |-> FALSE, subjects |-> << >>]

witness_configure_result(self) ==
  IF \/ validate_node(self) # "OK"
     \/ self.role # SECURITY_WITNESS \/ self.authority_class # "WITNESS"
     \/ ~({"EVIDENCE_WITNESS", "SIGNATURE_VERIFY"} \subseteq self.capabilities)
     \/ "ACTUATION_GATE" \in self.capabilities
  THEN "INVALID_NODE" ELSE "OK"

witness_configure(self) ==
  IF witness_configure_result(self) = "OK"
    THEN [witness_init EXCEPT !.initialized = TRUE] ELSE witness_init

(* Every field of the record but the signature.                            *)
witness_transcript(r) ==
  << r.evidence_type, r.witness, r.subject, r.epoch, r.sequence, r.payload_digest >>

Signature(key, r) == << key, witness_transcript(r) >>

SlotsOf(table, id) == {i \in DOMAIN table : table[i].id = id}

(* guardian_security_witness_create up to the call of the signer.          *)
witness_create_result(w, input) ==
  LET known == {i \in DOMAIN w.subjects : subject_equal(w.subjects[i], input.subject)}
      slot == w.subjects[CHOOSE i \in known : TRUE]
  IN IF ~w.initialized THEN "INVALID_CONFIG"
     ELSE IF \/ 0 \in {input.subject[1], input.subject[2], input.subject[3],
                       input.epoch, input.sequence}
             \/ ~witness_type_valid(input.evidence_type)
       THEN "INVALID_EVIDENCE"
     ELSE IF known # {} /\ \/ input.epoch < slot.epoch
                           \/ input.epoch = slot.epoch /\ input.sequence <= slot.sequence
       THEN "REPLAY_OR_REGRESSION"
     ELSE IF known = {} /\ Len(w.subjects) >= MAX_SUBJECTS THEN "SUBJECT_TABLE_FULL"
     ELSE "OK"

(* The table is updated only after the signer has succeeded.               *)
witness_created(w, input) ==
  LET entry == [id |-> input.subject, epoch |-> input.epoch, sequence |-> input.sequence]
      at == SlotsOf(w.subjects, input.subject)
  IN [w EXCEPT !.subjects = IF at = {} THEN Append(@, entry)
                            ELSE [@ EXCEPT ![CHOOSE i \in at : TRUE] = entry]]

witness_record(input) ==
  LET r == [evidence_type |-> input.evidence_type, witness |-> Identity(WitnessSelf),
            subject |-> input.subject, epoch |-> input.epoch,
            sequence |-> input.sequence, payload_digest |-> << input.payload >>]
  IN [record |-> r, signature |-> Signature(WitnessSelf.key_id, r)]

witness_verify(w, wr) ==
  IF ~w.initialized THEN "INVALID_CONFIG"
  ELSE IF ~record_structurally_valid(wr.record) THEN "INVALID_EVIDENCE"
  ELSE IF wr.record.witness # Identity(WitnessSelf) THEN "INVALID_EVIDENCE"
  ELSE witness_map_provider(IF wr.signature = Signature(WitnessSelf.key_id, wr.record)
                              THEN "OK" ELSE "SIGNATURE_INVALID")
---------------------------------------------------------------------------
(* Signed evidence.                                                        *)
class_valid(class) == class \in SIGNED_EVIDENCE_CLASSES

witness_type(class) ==
  CASE class = "MEASUREMENT" -> "OBSERVATION"
    [] class \in {"ANALYSIS", "FUSION"} -> "EXECUTION_RESULT"
    [] class = "SUPERVISION" -> "SUPERVISION"
    [] class = "RECOVERY" -> "RECOVERY_REQUEST"
    [] OTHER -> "INVALID"

role_authorized(class, node) ==
  LET may(role, capability) ==
        /\ node.role = role /\ node.authority_class = "OBSERVE"
        /\ capability \in node.capabilities
  IN /\ "ACTUATION_GATE" \notin node.capabilities
     /\ CASE class = "MEASUREMENT" -> may(ST, "SENSOR_ACQUISITION")
          [] class \in {"ANALYSIS", "FUSION"} -> may(HIGH_COMPUTE, "SIGNAL_PROCESSING")
          [] class = "SUPERVISION" -> may(MCXN947, "SUPERVISION")
          [] class = "RECOVERY" -> may(MCXN947, "RECOVERY_ASSIST")
          [] OTHER -> FALSE

map_witness_result(result) ==
  IF result \in {"OK", "SIGNATURE_INVALID", "KEY_UNKNOWN", "KEY_REVOKED",
                 "PROVIDER_UNAVAILABLE", "PROVIDER_FAILURE"}
    THEN result ELSE "INVALID_ENVELOPE"

(* Every answer of the signer and of the witness has its result of the     *)
(* enumeration above it.                                                   *)
ASSUME WitnessAnswersAreMapped ==
  /\ \A r \in WITNESS_PROVIDER_RESULTS : witness_map_provider(r) \in WITNESS_RESULTS
  /\ \A r \in WITNESS_RESULTS : map_witness_result(r) \in SIGNED_EVIDENCE_RESULTS

(* The core is signed whole; the transcript is the core itself once its    *)
(* fields are acceptable.                                                  *)
transcript_result(core) ==
  IF \/ ~class_valid(core.class) \/ core.role = "INVALID"
     \/ 0 \in {core.id[1], core.id[2], core.id[3], core.epoch, core.sequence}
  THEN "INVALID_ENVELOPE" ELSE "OK"

evidence_transcript(core) ==
  << core.class, core.role, core.id, core.epoch, core.sequence,
     core.payload_digest, core.previous >>

compute_digest(core, signature) == << evidence_transcript(core), signature >>

ledger_init == [initialized |-> FALSE, producers |-> << >>]

ledger_configure(w) ==
  IF w.initialized THEN [ledger_init EXCEPT !.initialized = TRUE] ELSE ledger_init

EvidenceCore(node, class, epoch, sequence, payload, previous) ==
  [class |-> class, role |-> node.role, id |-> Identity(node), epoch |-> epoch,
   sequence |-> sequence, payload_digest |-> << payload >>, previous |-> previous]

WitnessInput(core) ==
  [subject |-> core.id, epoch |-> core.epoch, sequence |-> core.sequence,
   evidence_type |-> witness_type(core.class), payload |-> evidence_transcript(core)]

(* guardian_signed_evidence_create: the answer, given the signer's.        *)
create_result(w, l, node, core, signer) ==
  IF ~l.initialized THEN "INVALID_CONFIG"
  ELSE IF \/ validate_node(node) # "OK" \/ ~class_valid(core.class)
          \/ 0 \in {core.epoch, core.sequence}
    THEN "INVALID_PRODUCER"
  ELSE IF transcript_result(core) # "OK" THEN transcript_result(core)
  ELSE IF witness_create_result(w, WitnessInput(core)) # "OK"
    THEN map_witness_result(witness_create_result(w, WitnessInput(core)))
  ELSE map_witness_result(witness_map_provider(signer))

Envelope(core) ==
  LET wr == witness_record(WitnessInput(core))
  IN [core |-> core, witness_record |-> wr,
      evidence_digest |-> compute_digest(core, wr.signature)]

(* The checks of verify_and_accept up to the producer's own history.       *)
authentic_result(w, e) ==
  LET r == e.witness_record.record
  IN IF transcript_result(e.core) # "OK" THEN transcript_result(e.core)
     ELSE IF << r.subject, r.epoch, r.sequence, r.evidence_type >> #
             << e.core.id, e.core.epoch, e.core.sequence, witness_type(e.core.class) >>
       THEN "INVALID_ENVELOPE"
     ELSE IF r.payload_digest # << evidence_transcript(e.core) >>
       THEN "SIGNATURE_INVALID"
     ELSE IF witness_verify(w, e.witness_record) # "OK"
       THEN map_witness_result(witness_verify(w, e.witness_record))
     ELSE IF e.evidence_digest # compute_digest(e.core, e.witness_record.signature)
       THEN "INVALID_ENVELOPE"
     ELSE "OK"

(* Mutant: a producer already known need not continue its chain.           *)
history_result_unchained(l, core) ==
  LET known == SlotsOf(l.producers, core.id)
      slot == l.producers[CHOOSE i \in known : TRUE]
  IN IF known = {}
       THEN IF Len(l.producers) >= MAX_SUBJECTS THEN "TRACKING_TABLE_FULL" ELSE "OK"
     ELSE IF \/ core.epoch < slot.epoch
             \/ core.epoch = slot.epoch /\ core.sequence <= slot.sequence
       THEN "REPLAY_OR_REGRESSION"
     ELSE "OK"

(* find_state and the comparison with the producer's history.              *)
history_result(l, core) ==
  LET known == SlotsOf(l.producers, core.id)
      slot == l.producers[CHOOSE i \in known : TRUE]
  IN IF known = {}
       THEN IF Len(l.producers) >= MAX_SUBJECTS THEN "TRACKING_TABLE_FULL"
            ELSE IF core.previous # ZERO THEN "CHAIN_MISMATCH"
            ELSE "OK"
     ELSE IF core.previous # slot.last THEN "CHAIN_MISMATCH"
     ELSE IF \/ core.epoch < slot.epoch
             \/ core.epoch = slot.epoch /\ core.sequence <= slot.sequence
       THEN "REPLAY_OR_REGRESSION"
     ELSE "OK"

Resolved(id) == {p \in Producers : Identity(p) = id}

verify_and_accept_result(w, l, e) ==
  LET node == CHOOSE p \in Resolved(e.core.id) : TRUE
  IN IF ~l.initialized THEN "INVALID_CONFIG"
     ELSE IF authentic_result(w, e) # "OK" THEN authentic_result(w, e)
     ELSE IF Resolved(e.core.id) = {} THEN "KEY_UNKNOWN"
     ELSE IF trust[node] = "REVOKED" THEN "KEY_REVOKED"
     ELSE IF trust[node] # "TRUSTED" THEN "UNTRUSTED"
     ELSE IF \/ node.role # e.core.role \/ validate_node(node) # "OK"
             \/ ~role_authorized(e.core.class, node)
       THEN "UNAUTHORIZED_ROLE"
     ELSE history_result(l, e.core)

verify_and_accept(l, e) ==
  LET entry == [id |-> e.core.id, epoch |-> e.core.epoch,
                sequence |-> e.core.sequence, last |-> e.evidence_digest]
      at == SlotsOf(l.producers, e.core.id)
  IN [l EXCEPT !.producers = IF at = {} THEN Append(@, entry)
                             ELSE [@ EXCEPT ![CHOOSE i \in at : TRUE] = entry]]
---------------------------------------------------------------------------
FirstLife == [life |-> 1, sequence |-> 0, tail |-> ZERO]

ChainInit ==
  /\ witness = witness_configure(WitnessSelf)
  /\ ledger = ledger_configure(witness)
  /\ trust = [p \in Producers |-> "TRUSTED"]
  /\ producer = [p \in Producers |-> FirstLife]
  /\ flight = {}
  /\ created = [p \in Producers |-> [life \in 1 .. MaxLives |-> << >>]]
  /\ accepted = [p \in Producers |-> << >>]
  /\ signed = << >>

(* A producer asks for its next sequence number, or for the one it has     *)
(* already used (a retry of an answer it never saw); its tail moves when   *)
(* the envelope comes back.                                                *)
Create ==
  \E p \in Producers, class \in Classes, signer \in WITNESS_PROVIDER_RESULTS :
  \E sequence \in {producer[p].sequence, producer[p].sequence + 1} \cap 1 .. MaxSequence :
    LET core == EvidenceCore(p, class, producer[p].life, sequence, sequence,
                             producer[p].tail)
        e == Envelope(core)
    IN /\ Cardinality(flight) < MaxEnvelopes
       /\ IF create_result(witness, ledger, p, core, signer) = "OK"
            THEN /\ witness' = witness_created(witness, WitnessInput(core))
                 /\ producer' = [producer EXCEPT ![p].sequence = sequence,
                                                 ![p].tail = e.evidence_digest]
                 /\ flight' = flight \cup {e}
                 /\ created' = [created EXCEPT ![p][producer[p].life] = Append(@, e)]
                 /\ signed' = Append(signed, << core.id, core.epoch, core.sequence >>)
            ELSE UNCHANGED << witness, producer, flight, created, signed >>
       /\ UNCHANGED << ledger, trust, accepted >>

(* What the medium may make of an envelope.                                *)
Altered(e) ==
  {[e EXCEPT !.core.payload_digest = << 0 >>],
   [e EXCEPT !.core.previous = ZERO],
   [e EXCEPT !.core.sequence = @ + 1, !.witness_record.record.sequence = @ + 1],
   [e EXCEPT !.evidence_digest = << >>]} \ {e}

Receive(e) ==
  /\ IF verify_and_accept_result(witness, ledger, e) = "OK"
       THEN /\ ledger' = verify_and_accept(ledger, e)
            /\ accepted' = [p \in Producers |-> IF Identity(p) = e.core.id
                                                  THEN Append(accepted[p], e)
                                                  ELSE accepted[p]]
       ELSE UNCHANGED << ledger, accepted >>
  /\ UNCHANGED << witness, trust, producer, flight, created, signed >>

Deliver == \E e \in flight : Receive(e)

DeliverAltered == \E e \in flight : \E a \in Altered(e) : Receive(a)

Revoke ==
  \E p \in Producers :
    /\ trust[p] = "TRUSTED"
    /\ Cardinality({q \in Producers : trust[q] = "REVOKED"}) < MaxRevoked
    /\ trust' = [trust EXCEPT ![p] = "REVOKED"]
    /\ UNCHANGED << witness, ledger, producer, flight, created, accepted, signed >>

(* A producer that restarts has forgotten its tail and starts an epoch.    *)
RestartProducer ==
  \E p \in Producers :
    /\ producer[p].life < MaxLives
    /\ Cardinality({q \in Producers : producer[q].life > 1}) < MaxRestarts
    /\ producer' = [producer EXCEPT ![p] = [FirstLife EXCEPT !.life = producer[p].life + 1]]
    /\ UNCHANGED << witness, ledger, trust, flight, created, accepted, signed >>

(* The tables of the witness and of the verifier are in RAM.               *)
RestartWitness ==
  /\ witness' = witness_configure(WitnessSelf)
  /\ ledger' = ledger_configure(witness')
  /\ accepted' = [p \in Producers |-> << >>]
  /\ signed' = << >>
  /\ UNCHANGED << trust, producer, flight, created >>

ChainNext == \/ Create \/ Deliver \/ DeliverAltered \/ Revoke
             \/ RestartProducer \/ RestartWitness
---------------------------------------------------------------------------
(* What a verifier has accepted from an identity since it was configured   *)
(* is, without a gap and in order, the beginning of what one life of that  *)
(* identity created: no envelope lost, repeated, overtaken, altered or     *)
(* made by an earlier life of the producer gets in between.                *)
AcceptedArePrefix ==
  \A p \in Producers : \E life \in 1 .. MaxLives : IsPrefix(accepted[p], created[p][life])

(* Since it was configured the witness has signed no sequence number of an *)
(* identity's epoch twice, whether the producer retried it, restarted, or  *)
(* the signer failed in between.                                           *)
WitnessSignsOnce ==
  \A i, j \in DOMAIN signed : signed[i] = signed[j] => i = j

(* The evidence two parties hold is sound on both sides: the verifier's is *)
(* a beginning of one chain, and the witness vouched for each of its       *)
(* numbers once.                                                           *)
EvidenceSound == AcceptedArePrefix /\ WitnessSignsOnce
=============================================================================
