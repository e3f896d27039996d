------------------------ MODULE NodeNetwork_proofs ------------------------
(***************************************************************************)
(* Proofs about the node network, part by part, for every set of nodes,    *)
(* samples, producers, peers, reports and messages:                        *)
(*   - at most one registered node may request actuation;                  *)
(*   - observations leave the measurement node in order;                   *)
(*   - the witness signs nothing twice, and what the verifier accepts is a *)
(*     prefix of what one life of its producer created;                    *)
(*   - a review means agreement, and a conflict is final until a reset;    *)
(*   - the ingress transaction makes durable, once, only what was          *)
(*     authenticated, across every fault of its two slots and its anchor.  *)
(* Each part has an inductive invariant of its own, and PartsMove carries  *)
(* them to the network.                                                    *)
(***************************************************************************)
EXTENDS NodeNetwork, FiniteSetTheorems, SequenceTheorems, TLAPS

(* A step of the network is a step of one part, and the others rest.       *)
LEMMA PartsMove ==
  NetworkNext \/ UNCHANGED networkVars =>
    /\ RegisterNode \/ UNCHANGED registry
    /\ AcceptSample \/ UNCHANGED samplingVars
    /\ ChainNext \/ UNCHANGED chainVars
    /\ RoundNext \/ UNCHANGED roundVars
    /\ IngressNext \/ UNCHANGED ingressVars
BY DEF NetworkNext, networkVars
(* Registered nodes were valid and differ by identifier and by role.       *)
RegistryInv ==
  /\ registry \in Seq(Candidates)
  /\ \A i \in DOMAIN registry : validate_node(registry[i]) = "OK"
  /\ \A i, j \in DOMAIN registry :
       i # j => /\ registry[i].node_id # registry[j].node_id
                /\ registry[i].role # registry[j].role

(* register_node keeps the registry free of clashes.                       *)
LEMMA Registers ==
  ASSUME RegistryInv, RegisterNode \/ UNCHANGED registry
  PROVE  RegistryInv'
<1>1. CASE UNCHANGED registry
  BY <1>1 DEF RegistryInv
<1>2. CASE RegisterNode
  <2>1. PICK node \in Candidates : registry' = register_node(registry, node)
    BY <1>2 DEF RegisterNode
  <2>2. CASE register_result(registry, node) # "OK"
    BY <2>1, <2>2 DEF RegistryInv, register_node
  <2>3. CASE register_result(registry, node) = "OK"
    <3>1. /\ registry' = Append(registry, node)
          /\ validate_node(node) = "OK"
          /\ register_clash(registry, node) = "OK"
      BY <2>1, <2>3 DEF register_node, register_result
    <3>2. \A i \in DOMAIN registry : /\ registry[i].node_id # node.node_id
                                     /\ registry[i].role # node.role
      BY <3>1 DEF register_clash
    <3>3. registry \in Seq(Candidates)
      BY DEF RegistryInv
    <3>4. /\ registry' \in Seq(Candidates)
          /\ DOMAIN registry' = 1 .. Len(registry) + 1
          /\ DOMAIN registry = 1 .. Len(registry)
          /\ Len(registry) \in Nat
          /\ registry'[Len(registry) + 1] = node
          /\ \A i \in DOMAIN registry : registry'[i] = registry[i]
      BY <3>1, <3>3
    <3>5. \A i \in DOMAIN registry' : i \in DOMAIN registry \/ i = Len(registry) + 1
      BY <3>4, SMTT(20)
    <3>6. \A i \in DOMAIN registry' : validate_node(registry'[i]) = "OK"
      BY <3>1, <3>4, <3>5 DEF RegistryInv
    <3>7. ASSUME NEW i \in DOMAIN registry', NEW j \in DOMAIN registry', i # j
          PROVE  /\ registry'[i].node_id # registry'[j].node_id
                 /\ registry'[i].role # registry'[j].role
      <4>1. CASE i \in DOMAIN registry /\ j \in DOMAIN registry
        BY <3>4, <3>7, <4>1 DEF RegistryInv
      <4>2. CASE i = Len(registry) + 1 /\ j \in DOMAIN registry
        BY <3>2, <3>4, <4>2
      <4>3. CASE i \in DOMAIN registry /\ j = Len(registry) + 1
        BY <3>2, <3>4, <4>3
      <4> QED
        BY <3>5, <3>7, <4>1, <4>2, <4>3
    <3> QED
      BY <3>4, <3>6, <3>7, Zenon DEF RegistryInv
  <2> QED
    BY <2>2, <2>3
<1> QED
  BY <1>1, <1>2

(* Only the one node of the control role may request actuation, and a      *)
(* complete topology has it.                                               *)
LEMMA OneControlNode ==
  RegistryInv => OneActuator
<1> SUFFICES ASSUME RegistryInv PROVE OneActuator
  OBVIOUS
<1> DEFINE actuators == {n \in {registry[i].node_id : i \in DOMAIN registry} :
                           can_request_actuation(registry, n) = "OK"}
<1>0. DOMAIN registry = 1 .. Len(registry) /\ Len(registry) \in Nat
  BY DEF RegistryInv
<1>1. ASSUME NEW i \in DOMAIN registry
      PROVE  can_request_actuation(registry, registry[i].node_id) = "OK"
               <=> registry[i].role = F401
  <2> DEFINE at == {k \in DOMAIN registry : registry[k].node_id = registry[i].node_id}
  <2>1. at = {i}
    BY DEF RegistryInv
  <2>2. (CHOOSE k \in at : \A j \in at : k <= j) = i
    BY <2>1, <1>0
  <2>3. validate_node(registry[i]) = "OK"
    BY DEF RegistryInv
  <2>4. /\ registry[i].node_id # 0
        /\ registry[i].authority_class = expected_authority(registry[i].role)
        /\ required_capabilities(registry[i].role) \subseteq registry[i].capabilities
    BY <2>3 DEF validate_node
  <2>5. registry[i].role = F401 =>
          /\ registry[i].authority_class = "REFERENCE_CONTROL"
          /\ "ACTUATION_GATE" \in registry[i].capabilities
    BY <2>4 DEF expected_authority, required_capabilities,
                 F401, MCXN947, ST, SECURITY_WITNESS, HIGH_COMPUTE
  <2> HIDE DEF at
  <2>6. can_request_actuation(registry, registry[i].node_id) =
          IF registry[i].role = F401 THEN "OK" ELSE "NOT_REFERENCE_CONTROL"
    BY <2>1, <2>2, <2>3, <2>4, <2>5 DEF can_request_actuation, at
  <2> QED
    BY <2>6
<1>2. \A n, m \in actuators : n = m
  <2> SUFFICES ASSUME NEW n \in actuators, NEW m \in actuators PROVE n = m
    OBVIOUS
  <2>1. PICK i \in DOMAIN registry : n = registry[i].node_id
    OBVIOUS
  <2>2. PICK j \in DOMAIN registry : m = registry[j].node_id
    OBVIOUS
  <2>3. registry[i].role = F401 /\ registry[j].role = F401
    BY <1>1, <2>1, <2>2
  <2> QED
    BY <2>1, <2>2, <2>3 DEF RegistryInv
<1>3. actuators = {} \/ \E n \in actuators : actuators = {n}
  BY <1>2
<1> HIDE DEF actuators
<1>4. Cardinality(actuators) <= 1 /\ (actuators # {} => Cardinality(actuators) = 1)
  <2>1. CASE actuators = {}
    BY <2>1, FS_EmptySet
  <2>2. CASE \E n \in actuators : actuators = {n}
    <3>1. PICK n \in actuators : actuators = {n}
      BY <2>2
    <3>2. Cardinality({n}) = 1
      BY FS_Singleton, Zenon
    <3> QED
      BY <3>1, <3>2
  <2> QED
    BY <1>3, <2>1, <2>2
<1> USE DEF actuators
<1>5. ASSUME validate_complete_topology(registry) = "OK"
      PROVE  actuators # {}
  <2>1. {registry[i].role : i \in DOMAIN registry} = NODE_ROLES
    BY <1>5, \A i \in DOMAIN registry : validate_node(registry[i]) = "OK"
    DEF validate_complete_topology, RegistryInv
  <2>2. PICK i \in DOMAIN registry : registry[i].role = F401
    BY <2>1 DEF NODE_ROLES
  <2> QED
    BY <1>1, <2>2
<1> QED
  BY <1>4, <1>5 DEF OneActuator
---------------------------------------------------------------------------
(* The measurement node.                                                   *)

(* The measurement node and its observations.                              *)
StStates == [initialized : BOOLEAN, last_sequence : Nat, last_timestamp_us : Nat,
             accepted_samples : Nat, rejected_samples : Nat]

Observed == [producer_node_id : {MeasurementSelf.node_id}, sequence : Nat,
             timestamp_us : Nat, value_milli : Int, actuation_authorized : BOOLEAN]

(* The regression check compares with the last observation handed out, and *)
(* is not skipped once there is one.                                       *)
SamplingInv ==
  /\ st \in StStates
  /\ observations \in Seq(Observed)
  /\ Len(observations) > 0 =>
       /\ st.accepted_samples > 0
       /\ observations[Len(observations)].sequence = st.last_sequence
       /\ observations[Len(observations)].timestamp_us = st.last_timestamp_us
  /\ ObservationsInOrder

(* The node starts with no sample accepted.                                *)
LEMMA SamplingStarts == MeasurementInit => SamplingInv
<1> SUFFICES ASSUME MeasurementInit PROVE SamplingInv
  OBVIOUS
<1>1. st_init \in StStates /\ [st_init EXCEPT !.initialized = TRUE] \in StStates
  BY DEF st_init, StStates
<1>2. st \in StStates
  BY <1>1 DEF MeasurementInit, st_configure
<1> QED
  BY <1>2 DEF MeasurementInit, SamplingInv, ObservationsInOrder

(* Each sample handed to the node keeps the invariant.                     *)
LEMMA SamplingSteps ==
  ASSUME SamplingInv, AcceptSample \/ UNCHANGED samplingVars
  PROVE  SamplingInv'
<1>1. CASE UNCHANGED samplingVars
  BY <1>1 DEF samplingVars, SamplingInv, ObservationsInOrder
<1>2. CASE AcceptSample
  <2>1. PICK sample \in Samples :
          /\ st' = st_accept_sample(st, sample)
          /\ observations' = IF st_validate_sample(st, sample) = "OK"
                               THEN Append(observations, Observation(sample))
                               ELSE observations
    BY <1>2 DEF AcceptSample
  <2>2. sample.sequence \in Nat /\ sample.timestamp_us \in Nat /\ sample.value_milli \in Int
    BY ResultsAreListed DEF MeasurementSamples
  <2>3. \A n \in Nat : counted(n) \in Nat /\ counted(n) > 0
    BY MeasurementConstants DEF counted
  <2>4. CASE st_validate_sample(st, sample) # "OK"
    <3>1. st' = [st EXCEPT !.rejected_samples = counted(@)] /\ observations' = observations
      BY <2>1, <2>4 DEF st_accept_sample
    <3>2. /\ st' \in StStates /\ st'.accepted_samples = st.accepted_samples
          /\ st'.last_sequence = st.last_sequence
          /\ st'.last_timestamp_us = st.last_timestamp_us
      BY <2>3, <3>1 DEF SamplingInv, StStates
    <3> QED
      BY <3>1, <3>2 DEF SamplingInv, ObservationsInOrder
  <2>5. CASE st_validate_sample(st, sample) = "OK"
    <3>1. st' = [st EXCEPT !.last_sequence = sample.sequence,
                           !.last_timestamp_us = sample.timestamp_us,
                           !.accepted_samples = counted(@)]
      BY <2>1, <2>5 DEF st_accept_sample
    <3>2. /\ st' \in StStates /\ st'.accepted_samples > 0
          /\ st'.last_sequence = sample.sequence
          /\ st'.last_timestamp_us = sample.timestamp_us
      BY <2>2, <2>3, <3>1 DEF SamplingInv, StStates
    <3>3. st.accepted_samples > 0 => /\ st.last_sequence < sample.sequence
                                     /\ st.last_timestamp_us < sample.timestamp_us
      BY <2>2, <2>5 DEF st_validate_sample, SamplingInv, StStates
    <3>4. PICK o : o = Observation(sample)
      OBVIOUS
    <3>5. /\ o \in Observed
          /\ o.sequence = sample.sequence /\ o.timestamp_us = sample.timestamp_us
      BY <2>2, <3>4 DEF Observation, Observed
    <3>6. observations' = Append(observations, o) /\ observations \in Seq(Observed)
      BY <2>1, <2>5, <3>4 DEF SamplingInv
    <3>7. /\ observations' \in Seq(Observed)
          /\ Len(observations) \in Nat
          /\ Len(observations') = Len(observations) + 1
          /\ observations'[Len(observations) + 1] = o
          /\ \A i \in 1 .. Len(observations) : observations'[i] = observations[i]
      BY <3>5, <3>6
    <3>8. ASSUME NEW i \in 1 .. Len(observations') - 1
          PROVE  /\ observations'[i].sequence < observations'[i + 1].sequence
                 /\ observations'[i].timestamp_us < observations'[i + 1].timestamp_us
      <4>1. CASE i = Len(observations)
        BY <3>3, <3>5, <3>7, <3>8, <4>1 DEF SamplingInv
      <4>2. CASE i # Len(observations)
        BY <3>7, <3>8, <4>2 DEF SamplingInv, ObservationsInOrder
      <4> QED
        BY <4>1, <4>2
    <3> QED
      BY <3>2, <3>5, <3>7, <3>8 DEF SamplingInv, ObservationsInOrder
  <2> QED
    BY <2>4, <2>5
<1> QED
  BY <1>1, <1>2
---------------------------------------------------------------------------
(* Signed evidence.                                                        *)

(* The witness's table.                                                    *)
SubjectIds == {Identity(p) : p \in Producers}
SubjectSlots == [id : SubjectIds, epoch : Int, sequence : Int]

(* The table of subjects covers everything signed since it was empty.      *)
Covers(slot, entry) ==
  /\ slot.id = entry[1]
  /\ \/ entry[2] < slot.epoch
     \/ entry[2] = slot.epoch /\ entry[3] <= slot.sequence

(* Each producer is in one of its lives.                                   *)
LifeInv ==
  /\ producer = [p \in Producers |-> producer[p]]
  /\ \A p \in Producers :
       /\ producer[p] = [life |-> producer[p].life, sequence |-> producer[p].sequence,
                         tail |-> producer[p].tail]
       /\ producer[p].life \in 1 .. MaxLives
       /\ producer[p].sequence \in Int

(* Every record signed is covered by the one table entry of its subject.   *)
SignerInv ==
  /\ witness \in [initialized : BOOLEAN, subjects : Seq(SubjectSlots)]
  /\ signed \in Seq(SubjectIds \X Int \X Int)
  /\ \A i, j \in DOMAIN witness.subjects :
       witness.subjects[i].id = witness.subjects[j].id => i = j
  /\ \A n \in DOMAIN signed :
       \E i \in DOMAIN witness.subjects : Covers(witness.subjects[i], signed[n])
  /\ WitnessSignsOnce

(* The witness does not sign what its table covers.                        *)
LEMMA CreateAllowed ==
  ASSUME SignerInv, NEW p \in Producers, NEW core, NEW signer,
         create_result(witness, ledger, p, core, signer) = "OK",
         core.id = Identity(p), core.epoch \in Int, core.sequence \in Int
  PROVE  /\ \A i \in DOMAIN witness.subjects :
              witness.subjects[i].id = core.id =>
                ~Covers(witness.subjects[i], << core.id, core.epoch, core.sequence >>)
<1> DEFINE input == WitnessInput(core)
           known == {i \in DOMAIN witness.subjects : subject_equal(witness.subjects[i], input.subject)}
           slot == witness.subjects[CHOOSE i \in known : TRUE]
<1>1. witness_create_result(witness, input) = "OK"
  BY DEF create_result, map_witness_result
<1>2. /\ input.subject = core.id /\ input.epoch = core.epoch
      /\ input.sequence = core.sequence
  BY DEF WitnessInput
<1>3. known # {} => ~(\/ input.epoch < slot.epoch
                      \/ input.epoch = slot.epoch /\ input.sequence <= slot.sequence)
  BY <1>1 DEF witness_create_result
<1> SUFFICES ASSUME NEW i \in DOMAIN witness.subjects, witness.subjects[i].id = core.id
             PROVE  ~Covers(witness.subjects[i], << core.id, core.epoch, core.sequence >>)
  OBVIOUS
<1>4. known = {i}
  BY <1>2 DEF SignerInv, subject_equal
<1>5. slot = witness.subjects[i]
  BY <1>4
<1> QED
  BY <1>2, <1>3, <1>4, <1>5 DEF Covers

(* The table covers what was just signed, and still all it covered.        *)
LEMMA SubjectRecorded ==
  ASSUME SignerInv, NEW input, input.subject \in SubjectIds,
         input.epoch \in Int, input.sequence \in Int,
         witness' = witness_created(witness, input),
         signed' = Append(signed, << input.subject, input.epoch, input.sequence >>),
         \A i \in DOMAIN witness.subjects :
           witness.subjects[i].id = input.subject =>
             ~Covers(witness.subjects[i], << input.subject, input.epoch, input.sequence >>)
  PROVE  SignerInv'
<1> DEFINE entry == [id |-> input.subject, epoch |-> input.epoch, sequence |-> input.sequence]
           new == << input.subject, input.epoch, input.sequence >>
           at == SlotsOf(witness.subjects, input.subject)
           c == CHOOSE i \in at : TRUE
           table == witness.subjects
<1>0. /\ table \in Seq(SubjectSlots) /\ DOMAIN table = 1 .. Len(table) /\ Len(table) \in Nat
      /\ witness \in [initialized : BOOLEAN, subjects : Seq(SubjectSlots)]
      /\ \A i, j \in DOMAIN table : table[i].id = table[j].id => i = j
  BY DEF SignerInv
<1>1. /\ entry \in SubjectSlots /\ new \in SubjectIds \X Int \X Int /\ Covers(entry, new)
      /\ entry.id = input.subject
  BY DEF SubjectSlots, Covers
<1>2. \A i \in DOMAIN table : table[i] \in SubjectSlots
  BY <1>0
<1>3. \A i \in DOMAIN table : /\ table[i].epoch \in Int /\ table[i].sequence \in Int
  BY <1>2 DEF SubjectSlots
<1>4. /\ signed \in Seq(SubjectIds \X Int \X Int)
      /\ \A n \in DOMAIN signed : signed[n] \in SubjectIds \X Int \X Int
      /\ \A n \in DOMAIN signed : \E i \in DOMAIN table : Covers(table[i], signed[n])
  BY DEF SignerInv
<1>5. \A n \in DOMAIN signed : signed[n][2] \in Int /\ signed[n][3] \in Int
  BY <1>4
<1> HIDE DEF entry, new
<1>6. /\ signed' \in Seq(SubjectIds \X Int \X Int)
      /\ DOMAIN signed' = 1 .. Len(signed) + 1 /\ DOMAIN signed = 1 .. Len(signed)
      /\ Len(signed) \in Nat
      /\ signed'[Len(signed) + 1] = new
      /\ \A n \in DOMAIN signed : signed'[n] = signed[n]
  BY <1>1, <1>4 DEF new
<1>7. \A n \in DOMAIN signed : signed[n] # new
  <2> SUFFICES ASSUME NEW n \in DOMAIN signed, signed[n] = new PROVE FALSE
    OBVIOUS
  <2>1. PICK i \in DOMAIN table : Covers(table[i], new)
    BY <1>4
  <2>2. table[i].id = input.subject
    BY <2>1 DEF Covers, new
  <2> QED
    BY <2>1, <2>2 DEF new
<1>8. WitnessSignsOnce'
  <2> SUFFICES ASSUME NEW i \in DOMAIN signed', NEW j \in DOMAIN signed',
                      signed'[i] = signed'[j]
               PROVE  i = j
    BY DEF WitnessSignsOnce
  <2>1. (i \in DOMAIN signed \/ i = Len(signed) + 1) /\ (j \in DOMAIN signed \/ j = Len(signed) + 1)
    BY <1>6
  <2>2. CASE i \in DOMAIN signed /\ j \in DOMAIN signed
    BY <1>6, <2>2 DEF SignerInv, WitnessSignsOnce
  <2>3. CASE i \in DOMAIN signed /\ j = Len(signed) + 1
    BY <1>6, <1>7, <2>3
  <2>4. CASE i = Len(signed) + 1 /\ j \in DOMAIN signed
    BY <1>6, <1>7, <2>4
  <2> QED
    BY <2>1, <2>2, <2>3, <2>4
<1>9. CASE at = {}
  <2>1. witness' = [witness EXCEPT !.subjects = Append(table, entry)]
    BY <1>9 DEF witness_created, entry
  <2> DEFINE new_table == Append(table, entry)
  <2>2. /\ new_table \in Seq(SubjectSlots)
        /\ DOMAIN new_table = 1 .. Len(table) + 1
        /\ new_table[Len(table) + 1] = entry
        /\ \A i \in DOMAIN table : new_table[i] = table[i]
    BY <1>0, <1>1
  <2>3. \A i \in DOMAIN table : table[i].id # entry.id
    BY <1>1, <1>9 DEF SlotsOf
  <2> HIDE DEF new_table
  <2>4. witness' \in [initialized : BOOLEAN, subjects : Seq(SubjectSlots)]
        /\ witness'.subjects = new_table
    BY <1>0, <2>1, <2>2 DEF new_table
  <2>5. \A i \in DOMAIN new_table : i \in DOMAIN table \/ i = Len(table) + 1
    BY <1>0, <2>2
  <2>6. \A i, j \in DOMAIN new_table : new_table[i].id = new_table[j].id => i = j
    BY <1>0, <2>2, <2>3, <2>5
  <2>7. \A n \in DOMAIN signed' : \E i \in DOMAIN new_table : Covers(new_table[i], signed'[n])
    <3> SUFFICES ASSUME NEW n \in DOMAIN signed'
                 PROVE  \E i \in DOMAIN new_table : Covers(new_table[i], signed'[n])
      OBVIOUS
    <3>1. CASE n \in DOMAIN signed
      <4>1. PICK i \in DOMAIN table : Covers(table[i], signed[n])
        BY <1>4, <3>1
      <4> QED
        BY <1>0, <1>6, <2>2, <3>1, <4>1
    <3>2. CASE n = Len(signed) + 1
      <4>1. Len(table) + 1 \in DOMAIN new_table
        BY <1>0, <2>2
      <4> QED
        BY <1>1, <1>6, <2>2, <3>2, <4>1
    <3> QED
      BY <1>6, <3>1, <3>2, SMTT(20)
  <2> QED
    BY <1>6, <1>8, <2>4, <2>6, <2>7 DEF SignerInv
<1>10. CASE at # {}
  <2>1. c \in DOMAIN table /\ table[c].id = input.subject
    BY <1>10 DEF SlotsOf
  <2> DEFINE new_table == [table EXCEPT ![c] = entry]
  <2>2. witness' = [witness EXCEPT !.subjects = new_table]
    BY <1>10 DEF witness_created, entry
  <2> HIDE DEF c, at
  <2>3. /\ new_table \in Seq(SubjectSlots)
        /\ DOMAIN new_table = DOMAIN table
        /\ new_table[c] = entry
        /\ \A i \in DOMAIN table : i # c => new_table[i] = table[i]
    BY <1>0, <1>1, <2>1
  <2> HIDE DEF new_table
  <2>4. witness' \in [initialized : BOOLEAN, subjects : Seq(SubjectSlots)]
        /\ witness'.subjects = new_table
    BY <1>0, <2>2, <2>3
  <2>5. \A i \in DOMAIN new_table : new_table[i].id = table[i].id
    BY <1>1, <2>1, <2>3
  <2>6. \A i, j \in DOMAIN new_table : new_table[i].id = new_table[j].id => i = j
    BY <1>0, <2>3, <2>5
  <2>7. ASSUME NEW n \in DOMAIN signed, Covers(table[c], signed[n])
        PROVE  Covers(entry, signed[n])
    <3>1. ~Covers(table[c], new)
      BY <2>1 DEF new
    <3> QED
      BY <1>3, <1>5, <2>1, <2>7, <3>1 DEF Covers, new, entry
  <2>8. \A n \in DOMAIN signed' : \E i \in DOMAIN new_table : Covers(new_table[i], signed'[n])
    <3> SUFFICES ASSUME NEW n \in DOMAIN signed'
                 PROVE  \E i \in DOMAIN new_table : Covers(new_table[i], signed'[n])
      OBVIOUS
    <3>1. CASE n \in DOMAIN signed
      <4>1. PICK i \in DOMAIN table : Covers(table[i], signed[n])
        BY <1>4, <3>1
      <4>2. CASE i = c
        BY <1>6, <2>1, <2>3, <2>7, <3>1, <4>1, <4>2
      <4>3. CASE i # c
        BY <1>6, <2>3, <3>1, <4>1, <4>3
      <4> QED
        BY <4>2, <4>3
    <3>2. CASE n = Len(signed) + 1
      BY <1>1, <1>6, <2>1, <2>3, <3>2
    <3> QED
      BY <1>6, <3>1, <3>2
  <2> QED
    BY <1>6, <1>8, <2>4, <2>6, <2>8 DEF SignerInv
<1> QED
  BY <1>9, <1>10

(* A sequence, whatever its elements are.                                  *)
IsSequence(s) == s \in Seq({s[i] : i \in DOMAIN s})

(* IsPrefix, by elements.                                                  *)
PrefixOf(s, t) == Len(s) <= Len(t) /\ \A i \in 1 .. Len(s) : s[i] = t[i]

(* Length, domain and emptiness.                                           *)
LEMMA SequenceFacts ==
  ASSUME NEW s, IsSequence(s)
  PROVE  Len(s) \in Nat /\ DOMAIN s = 1 .. Len(s) /\ (s = << >> <=> Len(s) = 0)
BY DEF IsSequence

(* Append, element by element.                                             *)
LEMMA Appended ==
  ASSUME NEW s, IsSequence(s), NEW e
  PROVE  /\ IsSequence(Append(s, e))
         /\ Len(Append(s, e)) = Len(s) + 1
         /\ Append(s, e)[Len(s) + 1] = e
         /\ \A i \in 1 .. Len(s) : Append(s, e)[i] = s[i]
<1> DEFINE S == {s[i] : i \in DOMAIN s} \cup {e}
           t == Append(s, e)
<1>1. s \in Seq(S)
  BY DEF IsSequence
<1>2. e \in S
  OBVIOUS
<1> HIDE DEF S
<1>3. /\ t \in Seq(S) /\ Len(t) = Len(s) + 1 /\ t[Len(s) + 1] = e
      /\ \A i \in 1 .. Len(s) : t[i] = s[i]
  BY <1>1, <1>2
<1> HIDE DEF t
<1>4. t \in [1 .. Len(t) -> S] /\ DOMAIN t = 1 .. Len(t) /\ Len(t) \in Nat
  BY <1>3
<1>5. t \in [1 .. Len(t) -> {t[i] : i \in DOMAIN t}]
  BY <1>4
<1>6. t \in Seq({t[i] : i \in DOMAIN t})
  BY <1>4, <1>5
<1> QED
  BY <1>3, <1>6 DEF IsSequence, t

(* A function on an initial segment is a sequence.                         *)
LEMMA FunctionIsSequence ==
  ASSUME NEW t, NEW n \in Nat, t = [i \in 1 .. n |-> t[i]]
  PROVE  IsSequence(t)
<1> DEFINE S == {t[i] : i \in DOMAIN t}
<1>1. \A i \in 1 .. n : t[i] \in S
  OBVIOUS
<1> HIDE DEF S
<1>2. t \in [1 .. n -> S]
  BY <1>1
<1>3. t \in Seq(S)
  BY <1>2
<1> QED
  BY <1>3 DEF IsSequence, S

(* A prefix by elements is a prefix.                                       *)
LEMMA PrefixIsPrefix ==
  ASSUME NEW s, NEW t, IsSequence(s), IsSequence(t), PrefixOf(s, t)
  PROVE  IsPrefix(s, t)
<1>1. Len(s) \in Nat /\ Len(t) \in Nat /\ Len(s) <= Len(t)
  BY SequenceFacts DEF PrefixOf
<1> DEFINE S == {s[i] : i \in DOMAIN s}
           T == {t[i] : i \in DOMAIN t}
<1>2. s \in Seq(S) /\ t \in Seq(T)
  BY DEF IsSequence
<1> HIDE DEF S, T
<1>3. SubSeq(s, 1, Len(s)) = [i \in 1 .. Len(s) |-> s[i]]
  BY <1>1, <1>2
<1>4. SubSeq(t, 1, Len(s)) = [i \in 1 .. Len(s) |-> t[i]]
  BY <1>1, <1>2
<1>5. [i \in 1 .. Len(s) |-> s[i]] = [i \in 1 .. Len(s) |-> t[i]]
  BY <1>1 DEF PrefixOf
<1> QED
  BY <1>1, <1>3, <1>4, <1>5 DEF IsPrefix

(* An envelope as the witness of this node returned it to producer p.      *)
Made(p, life, e) ==
  /\ e = Envelope(e.core)
  /\ e.core = EvidenceCore(p, e.core.class, life, e.core.sequence, e.core.sequence,
                           e.core.previous)
  /\ e.core.sequence \in Int

(* The envelopes of one life: each names the digest of the one before it.  *)
ChainOf(p, life, s) ==
  /\ IsSequence(s)
  /\ \A i \in 1 .. Len(s) :
       /\ Made(p, life, s[i])
       /\ i = 1 => s[i].core.previous = ZERO
       /\ i > 1 => s[i].core.previous = s[i - 1].evidence_digest
  /\ \A i, j \in 1 .. Len(s) : s[i].evidence_digest = s[j].evidence_digest => i = j

(* The fields of an envelope as it was made.                               *)
LEMMA MadeFacts ==
  ASSUME NEW p, NEW life, NEW e, Made(p, life, e)
  PROVE  /\ e.core.id = Identity(p) /\ e.core.epoch = life
         /\ e.evidence_digest = compute_digest(e.core, e.witness_record.signature)
         /\ e.evidence_digest # ZERO
         /\ e.witness_record.record.payload_digest = << evidence_transcript(e.core) >>
<1>1. /\ e.evidence_digest = compute_digest(e.core, e.witness_record.signature)
      /\ e.witness_record = witness_record(WitnessInput(e.core))
  BY DEF Made, Envelope
<1>2. e.core.id = Identity(p) /\ e.core.epoch = life
  BY DEF Made, EvidenceCore
<1>3. e.evidence_digest # ZERO
  BY <1>1 DEF compute_digest, ZERO
<1>4. e.witness_record.record.payload_digest = << evidence_transcript(e.core) >>
  BY <1>1 DEF witness_record, WitnessInput
<1> QED
  BY <1>1, <1>2, <1>3, <1>4

(* No digest is the all-zero digest.                                       *)
LEMMA DigestNotZero ==
  ASSUME NEW a, NEW s
  PROVE  compute_digest(a, s) # ZERO
BY DEF compute_digest, ZERO

(* Equal digests were computed from the same core.                         *)
LEMMA DigestsTell ==
  ASSUME NEW a, NEW b, NEW s, NEW t, compute_digest(a, s) = compute_digest(b, t)
  PROVE  a.id = b.id /\ a.epoch = b.epoch /\ a.previous = b.previous
<1>1. evidence_transcript(a) = evidence_transcript(b)
  BY DEF compute_digest
<1> QED
  BY <1>1 DEF evidence_transcript

(* An envelope over the tail of its life continues the chain.              *)
LEMMA ChainExtends ==
  ASSUME NEW p, NEW life, NEW s, ChainOf(p, life, s), NEW e, Made(p, life, e),
         s = << >> => e.core.previous = ZERO,
         s # << >> => e.core.previous = s[Len(s)].evidence_digest
  PROVE  ChainOf(p, life, Append(s, e))
<1> DEFINE t == Append(s, e)
           n == Len(s)
<1>1. IsSequence(s)
  BY DEF ChainOf
<1>2. /\ IsSequence(t) /\ Len(t) = n + 1 /\ t[n + 1] = e
      /\ \A i \in 1 .. n : t[i] = s[i]
  BY <1>1, Appended
<1>3. n \in Nat /\ (s = << >> <=> n = 0)
  BY <1>1, SequenceFacts
<1> HIDE DEF t, n
<1>4. ASSUME NEW i \in 1 .. Len(t)
      PROVE  /\ Made(p, life, t[i])
             /\ i = 1 => t[i].core.previous = ZERO
             /\ i > 1 => t[i].core.previous = t[i - 1].evidence_digest
  <2>1. CASE i \in 1 .. n
    <3>1. t[i] = s[i] /\ (i > 1 => t[i - 1] = s[i - 1])
      BY <1>2, <1>3, <2>1
    <3> QED
      BY <2>1, <3>1 DEF ChainOf, n
  <2>2. CASE i = n + 1
    <3>1. t[i] = e /\ (i > 1 => t[i - 1] = s[n])
      BY <1>2, <1>3, <2>2
    <3> QED
      BY <1>3, <2>2, <3>1 DEF n
  <2> QED
    BY <1>2, <1>3, <2>1, <2>2
<1>5. ASSUME NEW i \in 1 .. n, e.evidence_digest = s[i].evidence_digest
      PROVE  FALSE
  <2>1. /\ Made(p, life, s[i])
        /\ i = 1 => s[i].core.previous = ZERO
        /\ i > 1 => s[i].core.previous = s[i - 1].evidence_digest
    BY DEF ChainOf, n
  <2>2. compute_digest(e.core, e.witness_record.signature) =
          compute_digest(s[i].core, s[i].witness_record.signature)
    BY <1>5, <2>1, MadeFacts
  <2>3. e.core.previous = s[i].core.previous
    BY <2>2, DigestsTell
  <2>4. e.core.previous = s[n].evidence_digest /\ n \in 1 .. n
    BY <1>3 DEF n
  <2>5. Made(p, life, s[n])
    BY <2>4 DEF ChainOf, n
  <2>6. s[n].evidence_digest # ZERO
    BY <2>5, MadeFacts
  <2>7. i > 1
    BY <2>1, <2>3, <2>4, <2>6
  <2>8. i - 1 \in 1 .. n /\ i - 1 # n /\ s[i - 1].evidence_digest = s[n].evidence_digest
    BY <1>3, <2>1, <2>3, <2>4, <2>7
  <2> QED
    BY <2>4, <2>8 DEF ChainOf, n
<1>6. ASSUME NEW i \in 1 .. Len(t), NEW j \in 1 .. Len(t),
             t[i].evidence_digest = t[j].evidence_digest
      PROVE  i = j
  <2>1. CASE i \in 1 .. n /\ j \in 1 .. n
    BY <1>2, <1>6, <2>1 DEF ChainOf, n
  <2>2. CASE i = n + 1 /\ j \in 1 .. n
    BY <1>2, <1>5, <1>6, <2>2
  <2>3. CASE i \in 1 .. n /\ j = n + 1
    BY <1>2, <1>5, <1>6, <2>3
  <2> QED
    BY <1>2, <1>3, <2>1, <2>2, <2>3
<1> QED
  BY <1>2, <1>4, <1>6 DEF ChainOf, t

(* An envelope that continues what was accepted is the next of its chain.  *)
LEMMA AcceptsNext ==
  ASSUME NEW p, NEW C, NEW l, NEW m, ChainOf(p, l, C[l]), ChainOf(p, m, C[m]),
         NEW a, IsSequence(a), PrefixOf(a, C[m]),
         NEW k \in 1 .. Len(C[l]),
         a = << >> => C[l][k].core.previous = ZERO,
         a # << >> => C[l][k].core.previous = a[Len(a)].evidence_digest
  PROVE  PrefixOf(Append(a, C[l][k]), C[l])
<1> DEFINE s == C[l]
           t == C[m]
           e == s[k]
           n == Len(a)
           b == Append(a, e)
<1>1. /\ Len(b) = n + 1 /\ b[n + 1] = e
      /\ \A i \in 1 .. n : b[i] = a[i]
  BY Appended
<1>2. n \in Nat /\ (a = << >> <=> n = 0) /\ Len(s) \in Nat /\ Len(t) \in Nat
  BY SequenceFacts DEF ChainOf
<1>3. k \in Nat /\ 1 <= k /\ k <= Len(s)
  BY <1>2
<1>4. k > 1 => /\ e.core.previous = s[k - 1].evidence_digest
               /\ Made(p, l, s[k - 1]) /\ k - 1 \in 1 .. Len(s)
  <2>1. k > 1 => e.core.previous = s[k - 1].evidence_digest
    BY DEF ChainOf
  <2>2. k > 1 => k - 1 \in 1 .. Len(s)
    BY <1>2, <1>3
  <2> QED
    BY <2>1, <2>2 DEF ChainOf
<1>5. k = 1 => e.core.previous = ZERO
  BY DEF ChainOf
<1> HIDE DEF b
<1>6. CASE a = << >>
  <2>1. e.core.previous = ZERO
    BY <1>6
  <2>2. k > 1 => s[k - 1].evidence_digest # ZERO
    BY <1>4, MadeFacts
  <2>3. k = 1
    BY <1>3, <1>4, <2>1, <2>2
  <2> QED
    BY <1>1, <1>2, <1>3, <1>6, <2>3 DEF PrefixOf, b
<1>7. CASE a # << >>
  <2>1. n \in 1 .. n /\ n \in 1 .. Len(t) /\ a[n] = t[n]
    BY <1>2, <1>7 DEF PrefixOf
  <2>2. Made(p, m, t[n]) /\ e.core.previous = t[n].evidence_digest
    BY <1>7, <2>1 DEF ChainOf
  <2>3. t[n].evidence_digest # ZERO
    BY <2>2, MadeFacts
  <2>4. k > 1
    BY <1>3, <1>5, <2>2, <2>3
  <2>5. compute_digest(t[n].core, t[n].witness_record.signature) =
          compute_digest(s[k - 1].core, s[k - 1].witness_record.signature)
    BY <1>4, <2>2, <2>4, MadeFacts
  <2>6. t[n].core.epoch = s[k - 1].core.epoch
    BY <2>5, DigestsTell
  <2>7. t[n].core.epoch = m /\ s[k - 1].core.epoch = l
    BY <1>4, <2>2, <2>4, MadeFacts
  <2>8. m = l
    BY <2>6, <2>7
  <2>9. n = k - 1
    BY <1>4, <2>1, <2>2, <2>4, <2>8 DEF ChainOf
  <2> QED
    BY <1>1, <1>2, <1>3, <2>8, <2>9 DEF PrefixOf, b
<1> QED
  BY <1>6, <1>7

(* What an accepted envelope has passed.                                   *)
LEMMA AcceptedFacts ==
  ASSUME NEW e, verify_and_accept_result(witness, ledger, e) = "OK"
  PROVE  /\ e.witness_record.record.payload_digest = << evidence_transcript(e.core) >>
         /\ e.evidence_digest = compute_digest(e.core, e.witness_record.signature)
         /\ history_result(ledger, e.core) = "OK"
<1>1. authentic_result(witness, e) = "OK" /\ history_result(ledger, e.core) = "OK"
  BY DEF verify_and_accept_result
<1> QED
  BY <1>1 DEF authentic_result, map_witness_result

(* No alteration of a signed envelope is accepted.                         *)
LEMMA AlteredRefused ==
  ASSUME NEW p, NEW life, NEW e, Made(p, life, e), NEW a \in Altered(e)
  PROVE  verify_and_accept_result(witness, ledger, a) # "OK"
<1> SUFFICES ASSUME verify_and_accept_result(witness, ledger, a) = "OK" PROVE FALSE
  OBVIOUS
<1> DEFINE c == e.core
           w == e.witness_record
           d == e.evidence_digest
<1>1. e = [core |-> c, witness_record |-> w, evidence_digest |-> d]
  BY DEF Made, Envelope
<1>2. c = [class |-> c.class, role |-> c.role, id |-> c.id, epoch |-> c.epoch,
           sequence |-> c.sequence, payload_digest |-> c.payload_digest,
           previous |-> c.previous]
  BY DEF Made, EvidenceCore
<1>3. /\ w.record.payload_digest = << evidence_transcript(c) >>
      /\ c.sequence \in Int
  <2>1. w.record.payload_digest = << evidence_transcript(c) >>
    BY MadeFacts
  <2>2. c.sequence \in Int
    BY DEF Made
  <2> QED
    BY <2>1, <2>2
<1>4. /\ a.witness_record.record.payload_digest = << evidence_transcript(a.core) >>
      /\ a.evidence_digest = compute_digest(a.core, a.witness_record.signature)
  BY AcceptedFacts
<1>5. a # e
  BY DEF Altered
<1> HIDE DEF c, w, d
<1>6. CASE a = [e EXCEPT !.core.payload_digest = << 0 >>]
  <2>1. a.core = [c EXCEPT !.payload_digest = << 0 >>] /\ a.witness_record = w
        /\ a = [e EXCEPT !.core = [c EXCEPT !.payload_digest = << 0 >>]]
    BY <1>1, <1>6
  <2>2. evidence_transcript(a.core) = evidence_transcript(c)
    BY <1>3, <1>4, <2>1
  <2>3. a.core.payload_digest = c.payload_digest /\ a.core.payload_digest = << 0 >>
    BY <1>2, <2>1, <2>2 DEF evidence_transcript
  <2>4. [c EXCEPT !.payload_digest = << 0 >>] = c
    BY <1>2, <2>3
  <2> QED
    BY <1>1, <1>5, <2>1, <2>4
<1>7. CASE a = [e EXCEPT !.core.previous = ZERO]
  <2>1. a.core = [c EXCEPT !.previous = ZERO] /\ a.witness_record = w
        /\ a = [e EXCEPT !.core = [c EXCEPT !.previous = ZERO]]
    BY <1>1, <1>7
  <2>2. evidence_transcript(a.core) = evidence_transcript(c)
    BY <1>3, <1>4, <2>1
  <2>3. a.core.previous = c.previous /\ a.core.previous = ZERO
    BY <1>2, <2>1, <2>2 DEF evidence_transcript
  <2>4. [c EXCEPT !.previous = ZERO] = c
    BY <1>2, <2>3
  <2> QED
    BY <1>1, <1>5, <2>1, <2>4
<1>8. CASE a = [e EXCEPT !.core.sequence = @ + 1, !.witness_record.record.sequence = @ + 1]
  <2>1. /\ a.core = [c EXCEPT !.sequence = c.sequence + 1]
        /\ a.witness_record = [w EXCEPT !.record.sequence = @ + 1]
    BY <1>1, <1>8 DEF c, w
  <2>2. a.witness_record.record.payload_digest = w.record.payload_digest
    <3>1. w = witness_record(WitnessInput(c))
      BY DEF Made, Envelope, w, c
    <3> QED
      BY <2>1, <3>1 DEF witness_record
  <2>3. evidence_transcript(a.core) = evidence_transcript(c)
    BY <1>3, <1>4, <2>2
  <2>4. a.core.sequence = c.sequence /\ a.core.sequence = c.sequence + 1
    BY <1>2, <2>1, <2>3 DEF evidence_transcript
  <2> QED
    BY <1>3, <2>4
<1>9. CASE a = [e EXCEPT !.evidence_digest = << >>]
  <2>1. a.evidence_digest = << >>
    BY <1>1, <1>9
  <2> QED
    BY <1>4, <2>1, DigestNotZero DEF ZERO
<1> QED
  BY <1>6, <1>7, <1>8, <1>9 DEF Altered

(* Each life has created a chain whose digest it holds as its tail, and    *)
(* what is in flight was created.                                          *)
CreatedInv ==
  /\ LifeInv
  /\ created = [p \in Producers |-> [life \in 1 .. MaxLives |-> created[p][life]]]
  /\ \A p \in Producers, life \in 1 .. MaxLives : ChainOf(p, life, created[p][life])
  /\ \A p \in Producers :
       LET s == created[p][producer[p].life]
       IN /\ s = << >> => producer[p].tail = ZERO
          /\ s # << >> => producer[p].tail = s[Len(s)].evidence_digest
  /\ \A p \in Producers, life \in 1 .. MaxLives :
       life > producer[p].life => created[p][life] = << >>
  /\ \A e \in flight : \E p \in Producers, life \in 1 .. MaxLives :
       \E k \in 1 .. Len(created[p][life]) : e = created[p][life][k]

(* The verifier's table holds the digest of the last envelope accepted     *)
(* from each identity.                                                     *)
LedgerInv ==
  /\ ledger = [initialized |-> ledger.initialized, producers |-> ledger.producers]
  /\ accepted = [p \in Producers |-> accepted[p]]
  /\ IsSequence(ledger.producers)
  /\ \A p \in Producers : IsSequence(accepted[p])
  /\ \A i, j \in DOMAIN ledger.producers :
       ledger.producers[i].id = ledger.producers[j].id => i = j
  /\ \A p \in Producers : accepted[p] # << >> =>
       \E i \in DOMAIN ledger.producers : ledger.producers[i].id = Identity(p)
  /\ \A p \in Producers, i \in DOMAIN ledger.producers :
       ledger.producers[i].id = Identity(p) =>
         /\ accepted[p] # << >>
         /\ ledger.producers[i].last = accepted[p][Len(accepted[p])].evidence_digest

(* What was accepted is a prefix, by elements.                             *)
AcceptedInv ==
  \A p \in Producers : \E life \in 1 .. MaxLives : PrefixOf(accepted[p], created[p][life])

(* The inductive invariant of signed evidence.                             *)
ChainInv == SignerInv /\ CreatedInv /\ LedgerInv /\ AcceptedInv

(* The empty chain.                                                        *)
LEMMA EmptySequence == IsSequence(<< >>) /\ Len(<< >>) = 0
BY DEF IsSequence

(* A configured witness and a configured verifier have empty tables.       *)
LEMMA Configured ==
  /\ witness_configure(WitnessSelf) \in [initialized : BOOLEAN, subjects : Seq(SubjectSlots)]
  /\ witness_configure(WitnessSelf).subjects = << >>
  /\ \A w : LET l == ledger_configure(w)
            IN l = [initialized |-> l.initialized, producers |-> l.producers]
               /\ l.producers = << >>
<1>1. \/ witness_configure(WitnessSelf) = [initialized |-> TRUE, subjects |-> << >>]
      \/ witness_configure(WitnessSelf) = [initialized |-> FALSE, subjects |-> << >>]
  BY DEF witness_configure, witness_init
<1>2. \A w : \/ ledger_configure(w) = [initialized |-> TRUE, producers |-> << >>]
           \/ ledger_configure(w) = [initialized |-> FALSE, producers |-> << >>]
  BY DEF ledger_configure, ledger_init
<1>3. << >> \in Seq(SubjectSlots)
  OBVIOUS
<1>4. /\ witness_configure(WitnessSelf) \in [initialized : BOOLEAN, subjects : Seq(SubjectSlots)]
      /\ witness_configure(WitnessSelf).subjects = << >>
  <2>1. \A b \in BOOLEAN, t \in Seq(SubjectSlots) :
          /\ [initialized |-> b, subjects |-> t] \in [initialized : BOOLEAN, subjects : Seq(SubjectSlots)]
          /\ [initialized |-> b, subjects |-> t].subjects = t
    OBVIOUS
  <2> QED
    BY <1>1, <1>3, <2>1, Zenon
<1>5. ASSUME NEW w, NEW l, l = ledger_configure(w)
      PROVE  l = [initialized |-> l.initialized, producers |-> l.producers] /\ l.producers = << >>
  BY <1>2, <1>5
<1> QED
  BY <1>4, <1>5

(* Everything starts empty.                                                *)
LEMMA ChainStarts == ChainInit => ChainInv
<1> SUFFICES ASSUME ChainInit PROVE ChainInv
  OBVIOUS
<1>1. 1 \in 1 .. MaxLives
  BY EvidenceConstants
<1>2. SignerInv
  <2>1. witness \in [initialized : BOOLEAN, subjects : Seq(SubjectSlots)] /\ witness.subjects = << >>
    BY Configured DEF ChainInit
  <2> QED
    BY <2>1 DEF ChainInit, SignerInv, WitnessSignsOnce
<1>3. /\ \A p \in Producers : producer[p] = [life |-> 1, sequence |-> 0, tail |-> ZERO]
      /\ producer = [p \in Producers |-> producer[p]]
      /\ created = [p \in Producers |-> [life \in 1 .. MaxLives |-> created[p][life]]]
      /\ \A p \in Producers, life \in 1 .. MaxLives : created[p][life] = << >>
      /\ accepted = [p \in Producers |-> accepted[p]]
      /\ \A p \in Producers : accepted[p] = << >>
      /\ flight = {}
  BY DEF ChainInit, FirstLife
<1>4. LifeInv
  BY <1>1, <1>3 DEF LifeInv
<1>5. \A p, life : ChainOf(p, life, << >>)
  BY EmptySequence DEF ChainOf
<1>6. CreatedInv
  BY <1>1, <1>3, <1>4, <1>5 DEF CreatedInv
<1>7. /\ ledger = [initialized |-> ledger.initialized, producers |-> ledger.producers]
      /\ ledger.producers = << >>
  BY Configured DEF ChainInit
<1>8. LedgerInv
  BY <1>3, <1>7, EmptySequence DEF LedgerInv
<1>9. AcceptedInv
  BY <1>1, <1>3, EmptySequence DEF AcceptedInv, PrefixOf
<1> QED
  BY <1>2, <1>6, <1>8, <1>9 DEF ChainInv

(* A prefix stays one when the chain grows.                                *)
LEMMA PrefixExtends ==
  ASSUME NEW a, NEW s, IsSequence(a), IsSequence(s), PrefixOf(a, s), NEW e
  PROVE  PrefixOf(a, Append(s, e))
<1>1. Len(a) \in Nat /\ Len(s) \in Nat
  BY SequenceFacts
<1>2. /\ Len(Append(s, e)) = Len(s) + 1
      /\ \A i \in 1 .. Len(s) : Append(s, e)[i] = s[i]
  BY Appended
<1> QED
  BY <1>1, <1>2 DEF PrefixOf

(* Frame: what producers did.                                              *)
LEMMA CreatedStays ==
  ASSUME CreatedInv, UNCHANGED << producer, created, flight >>
  PROVE  CreatedInv'
<1>1. producer' = producer /\ created' = created /\ flight' = flight
  OBVIOUS
<1>2. LifeInv'
  BY <1>1 DEF CreatedInv, LifeInv
<1>3. (created = [p \in Producers |-> [life \in 1 .. MaxLives |-> created[p][life]]])'
  BY <1>1 DEF CreatedInv
<1>4. /\ \A p \in Producers, life \in 1 .. MaxLives : ChainOf(p, life, created'[p][life])
      /\ \A p \in Producers, life \in 1 .. MaxLives :
           life > producer'[p].life => created'[p][life] = << >>
  BY <1>1 DEF CreatedInv
<1>5. \A p \in Producers :
       LET s == created'[p][producer'[p].life]
       IN /\ s = << >> => producer'[p].tail = ZERO
          /\ s # << >> => producer'[p].tail = s[Len(s)].evidence_digest
  BY <1>1 DEF CreatedInv
<1>6. \A e \in flight' : \E p \in Producers, life \in 1 .. MaxLives :
       \E k \in 1 .. Len(created'[p][life]) : e = created'[p][life][k]
  BY <1>1 DEF CreatedInv
<1> QED
  BY <1>2, <1>3, <1>4, <1>5, <1>6 DEF CreatedInv

(* Creating an envelope, signed or refused.                                *)
LEMMA EnvelopeCreated ==
  ASSUME ChainInv, Create
  PROVE  ChainInv'
<1> DEFINE core(p, class, sequence) ==
             EvidenceCore(p, class, producer[p].life, sequence, sequence, producer[p].tail)
<1>1. PICK p \in Producers, class \in Classes, signer \in WITNESS_PROVIDER_RESULTS :
      \E sequence \in {producer[p].sequence, producer[p].sequence + 1} \cap 1 .. MaxSequence :
        /\ IF create_result(witness, ledger, p, core(p, class, sequence), signer) = "OK"
             THEN /\ witness' = witness_created(witness, WitnessInput(core(p, class, sequence)))
                  /\ producer' = [producer EXCEPT
                                    ![p].sequence = sequence,
                                    ![p].tail = Envelope(core(p, class, sequence)).evidence_digest]
                  /\ flight' = flight \cup {Envelope(core(p, class, sequence))}
                  /\ created' = [created EXCEPT ![p][producer[p].life] =
                                   Append(@, Envelope(core(p, class, sequence)))]
                  /\ signed' = Append(signed, << core(p, class, sequence).id,
                                                 core(p, class, sequence).epoch,
                                                 core(p, class, sequence).sequence >>)
             ELSE UNCHANGED << witness, producer, flight, created, signed >>
        /\ UNCHANGED << ledger, trust, accepted >>
  BY DEF Create
<1>2. PICK sequence \in {producer[p].sequence, producer[p].sequence + 1} \cap 1 .. MaxSequence :
        /\ IF create_result(witness, ledger, p, core(p, class, sequence), signer) = "OK"
             THEN /\ witness' = witness_created(witness, WitnessInput(core(p, class, sequence)))
                  /\ producer' = [producer EXCEPT
                                    ![p].sequence = sequence,
                                    ![p].tail = Envelope(core(p, class, sequence)).evidence_digest]
                  /\ flight' = flight \cup {Envelope(core(p, class, sequence))}
                  /\ created' = [created EXCEPT ![p][producer[p].life] =
                                   Append(@, Envelope(core(p, class, sequence)))]
                  /\ signed' = Append(signed, << core(p, class, sequence).id,
                                                 core(p, class, sequence).epoch,
                                                 core(p, class, sequence).sequence >>)
             ELSE UNCHANGED << witness, producer, flight, created, signed >>
        /\ UNCHANGED << ledger, trust, accepted >>
  BY <1>1
<1>3. CASE create_result(witness, ledger, p, core(p, class, sequence), signer) # "OK"
  <2>1. UNCHANGED << witness, producer, flight, created, signed, ledger, accepted >>
    BY <1>2, <1>3
  <2>2. SignerInv'
    BY <2>1 DEF ChainInv, SignerInv, WitnessSignsOnce
  <2>3. CreatedInv'
    BY <2>1, CreatedStays DEF ChainInv
  <2>4. LedgerInv' /\ AcceptedInv'
    BY <2>1 DEF ChainInv, LedgerInv, AcceptedInv
  <2> QED
    BY <2>2, <2>3, <2>4 DEF ChainInv
<1>4. CASE create_result(witness, ledger, p, core(p, class, sequence), signer) = "OK"
  <2>1. PICK c : c = core(p, class, sequence)
    OBVIOUS
  <2>2. PICK e : e = Envelope(c)
    OBVIOUS
  <2>3. PICK input : input = WitnessInput(c)
    OBVIOUS
  <2>4. PICK life : life = producer[p].life
    OBVIOUS
  <2>5. PICK s : s = created[p][life]
    OBVIOUS
  <2>6. /\ create_result(witness, ledger, p, c, signer) = "OK"
        /\ witness' = witness_created(witness, input)
        /\ producer' = [producer EXCEPT ![p].sequence = sequence, ![p].tail = e.evidence_digest]
        /\ flight' = flight \cup {e}
        /\ created' = [created EXCEPT ![p][life] = Append(@, e)]
        /\ signed' = Append(signed, << c.id, c.epoch, c.sequence >>)
        /\ UNCHANGED << ledger, accepted >>
    BY <1>2, <1>4, <2>1, <2>2, <2>3, <2>4
  <2>7. LifeInv /\ life \in 1 .. MaxLives /\ life \in Int /\ sequence \in Int
    <3>1. LifeInv
      BY DEF ChainInv, CreatedInv
    <3>2. life \in 1 .. MaxLives /\ producer[p].sequence \in Int
      BY <2>4, <3>1 DEF LifeInv
    <3> QED
      BY <3>1, <3>2, EvidenceConstants
  <2>8. /\ c.id = Identity(p) /\ c.epoch = life /\ c.sequence = sequence
        /\ c.previous = producer[p].tail
        /\ c = EvidenceCore(p, c.class, life, c.sequence, c.sequence, c.previous)
    BY <2>1, <2>4 DEF EvidenceCore
  <2>9. input.subject = c.id /\ input.epoch = c.epoch /\ input.sequence = c.sequence
    BY <2>3 DEF WitnessInput
  <2>10. SignerInv'
    <3>1. \A i \in DOMAIN witness.subjects :
            witness.subjects[i].id = c.id =>
              ~Covers(witness.subjects[i], << c.id, c.epoch, c.sequence >>)
      BY <2>6, <2>7, <2>8, CreateAllowed DEF ChainInv
    <3>2. c.id \in SubjectIds
      BY <2>8 DEF SubjectIds
    <3> QED
      BY <2>6, <2>7, <2>8, <2>9, <3>1, <3>2, SubjectRecorded DEF ChainInv
  <2>11. Made(p, life, e) /\ e.core = c
    BY <2>2, <2>7, <2>8 DEF Made, Envelope
  <2>12. /\ ChainOf(p, life, s) /\ IsSequence(s)
         /\ s = << >> => c.previous = ZERO
         /\ s # << >> => c.previous = s[Len(s)].evidence_digest
    <3>1. ChainOf(p, life, s)
      BY <2>5, <2>7 DEF ChainInv, CreatedInv
    <3>2. /\ s = << >> => c.previous = ZERO
          /\ s # << >> => c.previous = s[Len(s)].evidence_digest
      BY <2>4, <2>5, <2>8 DEF ChainInv, CreatedInv
    <3> QED
      BY <3>1, <3>2 DEF ChainOf
  <2>13. ChainOf(p, life, Append(s, e))
    BY <2>11, <2>12, ChainExtends
  <2>14. /\ created' = [q \in Producers |-> [l \in 1 .. MaxLives |-> created'[q][l]]]
         /\ created'[p][life] = Append(s, e)
         /\ \A q \in Producers, l \in 1 .. MaxLives :
              (q # p \/ l # life) => created'[q][l] = created[q][l]
    BY <2>5, <2>6, <2>7 DEF ChainInv, CreatedInv
  <2>15. /\ producer' = [q \in Producers |-> producer'[q]]
         /\ producer'[p] = [life |-> life, sequence |-> sequence, tail |-> e.evidence_digest]
         /\ \A q \in Producers : q # p => producer'[q] = producer[q]
    <3>1. PICK r : r = producer[p]
      OBVIOUS
    <3>2. PICK old, t : r = [life |-> life, sequence |-> old, tail |-> t]
      BY <2>4, <2>7, <3>1 DEF LifeInv
    <3> DEFINE d == e.evidence_digest
               f == [r EXCEPT !.sequence = sequence, !.tail = d]
               F == [life : {life}, sequence : {old, sequence}, tail : {t, d}]
    <3>3. producer' = [producer EXCEPT ![p] = f]
      BY <2>6, <3>1
    <3> HIDE DEF d
    <3>4. r \in F
      BY <3>2
    <3>5. f \in F /\ f.sequence = sequence /\ f.tail = d
      BY <3>4
    <3> HIDE DEF f
    <3>6. f = [life |-> life, sequence |-> sequence, tail |-> d]
      BY <3>5
    <3> USE DEF d
    <3>7. producer = [q \in Producers |-> producer[q]]
      BY <2>7 DEF LifeInv
    <3> QED
      BY <3>3, <3>6, <3>7
  <2>16. LifeInv'
    BY <2>7, <2>15 DEF LifeInv
  <2>17. /\ Append(s, e) # << >> /\ Len(Append(s, e)) = Len(s) + 1
         /\ Append(s, e)[Len(s) + 1] = e /\ Len(s) \in Nat
         /\ \A i \in 1 .. Len(s) : Append(s, e)[i] = s[i]
    <3>1. /\ IsSequence(Append(s, e)) /\ Len(Append(s, e)) = Len(s) + 1
          /\ Append(s, e)[Len(s) + 1] = e
          /\ \A i \in 1 .. Len(s) : Append(s, e)[i] = s[i]
      BY <2>12, Appended
    <3>2. Len(s) \in Nat
      BY <2>12, SequenceFacts
    <3>3. Append(s, e) = << >> => Len(Append(s, e)) = 0
      BY <3>1, SequenceFacts
    <3> QED
      BY <3>1, <3>2, <3>3
  <2>18. \A q \in Producers, l \in 1 .. MaxLives : ChainOf(q, l, created'[q][l])
    BY <2>13, <2>14 DEF ChainInv, CreatedInv
  <2>19. ASSUME NEW q \in Producers
         PROVE  LET t == created'[q][producer'[q].life]
                IN /\ t = << >> => producer'[q].tail = ZERO
                   /\ t # << >> => producer'[q].tail = t[Len(t)].evidence_digest
    <3>1. CASE q = p
      BY <2>7, <2>14, <2>15, <2>17, <3>1
    <3>2. CASE q # p
      <4>1. producer[q].life \in 1 .. MaxLives
        BY <2>7 DEF LifeInv
      <4>2. created'[q][producer'[q].life] = created[q][producer[q].life]
            /\ producer'[q].tail = producer[q].tail
        BY <2>14, <2>15, <3>2, <4>1
      <4> QED
        BY <4>2 DEF ChainInv, CreatedInv
    <3> QED
      BY <3>1, <3>2
  <2>20. \A q \in Producers, l \in 1 .. MaxLives :
           l > producer'[q].life => created'[q][l] = << >>
    <3> SUFFICES ASSUME NEW q \in Producers, NEW l \in 1 .. MaxLives, l > producer'[q].life
                 PROVE  created'[q][l] = << >>
      OBVIOUS
    <3>1. producer'[q].life = producer[q].life
      BY <2>4, <2>15
    <3>2. q # p \/ l # life
      BY <2>4, <2>7, <3>1
    <3> QED
      BY <2>14, <3>1, <3>2 DEF ChainInv, CreatedInv
  <2>21. ASSUME NEW f \in flight'
         PROVE  \E q \in Producers, l \in 1 .. MaxLives :
                  \E k \in 1 .. Len(created'[q][l]) : f = created'[q][l][k]
    <3>1. CASE f = e
      <4>1. Len(s) + 1 \in 1 .. Len(created'[p][life]) /\ f = created'[p][life][Len(s) + 1]
        BY <2>14, <2>17, <3>1
      <4> QED
        BY <2>7, <4>1
    <3>2. CASE f # e
      <4>1. PICK q \in Producers, l \in 1 .. MaxLives :
              \E k \in 1 .. Len(created[q][l]) : f = created[q][l][k]
        BY <2>6, <3>2 DEF ChainInv, CreatedInv
      <4>2. PICK k \in 1 .. Len(created[q][l]) : f = created[q][l][k]
        BY <4>1
      <4>3. CASE q = p /\ l = life
        BY <2>5, <2>14, <2>17, <4>2, <4>3
      <4>4. CASE q # p \/ l # life
        BY <2>14, <4>2, <4>4
      <4> QED
        BY <4>3, <4>4
    <3> QED
      BY <3>1, <3>2
  <2>22. CreatedInv'
    BY <2>14, <2>16, <2>18, <2>19, <2>20, <2>21 DEF CreatedInv
  <2>23. LedgerInv'
    BY <2>6 DEF ChainInv, LedgerInv
  <2>24. AcceptedInv'
    <3> SUFFICES ASSUME NEW q \in Producers
                 PROVE  \E l \in 1 .. MaxLives : PrefixOf(accepted[q], created'[q][l])
      BY <2>6 DEF AcceptedInv
    <3>1. PICK l \in 1 .. MaxLives : PrefixOf(accepted[q], created[q][l])
      BY DEF ChainInv, AcceptedInv
    <3>2. CASE q = p /\ l = life
      <4>1. IsSequence(accepted[p])
        BY DEF ChainInv, LedgerInv
      <4>2. PrefixOf(accepted[p], Append(s, e))
        BY <2>5, <2>12, <3>1, <3>2, <4>1, PrefixExtends
      <4> QED
        BY <2>14, <3>2, <4>2
    <3>3. CASE q # p \/ l # life
      BY <2>14, <3>1, <3>3
    <3> QED
      BY <3>2, <3>3
  <2> QED
    BY <2>10, <2>22, <2>23, <2>24 DEF ChainInv
<1> QED
  BY <1>3, <1>4

(* Frame: what the witness signed.                                         *)
LEMMA SignerStays ==
  ASSUME SignerInv, UNCHANGED << witness, signed >>
  PROVE  SignerInv'
BY DEF SignerInv, WitnessSignsOnce

(* A refused envelope changes nothing.                                     *)
LEMMA Refused ==
  ASSUME ChainInv, NEW e, Receive(e), verify_and_accept_result(witness, ledger, e) # "OK"
  PROVE  ChainInv'
<1>1. UNCHANGED << witness, producer, flight, created, signed, ledger, accepted >>
  BY DEF Receive
<1>2. LedgerInv' /\ AcceptedInv'
  BY <1>1 DEF ChainInv, LedgerInv, AcceptedInv
<1> QED
  BY <1>1, <1>2, SignerStays, CreatedStays DEF ChainInv

(* An envelope delivered as it was made, at any time and any number of     *)
(* times.                                                                  *)
LEMMA EnvelopeReceived ==
  ASSUME ChainInv, NEW e \in flight, Receive(e)
  PROVE  ChainInv'
<1>1. CASE verify_and_accept_result(witness, ledger, e) # "OK"
  BY <1>1, Refused
<1>2. CASE verify_and_accept_result(witness, ledger, e) = "OK"
  <2>1. /\ ledger' = verify_and_accept(ledger, e)
        /\ accepted' = [p \in Producers |-> IF Identity(p) = e.core.id
                                              THEN Append(accepted[p], e)
                                              ELSE accepted[p]]
        /\ UNCHANGED << witness, producer, flight, created, signed >>
    BY <1>2 DEF Receive
  <2>2. PICK p \in Producers, life \in 1 .. MaxLives :
          \E k \in 1 .. Len(created[p][life]) : e = created[p][life][k]
    BY DEF ChainInv, CreatedInv
  <2>3. PICK k \in 1 .. Len(created[p][life]) : e = created[p][life][k]
    BY <2>2
  <2>4. Made(p, life, e)
    BY <2>3 DEF ChainInv, CreatedInv, ChainOf
  <2>5. e.core.id = Identity(p)
    BY <2>4, MadeFacts
  <2>6. history_result(ledger, e.core) = "OK"
    BY <1>2, AcceptedFacts
  <2> DEFINE table == ledger.producers
             at == SlotsOf(table, e.core.id)
             c == CHOOSE i \in at : TRUE
             entry == [id |-> e.core.id, epoch |-> e.core.epoch,
                       sequence |-> e.core.sequence, last |-> e.evidence_digest]
  <2>7. /\ IsSequence(table) /\ IsSequence(accepted[p])
        /\ Len(table) \in Nat /\ DOMAIN table = 1 .. Len(table)
        /\ \A i, j \in DOMAIN table : table[i].id = table[j].id => i = j
        /\ ledger = [initialized |-> ledger.initialized, producers |-> table]
    BY SequenceFacts DEF ChainInv, LedgerInv
  <2>8. /\ at = {} => accepted[p] = << >> /\ e.core.previous = ZERO
        /\ at # {} => /\ c \in DOMAIN table /\ table[c].id = Identity(p)
                      /\ accepted[p] # << >>
                      /\ e.core.previous = accepted[p][Len(accepted[p])].evidence_digest
    <3>1. CASE at = {}
      <4>1. e.core.previous = ZERO
        BY <2>6, <3>1 DEF history_result
      <4>2. accepted[p] = << >>
        BY <2>5, <3>1 DEF SlotsOf, ChainInv, LedgerInv
      <4> QED
        BY <3>1, <4>1, <4>2
    <3>2. CASE at # {}
      <4>1. c \in DOMAIN table /\ table[c].id = Identity(p)
        BY <2>5, <3>2 DEF SlotsOf
      <4>2. e.core.previous = table[c].last
        BY <2>6, <3>2 DEF history_result
      <4>3. accepted[p] # << >> /\ table[c].last = accepted[p][Len(accepted[p])].evidence_digest
        BY <4>1 DEF ChainInv, LedgerInv
      <4> QED
        BY <3>2, <4>1, <4>2, <4>3
    <3> QED
      BY <3>1, <3>2
  <2>9. PrefixOf(Append(accepted[p], e), created[p][life])
    <3>1. PICK m \in 1 .. MaxLives : PrefixOf(accepted[p], created[p][m])
      BY DEF ChainInv, AcceptedInv
    <3>2. ChainOf(p, life, created[p][life]) /\ ChainOf(p, m, created[p][m])
      BY DEF ChainInv, CreatedInv
    <3>3. PICK C : C = created[p]
      OBVIOUS
    <3>4. PICK a : a = accepted[p]
      OBVIOUS
    <3>5. /\ a = << >> => C[life][k].core.previous = ZERO
          /\ a # << >> => C[life][k].core.previous = a[Len(a)].evidence_digest
      BY <2>3, <2>8, <3>3, <3>4
    <3>6. ChainOf(p, life, C[life]) /\ ChainOf(p, m, C[m]) /\ IsSequence(a) /\ PrefixOf(a, C[m])
          /\ k \in 1 .. Len(C[life])
      BY <2>7, <3>1, <3>2, <3>3, <3>4
    <3>7. PrefixOf(Append(a, C[life][k]), C[life])
      BY <3>5, <3>6, AcceptsNext
    <3> QED
      BY <2>3, <3>3, <3>4, <3>7
  <2>10. \A q \in Producers : Identity(q) = e.core.id <=> q = p
    BY <2>5, EvidenceConstants
  <2>11. /\ accepted'[p] = Append(accepted[p], e)
         /\ \A q \in Producers : q # p => accepted'[q] = accepted[q]
         /\ accepted' = [q \in Producers |-> accepted'[q]]
    BY <2>1, <2>10
  <2>12. AcceptedInv'
    <3> SUFFICES ASSUME NEW q \in Producers
                 PROVE  \E l \in 1 .. MaxLives : PrefixOf(accepted'[q], created[q][l])
      BY <2>1 DEF AcceptedInv
    <3>1. CASE q = p
      BY <2>9, <2>11, <3>1
    <3>2. CASE q # p
      BY <2>11, <3>2 DEF ChainInv, AcceptedInv
    <3> QED
      BY <3>1, <3>2
  <2>13. /\ IsSequence(accepted'[p]) /\ accepted'[p] # << >>
         /\ accepted'[p][Len(accepted'[p])] = e
    <3>1. PICK a : a = accepted[p]
      OBVIOUS
    <3>2. /\ IsSequence(Append(a, e)) /\ Len(Append(a, e)) = Len(a) + 1
          /\ Append(a, e)[Len(a) + 1] = e /\ Len(a) \in Nat
      BY <2>7, <3>1, Appended, SequenceFacts
    <3>3. Append(a, e) = << >> => Len(Append(a, e)) = 0
      BY <3>2, SequenceFacts
    <3> QED
      BY <2>11, <3>1, <3>2, <3>3
  <2>14. PICK T : T = IF at = {} THEN Append(table, entry) ELSE [table EXCEPT ![c] = entry]
    OBVIOUS
  <2>15. ledger' = [initialized |-> ledger.initialized, producers |-> T]
    <3>1. ledger' = [ledger EXCEPT !.producers = T]
      BY <2>1, <2>14 DEF verify_and_accept
    <3> QED
      BY <2>7, <3>1
  <2>16. entry.id = Identity(p) /\ entry.last = e.evidence_digest
    BY <2>5
  <2> HIDE DEF entry
  <2>17. \E n \in DOMAIN T :
           /\ IsSequence(T) /\ T[n] = entry
           /\ \A i \in DOMAIN T : i # n => i \in DOMAIN table /\ T[i] = table[i]
                                           /\ table[i].id # Identity(p)
           /\ \A i \in DOMAIN table : table[i].id # Identity(p) => i \in DOMAIN T /\ i # n
    <3>1. CASE at = {}
      <4>1. PICK u, v : u = table /\ v = entry
        OBVIOUS
      <4>2. /\ IsSequence(Append(u, v)) /\ Len(Append(u, v)) = Len(u) + 1
            /\ Append(u, v)[Len(u) + 1] = v
            /\ \A i \in 1 .. Len(u) : Append(u, v)[i] = u[i]
        BY <2>7, <4>1, Appended
      <4>3. T = Append(u, v)
        BY <2>14, <3>1, <4>1
      <4>4. DOMAIN T = 1 .. Len(u) + 1
        BY <4>2, <4>3, SequenceFacts
      <4>5. \A i \in DOMAIN table : table[i].id # Identity(p)
        BY <2>5, <3>1 DEF SlotsOf
      <4>6. Len(u) + 1 \in DOMAIN T /\ T[Len(u) + 1] = entry /\ IsSequence(T)
        BY <2>7, <4>1, <4>2, <4>3, <4>4
      <4>7. \A i \in DOMAIN T : i # Len(u) + 1 => i \in DOMAIN table /\ T[i] = table[i]
        BY <2>7, <4>1, <4>2, <4>3, <4>4
      <4>8. \A i \in DOMAIN table : i \in DOMAIN T /\ i # Len(u) + 1
        BY <2>7, <4>1, <4>4
      <4> QED
        BY <4>5, <4>6, <4>7, <4>8
    <3>2. CASE at # {}
      <4>1. c \in DOMAIN table /\ table[c].id = Identity(p)
        BY <2>8, <3>2
      <4>2. T = [table EXCEPT ![c] = entry]
        BY <2>14, <3>2
      <4> HIDE DEF c, at
      <4>3. /\ DOMAIN T = DOMAIN table /\ T[c] = entry
            /\ \A i \in DOMAIN T : i # c => T[i] = table[i]
        BY <2>7, <4>1, <4>2 DEF IsSequence
      <4>4. T = [i \in 1 .. Len(table) |-> T[i]]
        BY <2>7, <4>2, <4>3
      <4>5. IsSequence(T)
        BY <2>7, <4>4, FunctionIsSequence
      <4> QED
        BY <2>7, <4>1, <4>3, <4>5
    <3> QED
      BY <3>1, <3>2
  <2>18. PICK n \in DOMAIN T :
           /\ IsSequence(T) /\ T[n] = entry
           /\ \A i \in DOMAIN T : i # n => i \in DOMAIN table /\ T[i] = table[i]
                                           /\ table[i].id # Identity(p)
           /\ \A i \in DOMAIN table : table[i].id # Identity(p) => i \in DOMAIN T /\ i # n
    BY <2>17
  <2>19. ledger'.producers = T
    BY <2>15
  <2>20. \A i, j \in DOMAIN T : T[i].id = T[j].id => i = j
    BY <2>7, <2>16, <2>18
  <2>21. ASSUME NEW q \in Producers, NEW i \in DOMAIN T, T[i].id = Identity(q)
         PROVE  /\ accepted'[q] # << >>
                /\ T[i].last = accepted'[q][Len(accepted'[q])].evidence_digest
    <3>1. CASE i = n
      BY <2>10, <2>13, <2>16, <2>18, <2>21, <3>1, EvidenceConstants
    <3>2. CASE i # n
      <4>1. i \in DOMAIN table /\ T[i] = table[i] /\ q # p
        BY <2>18, <2>21, <3>2
      <4>2. accepted[q] # << >> /\ table[i].last = accepted[q][Len(accepted[q])].evidence_digest
        BY <2>21, <4>1 DEF ChainInv, LedgerInv
      <4> QED
        BY <2>11, <4>1, <4>2
    <3> QED
      BY <3>1, <3>2
  <2>22. ASSUME NEW q \in Producers, accepted'[q] # << >>
         PROVE  \E i \in DOMAIN T : T[i].id = Identity(q)
    <3>1. CASE q = p
      BY <2>16, <2>18, <3>1
    <3>2. CASE q # p
      <4>1. PICK i \in DOMAIN table : table[i].id = Identity(q)
        BY <2>11, <2>22, <3>2 DEF ChainInv, LedgerInv
      <4>2. table[i].id # Identity(p)
        BY <3>2, <4>1, EvidenceConstants
      <4> QED
        BY <2>18, <4>1, <4>2
    <3> QED
      BY <3>1, <3>2
  <2>23. LedgerInv'
    <3>1. ledger' = [initialized |-> ledger'.initialized, producers |-> ledger'.producers]
      BY <2>15
    <3>2. \A q \in Producers : IsSequence(accepted'[q])
      <4>1. \A q \in Producers : IsSequence(accepted[q])
        BY Zenon DEF ChainInv, LedgerInv
      <4> QED
        BY <2>11, <2>13, <4>1, Zenon
    <3>3. IsSequence(T)
      BY <2>18, Zenon
    <3> QED
      BY <2>11, <2>19, <2>20, <2>21, <2>22, <3>1, <3>2, <3>3, Zenon DEF LedgerInv
  <2> QED
    BY <2>1, <2>12, <2>23, SignerStays, CreatedStays DEF ChainInv
<1> QED
  BY <1>1, <1>2

(* An altered envelope is refused.                                         *)
LEMMA AlteredReceived ==
  ASSUME ChainInv, NEW e \in flight, NEW a \in Altered(e), Receive(a)
  PROVE  ChainInv'
<1>1. PICK p \in Producers, life \in 1 .. MaxLives :
        \E k \in 1 .. Len(created[p][life]) : e = created[p][life][k]
  BY DEF ChainInv, CreatedInv
<1>2. ChainOf(p, life, created[p][life])
  BY DEF ChainInv, CreatedInv
<1>3. Made(p, life, e)
  BY <1>1, <1>2 DEF ChainOf
<1> QED
  BY <1>3, AlteredRefused, Refused

(* A new life starts an empty chain.                                       *)
LEMMA ProducerRestarted ==
  ASSUME ChainInv, RestartProducer
  PROVE  ChainInv'
<1>1. PICK p \in Producers :
        /\ producer[p].life < MaxLives
        /\ producer' = [producer EXCEPT ![p] = [FirstLife EXCEPT !.life = producer[p].life + 1]]
        /\ UNCHANGED << witness, ledger, trust, flight, created, accepted, signed >>
  BY DEF RestartProducer
<1>2. PICK life : life = producer[p].life + 1
  OBVIOUS
<1>3. PICK new : new = [life |-> life, sequence |-> 0, tail |-> ZERO]
  OBVIOUS
<1>4. producer' = [producer EXCEPT ![p] = new]
  <2>1. [FirstLife EXCEPT !.life = life] = new
    BY <1>3 DEF FirstLife
  <2> QED
    BY <1>1, <1>2, <2>1
<1>5. /\ producer = [q \in Producers |-> producer[q]]
      /\ life \in 1 .. MaxLives /\ life > producer[p].life
      /\ \A q \in Producers : producer[q].life \in 1 .. MaxLives
  BY <1>1, <1>2, EvidenceConstants DEF ChainInv, CreatedInv, LifeInv
<1>6. /\ producer' = [q \in Producers |-> producer'[q]]
      /\ producer'[p] = new
      /\ \A q \in Producers : q # p => producer'[q] = producer[q]
  BY <1>4, <1>5
<1>7. new = [life |-> new.life, sequence |-> new.sequence, tail |-> new.tail]
      /\ new.life = life /\ new.sequence = 0 /\ new.tail = ZERO
  BY <1>3
<1>8. LifeInv'
  <2>1. ASSUME NEW q \in Producers
        PROVE  /\ producer'[q] = [life |-> producer'[q].life, sequence |-> producer'[q].sequence,
                                  tail |-> producer'[q].tail]
               /\ producer'[q].life \in 1 .. MaxLives
               /\ producer'[q].sequence \in Int
    <3>1. CASE q = p
      BY <1>5, <1>6, <1>7, <3>1
    <3>2. CASE q # p
      BY <1>6, <3>2 DEF ChainInv, CreatedInv, LifeInv
    <3> QED
      BY <3>1, <3>2
  <2> QED
    BY <1>6, <2>1 DEF LifeInv
<1>9. created[p][life] = << >>
  BY <1>5 DEF ChainInv, CreatedInv
<1>10. /\ created' = created /\ flight' = flight
       /\ UNCHANGED << witness, signed >>
       /\ UNCHANGED << ledger, accepted, created >>
  BY <1>1
<1>11. ASSUME NEW q \in Producers
       PROVE  /\ created'[q][producer'[q].life] = << >> => producer'[q].tail = ZERO
              /\ created'[q][producer'[q].life] # << >> =>
                   producer'[q].tail = created'[q][producer'[q].life][
                                         Len(created'[q][producer'[q].life])].evidence_digest
  <2>1. CASE q = p
    BY <1>6, <1>7, <1>9, <1>10, <2>1
  <2>2. CASE q # p
    BY <1>6, <1>10, <2>2 DEF ChainInv, CreatedInv
  <2> QED
    BY <2>1, <2>2
<1>12. ASSUME NEW q \in Producers, NEW other \in 1 .. MaxLives, other > producer'[q].life
       PROVE  created'[q][other] = << >>
  <2>1. other > producer[q].life
    BY <1>5, <1>6, <1>7, <1>12
  <2> QED
    BY <1>10, <2>1 DEF ChainInv, CreatedInv
<1>13. /\ created' = [q \in Producers |-> [l \in 1 .. MaxLives |-> created'[q][l]]]
       /\ \A q \in Producers, l \in 1 .. MaxLives : ChainOf(q, l, created'[q][l])
  BY <1>10 DEF ChainInv, CreatedInv
<1>14. \A e \in flight' : \E q \in Producers, l \in 1 .. MaxLives :
         \E k \in 1 .. Len(created'[q][l]) : e = created'[q][l][k]
  BY <1>10 DEF ChainInv, CreatedInv
<1>15. CreatedInv'
  BY <1>8, <1>11, <1>12, <1>13, <1>14 DEF CreatedInv
<1>16. SignerInv'
  BY <1>10, SignerStays DEF ChainInv
<1>17. LedgerInv' /\ AcceptedInv'
  BY <1>10 DEF ChainInv, LedgerInv, AcceptedInv
<1> QED
  BY <1>15, <1>16, <1>17 DEF ChainInv

(* The restarted witness and verifier start from empty tables.             *)
LEMMA WitnessRestarted ==
  ASSUME ChainInv, RestartWitness
  PROVE  ChainInv'
<1>1. /\ witness' = witness_configure(WitnessSelf)
      /\ ledger' = ledger_configure(witness')
      /\ accepted' = [p \in Producers |-> << >>]
      /\ signed' = << >>
      /\ UNCHANGED << producer, created, flight >>
  BY DEF RestartWitness
<1>2. witness' \in [initialized : BOOLEAN, subjects : Seq(SubjectSlots)]
      /\ witness'.subjects = << >>
  BY <1>1, Configured
<1>3. SignerInv'
  BY <1>1, <1>2 DEF SignerInv, WitnessSignsOnce
<1>4. CreatedInv'
  BY <1>1, CreatedStays DEF ChainInv
<1>5. PICK w : w = witness'
  OBVIOUS
<1>6. ledger' = ledger_configure(w)
  BY <1>1, <1>5
<1>7. /\ ledger' = [initialized |-> ledger'.initialized, producers |-> ledger'.producers]
      /\ ledger'.producers = << >>
  BY <1>6, Configured
<1>8. /\ accepted' = [p \in Producers |-> accepted'[p]]
      /\ \A p \in Producers : accepted'[p] = << >>
  BY <1>1
<1>9. LedgerInv'
  BY <1>7, <1>8, EmptySequence DEF LedgerInv
<1>10. ASSUME NEW p \in Producers
       PROVE  \E life \in 1 .. MaxLives : PrefixOf(accepted'[p], created'[p][life])
  <2>1. 1 \in 1 .. MaxLives
    BY EvidenceConstants
  <2>2. ChainOf(p, 1, created'[p][1])
    BY <2>1, <1>4 DEF CreatedInv
  <2>3. Len(created'[p][1]) \in Nat
    BY <2>2, SequenceFacts DEF ChainOf
  <2> QED
    BY <1>8, <2>1, <2>3, EmptySequence DEF PrefixOf
<1> QED
  BY <1>3, <1>4, <1>9, <1>10 DEF ChainInv, AcceptedInv

(* Every operation of signed evidence keeps the invariant.                 *)
LEMMA ChainSteps ==
  ASSUME ChainInv, ChainNext \/ UNCHANGED chainVars
  PROVE  ChainInv'
<1>1. CASE Create
  BY <1>1, EnvelopeCreated
<1>2. CASE Deliver
  BY <1>2, EnvelopeReceived DEF Deliver
<1>3. CASE DeliverAltered
  BY <1>3, AlteredReceived DEF DeliverAltered
<1>4. CASE Revoke \/ UNCHANGED chainVars
  <2>1. UNCHANGED << witness, signed >> /\ UNCHANGED << producer, created, flight >>
        /\ UNCHANGED << ledger, accepted >>
    BY <1>4 DEF Revoke, chainVars
  <2>2. LedgerInv' /\ AcceptedInv'
    BY <2>1 DEF ChainInv, LedgerInv, AcceptedInv
  <2> QED
    BY <2>1, <2>2, SignerStays, CreatedStays DEF ChainInv
<1>5. CASE RestartProducer
  BY <1>5, ProducerRestarted
<1>6. CASE RestartWitness
  BY <1>6, WitnessRestarted
<1> QED
  BY <1>1, <1>2, <1>3, <1>4, <1>5, <1>6 DEF ChainNext

(* What the invariant says of the accepted and of the signed records.      *)
LEMMA ChainMeans == ChainInv => AcceptedArePrefix /\ WitnessSignsOnce
<1> SUFFICES ASSUME ChainInv PROVE AcceptedArePrefix
  BY DEF ChainInv, SignerInv
<1> SUFFICES ASSUME NEW p \in Producers
             PROVE  \E life \in 1 .. MaxLives : IsPrefix(accepted[p], created[p][life])
  BY DEF AcceptedArePrefix
<1>1. PICK life \in 1 .. MaxLives : PrefixOf(accepted[p], created[p][life])
  BY DEF ChainInv, AcceptedInv
<1>2. IsSequence(accepted[p]) /\ IsSequence(created[p][life])
  BY DEF ChainInv, LedgerInv, CreatedInv, ChainOf
<1> QED
  BY <1>1, <1>2, PrefixIsPrefix
---------------------------------------------------------------------------
(* The corroboration round.                                                *)

(* The context of a round, field by field.                                 *)
ROUND_STATES ==
  {"UNCONFIGURED", "INSUFFICIENT", "CORROBORATED", "CONFLICT_LATCHED", "REJOIN_REQUIRED"}
SlotReports ==
  [epoch : {0} \cup {s.epoch : s \in Reports},
   sequence : {0} \cup {s.sequence : s \in Reports},
   same_round_ack : {0, 1},
   commitment : {0} \cup {s.commitment : s \in Reports}]
PeerSlots ==
  [report : SlotReports, received_at : Int, seen : BOOLEAN, available : BOOLEAN]
SlotTables == [DOMAIN Round.peers -> PeerSlots] \cup {<< >>}
Contexts ==
  [state : ROUND_STATES, slots : SlotTables, last_clock : Int, clock_seen : BOOLEAN,
   conflict_present : BOOLEAN]

(* The states in which the round takes reports.                            *)
Open(c) == c.state \in {"INSUFFICIENT", "CORROBORATED"}

(* gc_require_rejoin closes an open round and leaves a latched conflict as *)
(* it is.                                                                  *)
LEMMA RejoinRequired ==
  ASSUME NEW c \in Contexts
  PROVE  LET d == gc_require_rejoin(c)
         IN /\ d \in Contexts /\ d.slots = c.slots
            /\ d.conflict_present = c.conflict_present
            /\ ~Open(c) => d.state = c.state \/ d.state = "REJOIN_REQUIRED"
            /\ Open(c) => d.state = "REJOIN_REQUIRED"
            /\ c.state \in {"UNCONFIGURED", "CONFLICT_LATCHED"} => d = c
            /\ c.state # "UNCONFIGURED" => d.state \in {"CONFLICT_LATCHED", "REJOIN_REQUIRED"}
BY DEF gc_require_rejoin, Contexts, ROUND_STATES, Open

(* A clock that runs back or cannot be read closes the round.              *)
LEMMA ClockChecked ==
  ASSUME NEW c \in Contexts, NEW now \in Int, NEW good \in BOOLEAN
  PROVE  LET d == clock_check(c, now, good)
         IN /\ d \in Contexts /\ d.slots = c.slots
            /\ d.conflict_present = c.conflict_present
            /\ clock_ok(c, now, good) => d.state = c.state /\ d.last_clock = now
            /\ ~clock_ok(c, now, good) => d = gc_require_rejoin(c)
<1>1. CASE clock_ok(c, now, good)
  BY <1>1 DEF clock_check, Contexts
<1>2. CASE ~clock_ok(c, now, good)
  BY <1>2, RejoinRequired DEF clock_check
<1> QED
  BY <1>1, <1>2

(* Fresh peers enough in number and in roles.                              *)
Enough(c, now) ==
  /\ Cardinality(FreshPeers(c, now)) >= Round.threshold
  /\ Round.required_roles \subseteq {Round.peers[i].role : i \in FreshPeers(c, now)}

(* evaluate moves an open round only between its two open states.          *)
LEMMA Evaluated ==
  ASSUME NEW c \in Contexts, NEW now
  PROVE  LET d == evaluate(c, now)
         IN /\ d \in Contexts /\ d.slots = c.slots /\ d.last_clock = c.last_clock
            /\ d.conflict_present = c.conflict_present
            /\ ~Open(c) => d = c
            /\ Open(c) => Open(d) /\ (d.state = "CORROBORATED" => Enough(c, now))
<1>1. CASE Open(c)
  <2> DEFINE s == IF Enough(c, now) THEN "CORROBORATED" ELSE "INSUFFICIENT"
  <2>1. evaluate(c, now) = [c EXCEPT !.state = s]
    BY <1>1 DEF evaluate, Open, Enough
  <2>2. s \in {"INSUFFICIENT", "CORROBORATED"} /\ (s = "CORROBORATED" => Enough(c, now))
    OBVIOUS
  <2> HIDE DEF s
  <2> QED
    BY <1>1, <2>1, <2>2 DEF Open, Contexts, ROUND_STATES
<1>2. CASE ~Open(c)
  BY <1>2 DEF evaluate, Open
<1> QED
  BY <1>1, <1>2

(* What the laid-out fields of a wire message amount to.                   *)
LEMMA Joined ==
  ASSUME NEW S, NEW s \in Seq(S), NEW t \in Seq(S)
  PROVE  s \o t \in Seq(S) /\ Len(s \o t) = Len(s) + Len(t)
OBVIOUS

LEMMA LastJoined ==
  ASSUME NEW S, NEW s \in Seq(S), NEW v \in S
  PROVE  (s \o << v >>)[Len(s) + 1] = v
OBVIOUS

(* The commitment that is decoded is the one that was encoded.             *)
LEMMA CommitmentTravels ==
  ASSUME NEW o, NEW p \in gc_wire_decode(gc_wire_encode(o))
  PROVE  p.commitment = o.commitment
<1> DEFINE b == gc_wire_encode(o)
<1>1. Len(b) = 21 /\ p.commitment = b[21]
  BY DEF gc_wire_decode
<1>2. CASE ~wire_valid(o)
  BY <1>1, <1>2 DEF gc_wire_encode
<1>3. CASE wire_valid(o)
  <2> DEFINE h == << GC_WIRE_VERSION, o.claims_actuation, 0, 0 >>
             q1 == put32(o.generation)
             q2 == put32(o.policy)
             q3 == put32(o.profile)
             q4 == put32(o.round)
             T == {h[i] : i \in 1 .. 4} \cup {q1[i] : i \in 1 .. 4}
                  \cup {q2[i] : i \in 1 .. 4} \cup {q3[i] : i \in 1 .. 4}
                  \cup {q4[i] : i \in 1 .. 4} \cup {o.commitment}
  <2>1. b = h \o q1 \o q2 \o q3 \o q4 \o << o.commitment >>
    BY <1>3 DEF gc_wire_encode
  <2>2. Len(h) = 4 /\ Len(q1) = 4 /\ Len(q2) = 4 /\ Len(q3) = 4 /\ Len(q4) = 4
    BY DEF put32
  <2>3. h \in Seq(T)
    OBVIOUS
  <2>4. q1 \in Seq(T)
    BY DEF put32
  <2>5. q2 \in Seq(T)
    BY DEF put32
  <2>6. q3 \in Seq(T)
    BY DEF put32
  <2>7. q4 \in Seq(T)
    BY DEF put32
  <2>8. o.commitment \in T
    OBVIOUS
  <2> HIDE DEF h, q1, q2, q3, q4, T, b
  <2>9. h \o q1 \in Seq(T) /\ Len(h \o q1) = Len(h) + Len(q1)
    BY <2>3, <2>4, Joined, Zenon
  <2>10. h \o q1 \o q2 \in Seq(T) /\ Len(h \o q1 \o q2) = Len(h \o q1) + Len(q2)
    BY <2>5, <2>9, Joined, Zenon
  <2>11. /\ h \o q1 \o q2 \o q3 \in Seq(T)
         /\ Len(h \o q1 \o q2 \o q3) = Len(h \o q1 \o q2) + Len(q3)
    BY <2>6, <2>10, Joined, Zenon
  <2>12. /\ h \o q1 \o q2 \o q3 \o q4 \in Seq(T)
         /\ Len(h \o q1 \o q2 \o q3 \o q4) = Len(h \o q1 \o q2 \o q3) + Len(q4)
    BY <2>7, <2>11, Joined, Zenon
  <2>13. b[Len(h \o q1 \o q2 \o q3 \o q4) + 1] = o.commitment
    BY <2>1, <2>8, <2>12, LastJoined, Zenon
  <2>14. b[21] = o.commitment
    BY <2>2, <2>9, <2>10, <2>11, <2>12, <2>13
  <2> QED
    BY <1>1, <2>14
<1> QED
  BY <1>2, <1>3

(* The round is a round, and a review a review.                            *)
RoundTypeOK ==
  /\ gc \in Contexts
  /\ review \in [eligible_for_local_review : BOOLEAN]

(* What the open round has heard is what its slots hold, one commitment.   *)
HeardInv ==
  /\ \A i \in DOMAIN gc.slots : gc.slots[i].seen => gc.slots[i].report.commitment \in heard
  /\ \A h \in heard : \E i \in DOMAIN gc.slots :
                        gc.slots[i].seen /\ gc.slots[i].report.commitment = h
  /\ \A h, k \in heard : h = k

(* A latched conflict is the state it latched, an open round has heard one *)
(* commitment, and a review is only offered by a corroborated round.       *)
RoundInv ==
  /\ RoundTypeOK
  /\ gc.conflict_present => gc.state = "CONFLICT_LATCHED"
  /\ gc.state = "UNCONFIGURED" => heard = {} /\ ~review.eligible_for_local_review
  /\ gc.state # "UNCONFIGURED" => Round.required_roles # {}
  /\ Open(gc) => HeardInv
  /\ review.eligible_for_local_review => gc.state = "CORROBORATED"
  /\ ReviewMeansAgreement

(* The round starts unconfigured.                                          *)
LEMMA RoundStarts == RoundInit => RoundInv
<1> SUFFICES ASSUME RoundInit PROVE RoundInv
  OBVIOUS
<1>1. gc \in Contexts
  BY DEF RoundInit, gc_init, Contexts, ROUND_STATES, SlotTables
<1> QED
  BY <1>1 DEF RoundInit, gc_init, RoundInv, RoundTypeOK, Open, ReviewMeansAgreement, NoReview

(* configure opens a round that has heard nothing.                         *)
LEMMA RoundConfigures ==
  ASSUME RoundInv, ConfigureRound
  PROVE  RoundInv'
<1>1. gc' = gc_configure(gc, Round) /\ heard' = heard /\ review' = review
  BY DEF ConfigureRound
<1>2. CASE gc_configure_result(gc, Round) # "OK"
  <2>1. gc' = gc
    BY <1>1, <1>2 DEF gc_configure
  <2> QED
    BY <1>1, <2>1 DEF RoundInv, RoundTypeOK, HeardInv, ReviewMeansAgreement
<1>3. CASE gc_configure_result(gc, Round) = "OK"
  <2> DEFINE t == [i \in DOMAIN Round.peers |->
                     [report |-> NoReport, received_at |-> 0,
                      seen |-> FALSE, available |-> FALSE]]
  <2>1. gc' = [gc EXCEPT !.state = "INSUFFICIENT", !.slots = t]
    BY <1>1, <1>3 DEF gc_configure
  <2>2. gc.state = "UNCONFIGURED" /\ Round.required_roles # {}
    BY <1>3 DEF gc_configure_result
  <2>3. t \in SlotTables /\ \A i \in DOMAIN t : ~t[i].seen
    BY DEF SlotTables, PeerSlots, SlotReports, NoReport
  <2> HIDE DEF t
  <2>4. gc \in Contexts /\ ~gc.conflict_present /\ heard = {} /\ ~review.eligible_for_local_review
    BY <2>2 DEF RoundInv, RoundTypeOK, Contexts
  <2>5. /\ gc' \in Contexts /\ gc'.state = "INSUFFICIENT" /\ gc'.slots = t
        /\ ~gc'.conflict_present
    BY <2>1, <2>3, <2>4 DEF Contexts, ROUND_STATES
  <2>6. HeardInv'
    BY <1>1, <2>3, <2>4, <2>5 DEF HeardInv
  <2> QED
    BY <1>1, <2>2, <2>4, <2>5, <2>6 DEF RoundInv, RoundTypeOK, ReviewMeansAgreement
<1> QED
  BY <1>2, <1>3

(* Reset and unavailability forget the round.                              *)
LEMMA RoundResets ==
  ASSUME RoundInv, ResetRound
  PROVE  RoundInv'
<1>1. gc' = gc_init /\ heard' = {} /\ review' = NoReview
  BY DEF ResetRound
<1>2. gc' \in Contexts
  BY <1>1 DEF gc_init, Contexts, ROUND_STATES, SlotTables
<1> QED
  BY <1>1, <1>2 DEF gc_init, RoundInv, RoundTypeOK, Open, ReviewMeansAgreement, NoReview

(* A step after which no assessment is out, and which keeps what the open  *)
(* round's slots hold, keeps the invariant.                                *)
LEMMA UnreviewedStep ==
  ASSUME RoundInv, gc.state # "UNCONFIGURED", gc' \in Contexts, review' = NoReview,
         gc'.state # "UNCONFIGURED",
         gc'.conflict_present => gc'.state = "CONFLICT_LATCHED",
         Open(gc') => HeardInv'
  PROVE  RoundInv'
<1>1. review' \in [eligible_for_local_review : BOOLEAN] /\ ~review'.eligible_for_local_review
  BY DEF NoReview
<1> QED
  BY <1>1 DEF RoundInv, RoundTypeOK, ReviewMeansAgreement, Open

(* What the clock can answer.                                              *)
LEMMA ReadingTypes ==
  ASSUME RoundInv, NEW clock \in Readings
  PROVE  clock[1] \in Int /\ clock[2] \in BOOLEAN
<1>1. gc.last_clock \in Int
  BY DEF RoundInv, RoundTypeOK, Contexts
<1>2. CASE clock = << gc.last_clock, FALSE >>
  BY <1>1, <1>2
<1>3. CASE clock # << gc.last_clock, FALSE >>
  <2>1. PICK t \in (gc.last_clock - 1 .. gc.last_clock + 1) \cap 0 .. MaxRoundClock :
          clock = << t, TRUE >>
    BY <1>3 DEF Readings
  <2> QED
    BY <1>1, <2>1
<1> QED
  BY <1>2, <1>3

(* A query re-evaluates the round, and offers a review when it is          *)
(* corroborated.                                                           *)
LEMMA RoundQueried ==
  ASSUME RoundInv, QueryRound
  PROVE  RoundInv' /\ (gc.conflict_present => gc'.conflict_present)
<1>1. PICK clock \in Readings :
        /\ gc' = gc_query(gc, clock[1], clock[2])
        /\ review' = gc_assessment(gc, clock[1], clock[2])
        /\ UNCHANGED heard
  BY DEF QueryRound
<1> DEFINE now == clock[1]
           good == clock[2]
           timed == clock_check(gc, now, good)
<1>2. now \in Int /\ good \in BOOLEAN /\ gc \in Contexts
  BY ReadingTypes DEF RoundInv, RoundTypeOK
<1>3. review' \in [eligible_for_local_review : BOOLEAN]
  BY <1>1 DEF gc_assessment
<1> HIDE DEF now, good
<1>4. CASE gc.state = "UNCONFIGURED"
  <2>1. gc' = gc /\ ~review'.eligible_for_local_review
    BY <1>1, <1>4 DEF gc_query, gc_assessment, gc_query_result, now, good
  <2> QED
    BY <1>1, <1>3, <1>4, <2>1 DEF RoundInv, RoundTypeOK, ReviewMeansAgreement, Open
<1>5. CASE gc.state # "UNCONFIGURED"
  <2>1. gc' = evaluate(timed, now)
    BY <1>1, <1>5 DEF gc_query, now, good
  <2>2. /\ timed \in Contexts /\ timed.slots = gc.slots
        /\ timed.conflict_present = gc.conflict_present
        /\ clock_ok(gc, now, good) => timed.state = gc.state /\ timed.last_clock = now
        /\ ~clock_ok(gc, now, good) => timed = gc_require_rejoin(gc)
    BY <1>2, ClockChecked
  <2>3. ~clock_ok(gc, now, good) => timed.state \in {"CONFLICT_LATCHED", "REJOIN_REQUIRED"}
    BY <1>2, <1>5, <2>2, RejoinRequired
  <2>4. gc.state = "CONFLICT_LATCHED" => timed.state = "CONFLICT_LATCHED"
    BY <1>2, <2>2, RejoinRequired
  <2> HIDE DEF timed
  <2>5. /\ gc' \in Contexts /\ gc'.slots = gc.slots /\ gc'.last_clock = timed.last_clock
        /\ gc'.conflict_present = gc.conflict_present
        /\ ~Open(timed) => gc' = timed
        /\ Open(timed) => Open(gc') /\ (gc'.state = "CORROBORATED" => Enough(timed, now))
    BY <2>1, <2>2, Evaluated
  <2>6. /\ gc'.state # "UNCONFIGURED"
        /\ gc'.conflict_present => gc'.state = "CONFLICT_LATCHED"
        /\ Open(gc') => Open(timed) /\ Open(gc) /\ clock_ok(gc, now, good)
    BY <1>5, <2>2, <2>3, <2>4, <2>5 DEF Open, RoundInv
  <2>7. Open(gc') => HeardInv'
    BY <1>1, <2>5, <2>6 DEF RoundInv, HeardInv
  <2>8. review'.eligible_for_local_review => gc'.state = "CORROBORATED"
    BY <1>1 DEF gc_assessment
  <2>9. ASSUME review'.eligible_for_local_review
        PROVE  ReviewMeansAgreement'
    <3> DEFINE agreeing == FreshPeers(timed, now)
    <3>1. Open(gc')
      BY <2>8, <2>9 DEF Open
    <3>2. /\ Enough(timed, now) /\ timed.last_clock = now /\ HeardInv'
          /\ timed.slots = gc'.slots /\ gc'.last_clock = now
      BY <2>2, <2>5, <2>6, <2>7, <2>8, <2>9, <3>1
    <3>3. /\ agreeing \in SUBSET DOMAIN gc'.slots
          /\ Cardinality(agreeing) >= Round.threshold
          /\ Round.required_roles \subseteq {Round.peers[i].role : i \in agreeing}
          /\ \A i \in agreeing : /\ gc'.slots[i].seen
                                 /\ gc'.last_clock - gc'.slots[i].received_at <= Round.max_age
      BY <3>2 DEF Enough, FreshPeers
    <3>4. agreeing # {}
      BY <1>5, <3>3 DEF RoundInv
    <3> HIDE DEF agreeing
    <3>5. \A i \in agreeing : gc'.slots[i].report.commitment \in heard'
      BY <3>2, <3>3 DEF HeardInv
    <3>6. PICK h \in heard' : heard' = {h}
      BY <3>2, <3>4, <3>5 DEF HeardInv
    <3>7. Cardinality({h}) = 1
      BY FS_Singleton, Zenon
    <3> QED
      BY <3>3, <3>5, <3>6, <3>7 DEF ReviewMeansAgreement
  <2> QED
    BY <1>3, <1>5, <2>5, <2>6, <2>7, <2>8, <2>9
    DEF RoundInv, RoundTypeOK, ReviewMeansAgreement
<1> QED
  BY <1>4, <1>5

(* A lost link takes a peer from the count, not its commitment from what   *)
(* was heard.                                                              *)
LEMMA LinkLost ==
  ASSUME RoundInv, LoseLink
  PROVE  RoundInv' /\ (gc.conflict_present => gc'.conflict_present)
<1>1. PICK id \in PeerIds \cup {0}, clock \in Readings :
        /\ gc.state # "UNCONFIGURED"
        /\ gc' = gc_link_loss(gc, peer_index(gc, id), clock[1], clock[2])
        /\ review' = NoReview
        /\ UNCHANGED heard
  BY DEF LoseLink
<1> DEFINE now == clock[1]
           good == clock[2]
           i == peer_index(gc, id)
           timed == clock_check(gc, now, good)
<1>2. now \in Int /\ good \in BOOLEAN /\ gc \in Contexts
  BY ReadingTypes DEF RoundInv, RoundTypeOK
<1>3. gc' = gc_link_loss(gc, i, now, good)
  BY <1>1
<1> HIDE DEF now, good, i
<1>4. /\ timed \in Contexts /\ timed.slots = gc.slots
      /\ timed.conflict_present = gc.conflict_present
      /\ clock_ok(gc, now, good) => timed.state = gc.state /\ timed.last_clock = now
      /\ ~clock_ok(gc, now, good) => timed = gc_require_rejoin(gc)
  BY <1>2, ClockChecked
<1>5. CASE i \notin DOMAIN gc.slots
  <2>1. gc' = gc
    BY <1>3, <1>5 DEF gc_link_loss
  <2> QED
    BY <1>1, <1>2, <2>1, UnreviewedStep DEF RoundInv, HeardInv
<1>6. CASE i \in DOMAIN gc.slots /\ ~clock_ok(gc, now, good)
  <2>1. gc' = gc_require_rejoin(gc)
    BY <1>1, <1>3, <1>4, <1>6 DEF gc_link_loss
  <2>2. /\ gc' \in Contexts /\ gc'.state \in {"CONFLICT_LATCHED", "REJOIN_REQUIRED"}
        /\ gc'.conflict_present = gc.conflict_present
        /\ gc.state = "CONFLICT_LATCHED" => gc' = gc
    BY <1>1, <1>2, <2>1, RejoinRequired
  <2> QED
    BY <1>1, <2>2, UnreviewedStep DEF RoundInv, Open
<1>7. CASE i \in DOMAIN gc.slots /\ clock_ok(gc, now, good)
  <2> DEFINE cut == [timed EXCEPT !.slots[i].available = FALSE]
  <2>1. gc' = evaluate(cut, now)
    BY <1>1, <1>3, <1>7 DEF gc_link_loss
  <2> HIDE DEF timed
  <2>2. gc.slots \in [DOMAIN gc.slots -> PeerSlots]
    BY <1>2, <1>7 DEF Contexts, SlotTables
  <2> DEFINE table == [gc.slots EXCEPT ![i].available = FALSE]
  <2>3. /\ DOMAIN table = DOMAIN gc.slots
        /\ table \in [DOMAIN gc.slots -> PeerSlots]
        /\ \A k \in DOMAIN table : /\ table[k].seen = gc.slots[k].seen
                                  /\ table[k].report = gc.slots[k].report
    BY <1>7, <2>2 DEF PeerSlots
  <2>4. table \in SlotTables
    BY <1>2, <1>7, <2>3 DEF Contexts, SlotTables
  <2>5. cut = [timed EXCEPT !.slots = table]
    BY <1>4 DEF Contexts
  <2> HIDE DEF table, cut
  <2>6. /\ cut \in Contexts /\ cut.slots = table /\ cut.state = gc.state
        /\ cut.conflict_present = gc.conflict_present
    BY <1>4, <1>7, <2>4, <2>5 DEF Contexts
  <2>7. /\ gc' \in Contexts /\ gc'.slots = table
        /\ gc'.conflict_present = gc.conflict_present
        /\ ~Open(gc) => gc'.state = gc.state
        /\ Open(gc) => Open(gc')
    BY <2>1, <2>6, Evaluated DEF Open
  <2>8. gc'.state # "UNCONFIGURED"
    BY <1>1, <2>7 DEF Open
  <2>9. gc'.conflict_present => gc'.state = "CONFLICT_LATCHED"
    BY <2>7 DEF RoundInv, Open
  <2>10. Open(gc') => HeardInv'
    <3> SUFFICES ASSUME Open(gc') PROVE HeardInv'
      OBVIOUS
    <3>1. HeardInv
      BY <2>7 DEF RoundInv, Open
    <3> QED
      BY <1>1, <2>3, <2>7, <3>1 DEF HeardInv
  <2> QED
    BY <1>1, <2>7, <2>8, <2>9, <2>10, UnreviewedStep
<1> QED
  BY <1>5, <1>6, <1>7

(* A report is entered when it agrees with all that was heard, and         *)
(* otherwise latches the conflict.                                         *)
LEMMA ReportSubmitted ==
  ASSUME RoundInv, SubmitReport
  PROVE  RoundInv' /\ (gc.conflict_present => gc'.conflict_present)
<1> DEFINE sent(said) ==
             [generation |-> Round.generation, policy |-> Round.policy,
              profile |-> Round.profile, round |-> said.round,
              claims_actuation |-> said.claims, commitment |-> said.commitment]
           ack(said, n) ==
             [generation |-> Round.generation, policy |-> Round.policy,
              profile |-> Round.profile, round |-> Round.round,
              observation_epoch |-> 1, observation_sequence |-> n,
              commitment |-> said.commitment]
           matches(said) ==
             \E a \in gc_ack_decode(gc_ack_encode(ack(said, said.acked))) :
               gc_ack_match(a, ack(said, 1)) = "OK"
<1>1. PICK said \in Reports :
      \E o \in gc_wire_decode(gc_wire_encode(sent(said))) :
      \E r \in {[epoch |-> said.epoch, sequence |-> said.sequence,
                  same_round_ack |-> IF matches(said) THEN 1 ELSE 0,
                  commitment |-> o.commitment]},
         id \in PeerIds \cup {0}, clock \in Readings :
           /\ gc' = gc_submit(gc, peer_index(gc, id), o, r, clock[1], clock[2])
           /\ heard' = IF gc_submit_result(gc, peer_index(gc, id), o, r, clock[1], clock[2])
                            \in {"OK", "CONFLICT"}
                         THEN heard \cup {said.commitment} ELSE heard
  BY DEF SubmitReport
<1>2. PICK o \in gc_wire_decode(gc_wire_encode(sent(said))) :
      \E r \in {[epoch |-> said.epoch, sequence |-> said.sequence,
                  same_round_ack |-> IF matches(said) THEN 1 ELSE 0,
                  commitment |-> o.commitment]},
         id \in PeerIds \cup {0}, clock \in Readings :
           /\ gc' = gc_submit(gc, peer_index(gc, id), o, r, clock[1], clock[2])
           /\ heard' = IF gc_submit_result(gc, peer_index(gc, id), o, r, clock[1], clock[2])
                            \in {"OK", "CONFLICT"}
                         THEN heard \cup {said.commitment} ELSE heard
  BY <1>1
<1>3. PICK r \in {[epoch |-> said.epoch, sequence |-> said.sequence,
                  same_round_ack |-> IF matches(said) THEN 1 ELSE 0,
                  commitment |-> o.commitment]},
         id \in PeerIds \cup {0}, clock \in Readings :
           /\ gc' = gc_submit(gc, peer_index(gc, id), o, r, clock[1], clock[2])
           /\ heard' = IF gc_submit_result(gc, peer_index(gc, id), o, r, clock[1], clock[2])
                            \in {"OK", "CONFLICT"}
                         THEN heard \cup {said.commitment} ELSE heard
  BY <1>2
<1>4. gc.state # "UNCONFIGURED" /\ review' = NoReview
  BY DEF SubmitReport
<1>5. o.commitment = said.commitment
  BY CommitmentTravels
<1> DEFINE ackbit == IF matches(said) THEN 1 ELSE 0
<1>6. ackbit \in {0, 1}
  OBVIOUS
<1> HIDE DEF ackbit
<1>7. r \in SlotReports /\ r.commitment = said.commitment
  BY <1>3, <1>5, <1>6 DEF SlotReports, ackbit
<1> HIDE DEF sent, ack, matches
<1> DEFINE now == clock[1]
           good == clock[2]
           i == peer_index(gc, id)
           timed == clock_check(gc, now, good)
           result == gc_submit_result(gc, i, o, r, now, good)
<1>8. now \in Int /\ good \in BOOLEAN /\ gc \in Contexts
  BY ReadingTypes DEF RoundInv, RoundTypeOK
<1>9. /\ gc' = gc_submit(gc, i, o, r, now, good)
      /\ heard' = IF result \in {"OK", "CONFLICT"} THEN heard \cup {said.commitment}
                  ELSE heard
  BY <1>3
<1> HIDE DEF now, good, i
<1>10. /\ timed \in Contexts /\ timed.slots = gc.slots
       /\ timed.conflict_present = gc.conflict_present
       /\ clock_ok(gc, now, good) => timed.state = gc.state /\ timed.last_clock = now
       /\ ~clock_ok(gc, now, good) => timed = gc_require_rejoin(gc)
  BY <1>8, ClockChecked
<1>11. CASE result = "REJECTED"
  <2>1. gc' = gc /\ heard' = heard
    BY <1>9, <1>11 DEF gc_submit
  <2> QED
    BY <1>4, <1>8, <2>1, UnreviewedStep DEF RoundInv, HeardInv
<1>12. CASE result = "CLOCK_FAILURE"
  <2>1. gc' = timed /\ ~clock_ok(gc, now, good)
    BY <1>9, <1>12 DEF gc_submit, gc_submit_result
  <2>2. /\ gc' \in Contexts /\ gc'.state \in {"CONFLICT_LATCHED", "REJOIN_REQUIRED"}
        /\ gc'.conflict_present = gc.conflict_present
        /\ gc.state = "CONFLICT_LATCHED" => gc' = gc
    BY <1>4, <1>8, <1>10, <2>1, RejoinRequired
  <2> QED
    BY <1>4, <2>2, UnreviewedStep DEF RoundInv, Open
<1>13. CASE result = "LATCHED"
  <2>1. /\ gc' = timed /\ clock_ok(gc, now, good)
        /\ gc.state \in {"CONFLICT_LATCHED", "REJOIN_REQUIRED"}
    BY <1>9, <1>13 DEF gc_submit, gc_submit_result
  <2> QED
    BY <1>4, <1>10, <2>1, UnreviewedStep DEF RoundInv, Open
<1>14. CASE result = "EPOCH_CHANGE"
  <2>1. /\ gc' = gc_require_rejoin(timed) /\ clock_ok(gc, now, good)
        /\ gc.state \notin {"CONFLICT_LATCHED", "REJOIN_REQUIRED"}
    BY <1>9, <1>14 DEF gc_submit, gc_submit_result
  <2>2. /\ gc' \in Contexts /\ gc'.state \in {"CONFLICT_LATCHED", "REJOIN_REQUIRED"}
        /\ gc'.conflict_present = gc.conflict_present
    BY <1>4, <1>10, <2>1, RejoinRequired
  <2> QED
    BY <1>4, <2>1, <2>2, UnreviewedStep DEF RoundInv, Open
<1>15. CASE result = "CONFLICT"
  <2>1. gc' = [timed EXCEPT !.state = "CONFLICT_LATCHED", !.conflict_present = TRUE]
    BY <1>9, <1>15 DEF gc_submit
  <2>2. gc' \in Contexts /\ gc'.state = "CONFLICT_LATCHED" /\ gc'.conflict_present
    BY <1>10, <2>1 DEF Contexts, ROUND_STATES
  <2> QED
    BY <1>4, <2>2, UnreviewedStep DEF Open
<1>16. CASE result = "OK"
  <2> DEFINE slot == [report |-> r, received_at |-> now, seen |-> TRUE, available |-> TRUE]
             stored == [timed EXCEPT !.slots[i] = slot]
             table == [gc.slots EXCEPT ![i] = slot]
  <2>1. /\ gc' = evaluate(stored, now) /\ heard' = heard \cup {said.commitment}
        /\ i \in DOMAIN gc.slots /\ clock_ok(gc, now, good) /\ Open(gc)
        /\ ~contradicted(gc, r.commitment)
    <3>1. gc' = evaluate(stored, now) /\ heard' = heard \cup {said.commitment}
      BY <1>9, <1>16 DEF gc_submit
    <3>2. /\ i \in DOMAIN gc.slots /\ clock_ok(gc, now, good)
          /\ gc.state \notin {"CONFLICT_LATCHED", "REJOIN_REQUIRED", "UNCONFIGURED"}
          /\ ~contradicted(gc, r.commitment)
      BY <1>16 DEF gc_submit_result
    <3> QED
      BY <1>8, <3>1, <3>2 DEF Contexts, ROUND_STATES, Open
  <2> HIDE DEF timed
  <2>2. slot \in PeerSlots /\ slot.seen /\ slot.report.commitment = said.commitment
    BY <1>7, <1>8 DEF PeerSlots
  <2> HIDE DEF slot
  <2>3. gc.slots \in [DOMAIN gc.slots -> PeerSlots]
    BY <1>8, <2>1 DEF Contexts, SlotTables
  <2>4. /\ DOMAIN table = DOMAIN gc.slots
        /\ table \in [DOMAIN gc.slots -> PeerSlots]
        /\ table[i] = slot
        /\ \A k \in DOMAIN table : k # i => table[k] = gc.slots[k]
    BY <2>1, <2>2, <2>3
  <2>5. table \in SlotTables
    BY <1>8, <2>1, <2>4 DEF Contexts, SlotTables
  <2>6. stored = [timed EXCEPT !.slots = table]
    BY <1>10 DEF Contexts
  <2> HIDE DEF table, stored
  <2>7. /\ stored \in Contexts /\ stored.slots = table /\ Open(stored)
        /\ stored.conflict_present = gc.conflict_present
    BY <1>10, <2>1, <2>5, <2>6 DEF Contexts, Open
  <2>8. /\ gc' \in Contexts /\ gc'.slots = table /\ Open(gc')
        /\ gc'.conflict_present = gc.conflict_present
    BY <2>1, <2>7, Evaluated
  <2>9. HeardInv
    BY <2>1 DEF RoundInv
  <2>10. \A k \in DOMAIN gc.slots :
           gc.slots[k].seen => gc.slots[k].report.commitment = said.commitment
    BY <1>7, <2>1 DEF contradicted
  <2>11. heard' = {said.commitment}
    BY <2>1, <2>9, <2>10 DEF HeardInv
  <2>12. HeardInv'
    BY <2>1, <2>2, <2>4, <2>8, <2>10, <2>11 DEF HeardInv
  <2> QED
    BY <1>4, <2>1, <2>8, <2>12, UnreviewedStep DEF RoundInv, Open
<1>17. result \in {"REJECTED", "CLOCK_FAILURE", "LATCHED", "EPOCH_CHANGE", "CONFLICT", "OK"}
  BY DEF gc_submit_result
<1> QED
  BY <1>11, <1>12, <1>13, <1>14, <1>15, <1>16, <1>17

(* Every operation of the round keeps the invariant.                       *)
LEMMA RoundSteps ==
  ASSUME RoundInv, RoundNext \/ UNCHANGED roundVars
  PROVE  RoundInv'
<1>1. CASE UNCHANGED roundVars
  BY <1>1 DEF roundVars, RoundInv, RoundTypeOK, HeardInv, ReviewMeansAgreement
<1> QED
  BY <1>1, RoundConfigures, RoundResets, ReportSubmitted, RoundQueried, LinkLost DEF RoundNext

(* After a conflict nothing but a reset opens the round.                   *)
LEMMA ConflictHeld ==
  ASSUME RoundInv, RoundNext, gc.conflict_present
  PROVE  \/ gc' = gc_init
         \/ gc'.state = "CONFLICT_LATCHED" /\ ~review'.eligible_for_local_review
<1>1. gc.state = "CONFLICT_LATCHED" /\ ~review.eligible_for_local_review
  BY DEF RoundInv
<1>2. CASE ConfigureRound
  BY <1>1, <1>2 DEF ConfigureRound, gc_configure, gc_configure_result
<1>3. CASE ResetRound
  BY <1>3 DEF ResetRound
<1>4. CASE SubmitReport \/ QueryRound \/ LoseLink
  <2>1. RoundInv' /\ gc'.conflict_present
    BY <1>4, ReportSubmitted, RoundQueried, LinkLost
  <2> QED
    BY <2>1 DEF RoundInv
<1> QED
  BY <1>2, <1>3, <1>4 DEF RoundNext
---------------------------------------------------------------------------
(* The ingress transaction.                                                *)

(* The types of the transaction.                                           *)
IngressTypeOK ==
  /\ x \in [mode : {"HOLD", "READY", "PREPARED"}, live : IngressStates,
            proposed : IngressStates, digest : IngressStates,
            wire : Wires \cup {<< >>}, kind : {0, OBSERVATION, ACK}, clock_floor : Nat]
  /\ slots \in [0 .. 1 -> IngressStates \cup {Torn}]
  /\ anchor \in [revision : Nat, digest : IngressStates]
  /\ call \in [pc : {"idle", "stage", "advance", "readback"}, rec : IngressStates]
  /\ times \in [{OBSERVATION, ACK} \X (1 .. REVISION_MAX) -> 0 .. 1]

(* The sequence number of the last accepted message of a kind.             *)
Cursor(s, kind) == IF kind = OBSERVATION THEN s.obs_sequence ELSE s.ack_sequence

(* p continues s by the message of kind k on wire w, or, for kind 0, by a  *)
(* pending request.                                                        *)
Follows(s, p, k, w) ==
  /\ p.revision = s.revision + 1
  /\ p.last_time >= s.last_time
  /\ k = 0 => /\ p.obs_sequence = s.obs_sequence
              /\ p.ack_sequence = s.ack_sequence
              /\ ~p.eligible
  /\ k # 0 => w \in Wires /\ Genuine(w) /\ w.says.type = k
  /\ k = OBSERVATION => /\ p.obs_sequence = w.says.sequence
                        /\ p.obs_sequence > s.obs_sequence
                        /\ p.ack_sequence = s.ack_sequence
                        /\ ~p.eligible
  /\ k = ACK => /\ p.ack_sequence = w.says.sequence
                /\ p.ack_sequence > s.ack_sequence
                /\ p.obs_sequence = s.obs_sequence
                /\ w.says.payload.ref = s.local /\ p.local = s.local
                /\ s.pending /\ s.has_report /\ p.deadline = s.deadline

(* The commit is between its check and its acknowledged advance.           *)
InFlight == call.pc \in {"stage", "advance"}

(* A context that may be used names the anchored record, and what it has   *)
(* prepared continues it.                                                  *)
LiveInv ==
  /\ x.mode \in {"READY", "PREPARED"} \/ InFlight =>
       x.live = anchor.digest /\ x.digest = anchor.digest
  /\ call.pc # "idle" => x.mode = "HOLD"
  /\ x.mode = "PREPARED" => Follows(x.live, x.proposed, x.kind, x.wire)

(* The record in flight continues the anchored one, is in its slot before  *)
(* the anchor names it, its peer is still admitted, and its message was    *)
(* not accepted before.                                                    *)
FlightInv ==
  /\ InFlight => /\ Follows(x.live, call.rec, x.kind, x.wire)
                 /\ encodable(call.rec) /\ Admitted
  /\ call.pc = "advance" => slots[call.rec.revision % 2] = call.rec
  /\ call.pc = "readback" =>
       /\ anchor = [revision |-> call.rec.revision, digest |-> call.rec]
       /\ x.kind # 0 =>
            /\ x.wire.says.sequence = Cursor(call.rec, x.kind)
            /\ << x.kind, x.wire.says.sequence >> \in DOMAIN times =>
                 times[<< x.kind, x.wire.says.sequence >>] = 0

(* An accepted message is not above the cursor of the anchored record.     *)
CountInv ==
  \A m \in DOMAIN times : times[m] = 1 => m[2] <= Cursor(anchor.digest, m[1])

(* The inductive invariant of the transaction.                             *)
IngressInv ==
  IngressTypeOK /\ AnchorNamesARecord /\ LiveInv /\ FlightInv /\ CountInv

(* The transaction starts on hold over the anchored genesis record.        *)
LEMMA IngressStarts == IngressInit => IngressInv
<1> SUFFICES ASSUME IngressInit PROVE IngressInv
  OBVIOUS
<1>1. Genesis \in IngressStates /\ Genesis.revision = 0 /\ state_ok(Genesis)
  BY DEF Genesis, IngressStates, state_ok
<1>2. config_ok(Config) /\ Torn \notin IngressStates
  BY IngressConstants
<1> HIDE DEF Genesis
<1>3. IngressTypeOK
  <2>1. x \in [mode : {"HOLD", "READY", "PREPARED"}, live : IngressStates,
            proposed : IngressStates, digest : IngressStates,
            wire : Wires \cup {<< >>}, kind : {0, OBSERVATION, ACK}, clock_floor : Nat]
    BY <1>1 DEF IngressInit, gi_init
  <2>2. slots \in [0 .. 1 -> IngressStates \cup {Torn}]
    BY <1>1 DEF IngressInit
  <2>3. anchor \in [revision : Nat, digest : IngressStates] /\ anchor.digest = Genesis
    BY <1>1 DEF IngressInit
  <2>4. call \in [pc : {"idle", "stage", "advance", "readback"}, rec : IngressStates]
    BY <1>1 DEF IngressInit, NoCall
  <2>5. times \in [{OBSERVATION, ACK} \X (1 .. REVISION_MAX) -> 0 .. 1]
    BY DEF IngressInit
  <2> QED
    BY <2>1, <2>2, <2>3, <2>4, <2>5 DEF IngressTypeOK
<1>4. AnchorNamesARecord
  BY <1>1, <1>2 DEF IngressInit, AnchorNamesARecord, decodes, encodable
<1>5. LiveInv /\ FlightInv
  BY DEF IngressInit, LiveInv, FlightInv, InFlight, NoCall, gi_init
<1>6. CountInv
  BY DEF IngressInit, CountInv
<1> QED
  BY <1>3, <1>4, <1>5, <1>6 DEF IngressInv

(* What passes authentication and semantics was sent by the peer.          *)
LEMMA AuthenticIsGenuine ==
  ASSUME NEW wire, registry_ok(peerRegistry),
         gsea_verify(peerRegistry, wire) = "GSEA_OK", semantics(wire.says)
  PROVE  Genuine(wire) /\ wire.says.type \in {OBSERVATION, ACK}
<1> DEFINE e == wire.says
           known == {i \in DOMAIN peerRegistry.peers : SamePeer(peerRegistry.peers[i], e)}
           p == peerRegistry.peers[CHOOSE i \in known : TRUE]
<1>1. gse_decode(wire).result = "GSE_OK"
  BY DEF gsea_verify
<1>2. gse_decode(wire) = [result |-> "GSE_OK", envelope |-> e] /\ valid(e)
  BY <1>1 DEF gse_decode, Failure
<1>3. gse_decode(wire).envelope = e
  BY <1>2
<1>4. known # {} /\ ed25519_check(e.signature, p.public_key, gse_transcript(e).bytes)
  BY <1>3 DEF gsea_verify
<1>5. p.public_key = Config.public_key
  <2>1. SamePeer(e, Config)
    BY DEF semantics
  <2>2. \A i \in known : peerRegistry.peers[i].public_key = Config.public_key
    BY <2>1 DEF registry_ok, SamePeer
  <2> QED
    BY <1>4, <2>2
<1>6. gse_transcript(e).bytes = <<"V2", header(e), e.payload>>
  BY <1>2 DEF gse_transcript
<1>7. e.type \in {OBSERVATION, ACK}
  BY <1>2 DEF valid
<1> QED
  BY <1>4, <1>5, <1>6, <1>7 DEF Genuine, ed25519_check, semantics

(* The volatile context.                                                   *)
Ctx == [mode : {"HOLD", "READY", "PREPARED"}, live : IngressStates,
        proposed : IngressStates, digest : IngressStates,
        wire : Wires \cup {<< >>}, kind : {0, OBSERVATION, ACK}, clock_floor : Nat]

(* Between two commits a call moves only the context.                      *)
LEMMA ContextMoves ==
  ASSUME IngressInv, Idle, UNCHANGED << slots, anchor, call, times >>,
         x' \in Ctx,
         x'.mode \in {"READY", "PREPARED"} =>
           x'.live = anchor.digest /\ x'.digest = anchor.digest,
         x'.mode = "PREPARED" => Follows(x'.live, x'.proposed, x'.kind, x'.wire)
  PROVE  IngressInv'
<1>1. IngressTypeOK'
  BY DEF IngressInv, IngressTypeOK, Ctx
<1>2. AnchorNamesARecord'
  BY DEF IngressInv, AnchorNamesARecord
<1>3. LiveInv' /\ FlightInv'
  BY DEF LiveInv, FlightInv, InFlight, Idle
<1>4. CountInv'
  BY DEF IngressInv, CountInv
<1> QED
  BY <1>1, <1>2, <1>3, <1>4 DEF IngressInv

(* Installing the peer registry leaves the transaction alone.              *)
LEMMA RegistryInstalled ==
  ASSUME IngressInv, Configure \/ UNCHANGED ingressVars
  PROVE  IngressInv'
<1>1. /\ UNCHANGED << x, slots, anchor, call, times >>
      /\ call.pc = "idle" \/ UNCHANGED peerRegistry
  BY DEF Configure, ingressVars, Idle
<1>2. IngressTypeOK' /\ AnchorNamesARecord' /\ LiveInv' /\ CountInv'
  BY <1>1 DEF IngressInv, IngressTypeOK, AnchorNamesARecord, LiveInv, CountInv, InFlight
<1>3. FlightInv'
  BY <1>1 DEF IngressInv, FlightInv, InFlight, Admitted
<1> QED
  BY <1>2, <1>3 DEF IngressInv

(* Recovery makes live the record the anchor names, or stays on hold.      *)
LEMMA Recovered ==
  ASSUME IngressInv, Recover
  PROVE  IngressInv'
<1> DEFINE b == slots[anchor.revision % 2]
<1>1. PICK now \in Times, readable \in BOOLEAN :
        x' = IF /\ registry_ok(peerRegistry) /\ readable
                /\ decodes(b) /\ b.revision = anchor.revision
                /\ anchor.digest = b /\ now >= b.last_time
               THEN [x EXCEPT !.live = b, !.digest = b, !.mode = "READY",
                              !.clock_floor = now, !.wire = << >>]
               ELSE [x EXCEPT !.mode = "HOLD", !.wire = << >>]
  BY DEF Recover
<1>2. now \in Nat
  BY IngressConstants
<1>3. x \in Ctx /\ anchor.digest \in IngressStates
  BY DEF IngressInv, IngressTypeOK, Ctx
<1>4. x' \in Ctx
      /\ (x'.mode \in {"READY", "PREPARED"} =>
            x'.mode = "READY" /\ x'.live = anchor.digest /\ x'.digest = anchor.digest)
  <2>1. CASE x' = [x EXCEPT !.mode = "HOLD", !.wire = << >>]
    BY <1>3, <2>1 DEF Ctx
  <2>2. CASE /\ anchor.digest = b
             /\ x' = [x EXCEPT !.live = b, !.digest = b, !.mode = "READY",
                               !.clock_floor = now, !.wire = << >>]
    <3> HIDE DEF b
    <3> QED
      BY <1>2, <1>3, <2>2 DEF Ctx
  <2> QED
    BY <1>1, <2>1, <2>2
<1>5. Idle /\ UNCHANGED << slots, anchor, call, times >>
  BY DEF Recover
<1> QED
  BY <1>4, <1>5, ContextMoves

(* begin moves at most the mode, to HOLD, and the clock floor.             *)
LEMMA Begun ==
  ASSUME IngressInv, NEW now \in Times
  PROVE  LET b == begin(now)
         IN /\ b.ctx \in Ctx /\ b.ctx.live = x.live /\ b.ctx.digest = x.digest
            /\ b.ctx.proposed = x.proposed
            /\ b.ctx.kind = x.kind /\ b.ctx.wire = x.wire
            /\ b.ctx.mode \in {x.mode, "HOLD"}
            /\ b.ok => x.mode = "READY" /\ registry_ok(peerRegistry) /\ now >= x.live.last_time
<1>1. now \in Nat
  BY IngressConstants
<1>2. x \in Ctx
  BY DEF IngressInv, IngressTypeOK, Ctx
<1>3. x.live.last_time \in Nat
  BY <1>2 DEF Ctx, IngressStates
<1>4. x.mode # "READY" => begin(now) = [ok |-> FALSE, ctx |-> x]
  BY DEF begin
<1>5. x.mode = "READY" =>
        \/ begin(now) = [ok |-> FALSE, ctx |-> [x EXCEPT !.mode = "HOLD"]]
        \/ begin(now) = [ok |-> FALSE, ctx |-> [x EXCEPT !.mode = "HOLD", !.clock_floor = now]]
        \/ /\ begin(now) = [ok |-> TRUE, ctx |-> [x EXCEPT !.clock_floor = now]]
           /\ registry_ok(peerRegistry) /\ now >= x.live.last_time
  BY <1>1, <1>3 DEF begin
<1>6. CASE begin(now) = [ok |-> FALSE, ctx |-> x]
  BY <1>2, <1>6
<1>7. CASE begin(now) = [ok |-> FALSE, ctx |-> [x EXCEPT !.mode = "HOLD"]]
  BY <1>2, <1>7 DEF Ctx
<1>8. CASE begin(now) = [ok |-> FALSE, ctx |-> [x EXCEPT !.mode = "HOLD", !.clock_floor = now]]
  <2> DEFINE c == [x EXCEPT !.mode = "HOLD", !.clock_floor = now]
  <2>1. /\ c \in Ctx /\ c.live = x.live /\ c.digest = x.digest /\ c.proposed = x.proposed
        /\ c.kind = x.kind /\ c.wire = x.wire /\ c.mode = "HOLD"
    BY <1>1, <1>2 DEF Ctx
  <2> HIDE DEF c
  <2>2. begin(now).ctx = c /\ ~begin(now).ok
    BY <1>8 DEF c
  <2> QED
    BY <2>1, <2>2
<1>9. CASE x.mode = "READY" /\ begin(now) = [ok |-> TRUE, ctx |-> [x EXCEPT !.clock_floor = now]]
           /\ registry_ok(peerRegistry) /\ now >= x.live.last_time
  BY <1>1, <1>2, <1>9 DEF Ctx
<1> QED
  BY <1>4, <1>5, <1>6, <1>7, <1>8, <1>9

(* A call that only begins keeps the invariant.                            *)
LEMMA BegunOnly ==
  ASSUME IngressInv, Idle, UNCHANGED << slots, anchor, call, times >>,
         NEW now \in Times, x' = begin(now).ctx
  PROVE  IngressInv'
<1>1. /\ x' \in Ctx /\ x'.live = x.live /\ x'.digest = x.digest
      /\ x'.proposed = x.proposed
      /\ x'.kind = x.kind /\ x'.wire = x.wire /\ x'.mode \in {x.mode, "HOLD"}
  BY Begun
<1> QED
  BY <1>1, ContextMoves DEF IngressInv, LiveInv

(* A proposal that is accepted continues the live record.                  *)
LEMMA PreparedFollows ==
  ASSUME IngressInv, NEW wire \in Wires, NEW now \in Times,
         x.mode = "READY", registry_ok(peerRegistry), now >= x.live.last_time,
         gsea_verify(peerRegistry, wire) = "GSEA_OK", semantics(wire.says),
         proposal(wire.says, now) = "GI_OK"
  PROVE  LET p == proposed_state(x.live, wire.says, now)
         IN p \in IngressStates /\ Follows(x.live, p, wire.says.type, wire)
<1> DEFINE e == wire.says
           n == e.sequence
           s == x.live
           p == proposed_state(s, e, now)
<1>1. n \in Nat /\ now \in Nat
  BY IngressConstants
<1>2. Genuine(wire) /\ e.type \in {OBSERVATION, ACK}
  BY AuthenticIsGenuine
<1>3. s \in IngressStates
  BY DEF IngressInv, IngressTypeOK
<1>4. s.revision \in Nat /\ s.obs_sequence \in Nat /\ s.ack_sequence \in Nat
  BY <1>3 DEF IngressStates
<1> DEFINE next == s.revision + 1
<1>5. next \in Nat
  BY <1>4
<1>6. CASE e.type = OBSERVATION
  <2>1. p = [s EXCEPT !.obs_sequence = n, !.has_report = TRUE,
                      !.eligible = FALSE, !.last_time = now, !.revision = next]
    BY <1>6 DEF proposed_state
  <2>2. n > s.obs_sequence
    BY <1>1, <1>4, <1>6 DEF proposal
  <2> HIDE DEF next, n, s, p
  <2>3. /\ p \in IngressStates /\ p.revision = next /\ p.last_time = now
        /\ p.obs_sequence = n /\ p.ack_sequence = s.ack_sequence /\ ~p.eligible
    BY <1>1, <1>3, <1>5, <2>1 DEF IngressStates
  <2> QED
    BY <1>2, <1>6, <2>2, <2>3 DEF Follows, OBSERVATION, ACK, next, n, s, p
<1>7. CASE e.type = ACK
  <2>1. p = [s EXCEPT !.ack_sequence = n, !.pending = FALSE,
                      !.eligible = TRUE, !.last_time = now, !.revision = next]
    BY <1>7 DEF proposed_state, OBSERVATION, ACK
  <2>2. /\ n > s.ack_sequence /\ s.pending /\ s.has_report
        /\ e.payload.ref = s.local
    BY <1>1, <1>4, <1>7 DEF proposal, OBSERVATION, ACK
  <2> HIDE DEF next, n, s, p
  <2>3. /\ p \in IngressStates /\ p.revision = next /\ p.last_time = now
        /\ p.ack_sequence = n /\ p.obs_sequence = s.obs_sequence
        /\ p.local = s.local /\ p.deadline = s.deadline
    BY <1>1, <1>3, <1>5, <2>1 DEF IngressStates
  <2> QED
    BY <1>2, <1>7, <2>2, <2>3 DEF Follows, OBSERVATION, ACK, next, n, s, p
<1> QED
  BY <1>2, <1>6, <1>7

(* Preparing from the wire.                                                *)
LEMMA WirePrepared ==
  ASSUME IngressInv, Prepare
  PROVE  IngressInv'
<1>1. PICK wire \in Wires, now \in Times :
        x' = IF /\ begin(now).ok /\ gsea_verify(peerRegistry, wire) = "GSEA_OK"
                /\ semantics(wire.says) /\ proposal(wire.says, now) = "GI_OK"
               THEN [begin(now).ctx EXCEPT
                       !.proposed = proposed_state(x.live, wire.says, now),
                       !.kind = wire.says.type, !.wire = wire, !.mode = "PREPARED"]
               ELSE begin(now).ctx
  BY DEF Prepare
<1>2. Idle /\ UNCHANGED << slots, anchor, call, times >>
  BY DEF Prepare
<1>3. CASE x' = begin(now).ctx
  BY <1>2, <1>3, BegunOnly
<1>4. CASE x' # begin(now).ctx
  <2> DEFINE c == begin(now).ctx
             p == proposed_state(x.live, wire.says, now)
             k == wire.says.type
  <2>1. /\ begin(now).ok /\ gsea_verify(peerRegistry, wire) = "GSEA_OK"
        /\ semantics(wire.says) /\ proposal(wire.says, now) = "GI_OK"
        /\ x' = [c EXCEPT !.proposed = p, !.kind = k, !.wire = wire, !.mode = "PREPARED"]
    BY <1>1, <1>4
  <2>2. /\ c \in Ctx /\ c.live = x.live /\ c.digest = x.digest
        /\ x.mode = "READY" /\ registry_ok(peerRegistry) /\ now >= x.live.last_time
    BY <2>1, Begun
  <2>3. p \in IngressStates /\ Follows(x.live, p, k, wire) /\ k \in {OBSERVATION, ACK}
    BY <2>1, <2>2, PreparedFollows, AuthenticIsGenuine
  <2> HIDE DEF c, p, k
  <2>4. /\ x' \in Ctx /\ x'.live = x.live /\ x'.digest = x.digest
        /\ x'.proposed = p /\ x'.kind = k /\ x'.wire = wire
    BY <2>1, <2>2, <2>3 DEF Ctx
  <2>5. x.live = anchor.digest /\ x.digest = anchor.digest
    BY <2>2 DEF IngressInv, LiveInv
  <2> QED
    BY <1>2, <2>3, <2>4, <2>5, ContextMoves
<1> QED
  BY <1>3, <1>4

(* Preparing a pending request of the node itself.                         *)
LEMMA PendingPrepared ==
  ASSUME IngressInv, PreparePending
  PROVE  IngressInv'
<1> DEFINE prop(ref, deadline, now) ==
             [x.live EXCEPT !.local = ref, !.pending = TRUE, !.last_time = now,
                            !.deadline = deadline, !.revision = @ + 1]
<1>1. PICK ref \in LocalRefs, deadline \in Times, now \in Times :
        x' = IF /\ begin(now).ok
                /\ {0, REVISION_MAX} \cap {ref[1], ref[2]} = {}
                /\ deadline > now
                /\ ~x.live.pending /\ ~x.live.eligible
                /\ Before(x.live.local, ref)
               THEN [begin(now).ctx EXCEPT
                       !.proposed = prop(ref, deadline, now),
                       !.wire = << >>, !.kind = 0, !.mode = "PREPARED"]
               ELSE begin(now).ctx
  BY DEF PreparePending
<1>2. Idle /\ UNCHANGED << slots, anchor, call, times >>
  BY DEF PreparePending
<1>3. CASE x' = begin(now).ctx
  BY <1>2, <1>3, BegunOnly
<1>4. CASE x' # begin(now).ctx
  <2> DEFINE c == begin(now).ctx
             p == prop(ref, deadline, now)
             s == x.live
             next == s.revision + 1
  <2>1. /\ begin(now).ok /\ ~s.eligible
        /\ x' = [c EXCEPT !.proposed = p, !.wire = << >>, !.kind = 0, !.mode = "PREPARED"]
    BY <1>1, <1>4
  <2>2. /\ c \in Ctx /\ c.live = s /\ c.digest = x.digest
        /\ x.mode = "READY" /\ now >= s.last_time
    BY <2>1, Begun
  <2>3. now \in Nat /\ deadline \in Nat /\ ref \in Nat \X Nat
    BY IngressConstants
  <2>4. s \in IngressStates /\ s.revision \in Nat /\ next \in Nat
    <3>1. s \in IngressStates
      BY DEF IngressInv, IngressTypeOK
    <3> QED
      BY <3>1 DEF IngressStates
  <2>5. p = [s EXCEPT !.local = ref, !.pending = TRUE, !.last_time = now,
                      !.deadline = deadline, !.revision = next]
    OBVIOUS
  <2> HIDE DEF next, prop, p, s, c
  <2>6. /\ p \in IngressStates /\ p.revision = next /\ p.last_time = now
        /\ p.obs_sequence = s.obs_sequence /\ p.ack_sequence = s.ack_sequence
        /\ p.eligible = s.eligible
    BY <2>3, <2>4, <2>5 DEF IngressStates
  <2>7. Follows(s, p, 0, << >>)
    BY <2>1, <2>2, <2>6 DEF Follows, OBSERVATION, ACK, next
  <2>8. /\ x' \in Ctx /\ x'.live = s /\ x'.digest = x.digest
        /\ x'.proposed = p /\ x'.kind = 0 /\ x'.wire = << >>
    BY <2>1, <2>2, <2>6 DEF Ctx
  <2>9. s = anchor.digest /\ x.digest = anchor.digest
    BY <2>2 DEF IngressInv, LiveInv, s
  <2> QED
    BY <1>2, <2>7, <2>8, <2>9, ContextMoves
<1> QED
  BY <1>3, <1>4

(* The commit checks what was prepared and leaves the context on hold.     *)
LEMMA CommitChecked ==
  ASSUME IngressInv, CommitCheck
  PROVE  IngressInv'
<1>1. Idle /\ x.mode = "PREPARED" /\ UNCHANGED << peerRegistry, slots, anchor, times >>
  BY DEF CommitCheck
<1>2. PICK now \in Times :
        IF commit_check(x.proposed, now) = "GI_OK"
          THEN /\ x' = [x EXCEPT !.mode = "HOLD", !.clock_floor = now]
               /\ call' = [pc |-> "stage", rec |-> [x.proposed EXCEPT !.last_time = now]]
          ELSE /\ x' = [x EXCEPT !.mode = "HOLD"]
               /\ UNCHANGED call
  BY DEF CommitCheck
<1>3. x \in Ctx /\ now \in Nat
  BY IngressConstants DEF IngressInv, IngressTypeOK, Ctx
<1>4. CASE commit_check(x.proposed, now) # "GI_OK"
  <2>1. x' \in Ctx /\ x'.mode = "HOLD"
    BY <1>2, <1>3, <1>4 DEF Ctx
  <2> QED
    BY <1>1, <1>2, <1>4, <2>1, ContextMoves
<1>5. CASE commit_check(x.proposed, now) = "GI_OK"
  <2> DEFINE p == x.proposed
             rec == [p EXCEPT !.last_time = now]
  <2>1. /\ x' = [x EXCEPT !.mode = "HOLD", !.clock_floor = now]
        /\ call' = [pc |-> "stage", rec |-> rec]
    BY <1>2, <1>5
  <2>2. ~(now < p.last_time) /\ encodable(rec) /\ Admitted
    BY <1>5 DEF commit_check, Admitted
  <2>3. p \in IngressStates
    BY <1>3 DEF Ctx
  <2> HIDE DEF p
  <2>4. /\ rec \in IngressStates /\ rec.last_time >= p.last_time
        /\ rec.revision = p.revision /\ rec.obs_sequence = p.obs_sequence
        /\ rec.ack_sequence = p.ack_sequence /\ rec.eligible = p.eligible
        /\ rec.local = p.local /\ rec.deadline = p.deadline
    BY <1>3, <2>2, <2>3 DEF IngressStates
  <2> HIDE DEF rec
  <2>5. /\ x' \in Ctx /\ x'.mode = "HOLD" /\ x'.live = x.live /\ x'.digest = x.digest
        /\ x'.kind = x.kind /\ x'.wire = x.wire
    BY <1>3, <2>1 DEF Ctx
  <2>6. /\ x.live = anchor.digest /\ x.digest = anchor.digest
        /\ Follows(x.live, p, x.kind, x.wire)
    BY <1>1 DEF IngressInv, LiveInv, p
  <2>7. Follows(x.live, rec, x.kind, x.wire)
    <3>1. x.live.last_time \in Nat /\ p.last_time \in Nat /\ rec.last_time \in Nat
      BY <1>3, <2>3, <2>4 DEF Ctx, IngressStates
    <3> QED
      BY <2>4, <2>6, <3>1 DEF Follows
  <2>8. IngressTypeOK'
    BY <1>1, <2>1, <2>4, <2>5 DEF IngressInv, IngressTypeOK, Ctx
  <2>9. AnchorNamesARecord' /\ CountInv'
    BY <1>1 DEF IngressInv, AnchorNamesARecord, CountInv
  <2>10. LiveInv' /\ FlightInv'
    BY <1>1, <2>1, <2>2, <2>5, <2>6, <2>7 DEF LiveInv, FlightInv, InFlight, Admitted
  <2> QED
    BY <2>8, <2>9, <2>10 DEF IngressInv
<1> QED
  BY <1>4, <1>5

(* The record is staged beside the anchored one: their revisions differ by *)
(* one, so the two slots do too.                                           *)
LEMMA StagedBeside ==
  ASSUME IngressInv, call.pc = "stage"
  PROVE  /\ anchor.revision % 2 \in 0 .. 1 /\ call.rec.revision % 2 \in 0 .. 1
         /\ call.rec.revision % 2 # anchor.revision % 2
<1>1. /\ Follows(x.live, call.rec, x.kind, x.wire) /\ x.live = anchor.digest
  BY DEF IngressInv, FlightInv, LiveInv, InFlight
<1>2. anchor.digest.revision = anchor.revision
  BY DEF IngressInv, AnchorNamesARecord
<1>3. call.rec.revision = anchor.revision + 1
  BY <1>1, <1>2 DEF Follows
<1>4. anchor.revision \in Nat
  BY DEF IngressInv, IngressTypeOK
<1> QED
  BY <1>3, <1>4

(* Whatever staging leaves in the other slot, the anchored record stays.   *)
LEMMA StagingKeepsAnchored ==
  ASSUME IngressInv, call.pc = "stage", UNCHANGED anchor,
         slots' \in StageFault
  PROVE  /\ slots' \in [0 .. 1 -> IngressStates \cup {Torn}]
         /\ AnchorNamesARecord'
<1>1. /\ slots \in [0 .. 1 -> IngressStates \cup {Torn}] /\ call.rec \in IngressStates
  BY DEF IngressInv, IngressTypeOK
<1>2. /\ slots' \in [0 .. 1 -> IngressStates \cup {Torn}]
      /\ slots'[anchor.revision % 2] = slots[anchor.revision % 2]
  <2>1. CASE slots' = slots
    BY <1>1, <2>1
  <2>2. ASSUME NEW b \in {Torn, call.rec}, slots' = [slots EXCEPT ![call.rec.revision % 2] = b]
        PROVE  /\ slots' \in [0 .. 1 -> IngressStates \cup {Torn}]
               /\ slots'[anchor.revision % 2] = slots[anchor.revision % 2]
    BY <1>1, <2>2, StagedBeside
  <2> QED
    BY <2>1, <2>2 DEF StageFault, staged
<1> QED
  BY <1>2 DEF IngressInv, AnchorNamesARecord

(* Staging, with every fault of the slot it writes.                        *)
LEMMA RecordStaged ==
  ASSUME IngressInv, Stage
  PROVE  IngressInv'
<1>1. call.pc = "stage" /\ UNCHANGED << x, peerRegistry, anchor, times >>
  BY DEF Stage
<1>2. slots' \in StageFault
  BY DEF Stage, Staged, StageFault, staged
<1>3. slots' \in [0 .. 1 -> IngressStates \cup {Torn}] /\ AnchorNamesARecord'
  BY <1>1, <1>2, StagingKeepsAnchored
<1>4. CountInv'
  BY <1>1 DEF IngressInv, CountInv
<1>5. CASE slots' \in Staged /\ call' = [call EXCEPT !.pc = "advance"]
  <2>1. slots' = [slots EXCEPT ![call.rec.revision % 2] = call.rec]
    BY <1>5 DEF Staged, staged
  <2>2. slots'[call.rec.revision % 2] = call.rec
    BY <1>1, <2>1, StagedBeside DEF IngressInv, IngressTypeOK
  <2>3. /\ call' \in [pc : {"idle", "stage", "advance", "readback"}, rec : IngressStates]
        /\ call'.pc = "advance" /\ call'.rec = call.rec
    BY <1>5 DEF IngressInv, IngressTypeOK
  <2>4. IngressTypeOK'
    BY <1>1, <1>3, <2>3 DEF IngressInv, IngressTypeOK
  <2>5. LiveInv'
    BY <1>1, <2>3 DEF IngressInv, LiveInv, InFlight
  <2>6. FlightInv'
    BY <1>1, <2>2, <2>3 DEF IngressInv, FlightInv, InFlight, Admitted
  <2> QED
    BY <1>3, <1>4, <2>4, <2>5, <2>6 DEF IngressInv
<1>6. CASE call' = NoCall
  <2>1. Genesis \in IngressStates
    BY DEF Genesis, IngressStates
  <2>2. /\ call' \in [pc : {"idle", "stage", "advance", "readback"}, rec : IngressStates]
        /\ call'.pc = "idle"
    BY <1>6, <2>1 DEF NoCall
  <2>3. IngressTypeOK'
    BY <1>1, <1>3, <2>2 DEF IngressInv, IngressTypeOK
  <2>4. LiveInv' /\ FlightInv'
    BY <1>1, <2>2 DEF IngressInv, LiveInv, FlightInv, InFlight
  <2> QED
    BY <1>3, <1>4, <2>3, <2>4 DEF IngressInv
<1> QED
  BY <1>5, <1>6 DEF Stage

(* The compare-and-advance names the staged record.                        *)
LEMMA AdvanceNames ==
  ASSUME IngressInv, call.pc = "advance"
  PROVE  /\ advanced(x.live.revision, x.digest, call.rec) =
              [revision |-> call.rec.revision, digest |-> call.rec]
         /\ Follows(anchor.digest, call.rec, x.kind, x.wire)
         /\ encodable(call.rec) /\ Admitted
         /\ slots[call.rec.revision % 2] = call.rec
<1>1. /\ Follows(x.live, call.rec, x.kind, x.wire) /\ encodable(call.rec) /\ Admitted
      /\ x.live = anchor.digest /\ x.digest = anchor.digest
      /\ slots[call.rec.revision % 2] = call.rec
  BY DEF IngressInv, FlightInv, LiveInv, InFlight
<1>2. anchor.digest.revision = anchor.revision
  BY DEF IngressInv, AnchorNamesARecord
<1> QED
  BY <1>1, <1>2 DEF Follows, advanced

(* The anchor moves from the live record to the one in flight.             *)
LEMMA RecordNamed ==
  ASSUME IngressInv, call.pc = "advance", UNCHANGED << slots, times >>,
         anchor' = [revision |-> call.rec.revision, digest |-> call.rec]
  PROVE  /\ anchor' \in [revision : Nat, digest : IngressStates]
         /\ AnchorNamesARecord' /\ CountInv'
         /\ x.kind # 0 =>
              /\ x.wire.says.sequence = Cursor(call.rec, x.kind)
              /\ << x.kind, x.wire.says.sequence >> \in DOMAIN times =>
                   times[<< x.kind, x.wire.says.sequence >>] = 0
<1> DEFINE s == anchor.digest
           r == call.rec
<1>1. /\ Follows(s, r, x.kind, x.wire) /\ encodable(r) /\ slots[r.revision % 2] = r
  BY AdvanceNames
<1>2. /\ r \in IngressStates /\ s \in IngressStates /\ x.kind \in {0, OBSERVATION, ACK}
      /\ times \in [{OBSERVATION, ACK} \X (1 .. REVISION_MAX) -> 0 .. 1]
  BY DEF IngressInv, IngressTypeOK
<1>3. /\ r.revision \in Nat /\ r.obs_sequence \in Nat /\ r.ack_sequence \in Nat
      /\ s.obs_sequence \in Nat /\ s.ack_sequence \in Nat
  BY <1>2 DEF IngressStates
<1>4. anchor' \in [revision : Nat, digest : IngressStates] /\ anchor'.digest = r
      /\ anchor'.revision = r.revision
  BY <1>2, <1>3
<1>5. r # Torn
  BY <1>2, IngressConstants
<1>6. AnchorNamesARecord'
  BY <1>1, <1>4, <1>5 DEF AnchorNamesARecord, decodes, encodable
<1>7. \A k \in {OBSERVATION, ACK} : Cursor(s, k) <= Cursor(r, k)
  BY <1>1, <1>2, <1>3 DEF Follows, Cursor, OBSERVATION, ACK
<1>8. \A k \in {OBSERVATION, ACK} : Cursor(s, k) \in Nat /\ Cursor(r, k) \in Nat
  BY <1>3 DEF Cursor
<1>9. CountInv'
  <2> SUFFICES ASSUME NEW m \in DOMAIN times, times[m] = 1
               PROVE  m[2] <= Cursor(r, m[1])
    BY <1>4 DEF CountInv
  <2>1. m[1] \in {OBSERVATION, ACK} /\ m[2] \in 1 .. REVISION_MAX
    BY <1>2
  <2>2. m[2] <= Cursor(s, m[1])
    BY DEF IngressInv, CountInv
  <2>3. m[2] \in Int
    BY <2>1
  <2> QED
    BY <1>7, <1>8, <2>1, <2>2, <2>3
<1>10. ASSUME x.kind # 0
       PROVE  /\ x.wire.says.sequence = Cursor(r, x.kind)
              /\ Cursor(s, x.kind) < Cursor(r, x.kind)
  BY <1>1, <1>2, <1>3, <1>10 DEF Follows, Cursor, OBSERVATION, ACK
<1>11. ASSUME x.kind # 0, << x.kind, x.wire.says.sequence >> \in DOMAIN times
       PROVE  times[<< x.kind, x.wire.says.sequence >>] = 0
  <2> DEFINE m == << x.kind, x.wire.says.sequence >>
  <2>1. m[1] = x.kind /\ m[2] = Cursor(r, x.kind)
    BY <1>10, <1>11
  <2>2. times[m] = 1 => m[2] <= Cursor(s, m[1])
    BY <1>11 DEF IngressInv, CountInv
  <2>3. times[m] \in 0 .. 1
    BY <1>2, <1>11
  <2> HIDE DEF m
  <2>4. times[m] # 1
    BY <1>2, <1>8, <1>10, <1>11, <2>1, <2>2
  <2> QED
    BY <2>3, <2>4 DEF m
<1> QED
  BY <1>4, <1>6, <1>9, <1>10, <1>11

(* Advancing the anchor, with every answer it may give.                    *)
LEMMA AnchorAdvanced ==
  ASSUME IngressInv, Advance
  PROVE  IngressInv'
<1>1. call.pc = "advance" /\ UNCHANGED << x, slots, times >>
  BY DEF Advance
<1> DEFINE to == [revision |-> call.rec.revision, digest |-> call.rec]
<1>2. \/ anchor' = to /\ call' = [call EXCEPT !.pc = "readback"]
      \/ anchor' \in {anchor, to} /\ call' = NoCall
  BY <1>1, AdvanceNames DEF Advance
<1>3. x.mode = "HOLD"
  BY <1>1 DEF IngressInv, LiveInv
<1>4. CASE anchor' = to /\ call' = [call EXCEPT !.pc = "readback"]
  <2>1. /\ anchor' \in [revision : Nat, digest : IngressStates]
        /\ AnchorNamesARecord' /\ CountInv'
        /\ x.kind # 0 =>
              /\ x.wire.says.sequence = Cursor(call.rec, x.kind)
              /\ << x.kind, x.wire.says.sequence >> \in DOMAIN times =>
                   times[<< x.kind, x.wire.says.sequence >>] = 0
    BY <1>1, <1>4, RecordNamed
  <2>2. /\ call' \in [pc : {"idle", "stage", "advance", "readback"}, rec : IngressStates]
        /\ call'.pc = "readback" /\ call'.rec = call.rec
    BY <1>4 DEF IngressInv, IngressTypeOK
  <2>3. IngressTypeOK'
    BY <1>1, <2>1, <2>2 DEF IngressInv, IngressTypeOK
  <2>4. LiveInv'
    BY <1>1, <1>3, <2>2 DEF LiveInv, InFlight
  <2>5. FlightInv'
    BY <1>1, <1>4, <2>1, <2>2 DEF FlightInv, InFlight
  <2> QED
    BY <2>1, <2>3, <2>4, <2>5 DEF IngressInv
<1>5. CASE anchor' \in {anchor, to} /\ call' = NoCall
  <2>1. /\ anchor' \in [revision : Nat, digest : IngressStates]
        /\ AnchorNamesARecord' /\ CountInv'
    <3>1. CASE anchor' = to
      BY <1>1, <3>1, RecordNamed
    <3>2. CASE anchor' = anchor
      BY <1>1, <3>2 DEF IngressInv, IngressTypeOK, AnchorNamesARecord, CountInv
    <3> QED
      BY <1>5, <3>1, <3>2
  <2>2. /\ call' \in [pc : {"idle", "stage", "advance", "readback"}, rec : IngressStates]
        /\ call'.pc = "idle"
    BY <1>5 DEF NoCall, Genesis, IngressStates
  <2>3. IngressTypeOK'
    BY <1>1, <2>1, <2>2 DEF IngressInv, IngressTypeOK
  <2>4. LiveInv' /\ FlightInv'
    BY <1>1, <1>3, <2>2 DEF LiveInv, FlightInv, InFlight
  <2> QED
    BY <2>1, <2>3, <2>4 DEF IngressInv
<1> QED
  BY <1>2, <1>4, <1>5

(* The acknowledged record becomes the live one.                           *)
LEMMA ReadBack ==
  ASSUME IngressInv, Readback
  PROVE  IngressInv'
<1>1. call.pc = "readback" /\ call' = NoCall /\ UNCHANGED << slots, anchor >>
  BY DEF Readback
<1>2. /\ call' \in [pc : {"idle", "stage", "advance", "readback"}, rec : IngressStates]
      /\ call'.pc = "idle"
  BY <1>1 DEF NoCall, Genesis, IngressStates
<1>3. AnchorNamesARecord'
  BY <1>1 DEF IngressInv, AnchorNamesARecord
<1>4. FlightInv'
  BY <1>2 DEF FlightInv, InFlight
<1>5. CASE UNCHANGED << x, times >>
  <2>1. x.mode = "HOLD"
    BY <1>1 DEF IngressInv, LiveInv
  <2>2. IngressTypeOK'
    BY <1>1, <1>2, <1>5 DEF IngressInv, IngressTypeOK
  <2>3. LiveInv' /\ CountInv'
    BY <1>1, <1>2, <1>5, <2>1 DEF IngressInv, LiveInv, InFlight, CountInv
  <2> QED
    BY <1>3, <1>4, <2>2, <2>3 DEF IngressInv
<1>6. CASE ~UNCHANGED << x, times >>
  <2> DEFINE m == << x.kind, x.wire.says.sequence >>
             r == call.rec
  <2>1. /\ x' = [x EXCEPT !.live = r, !.digest = r, !.mode = "READY", !.wire = << >>]
        /\ times' = IF x.kind = 0 THEN times ELSE [times EXCEPT ![m] = @ + 1]
    BY <1>6 DEF Readback
  <2>2. /\ anchor.digest = r
        /\ x.kind # 0 => /\ m[2] = Cursor(r, m[1])
                         /\ m \in DOMAIN times => times[m] = 0
    BY <1>1 DEF IngressInv, FlightInv
  <2>3. /\ r \in IngressStates /\ x \in Ctx
        /\ times \in [{OBSERVATION, ACK} \X (1 .. REVISION_MAX) -> 0 .. 1]
    BY DEF IngressInv, IngressTypeOK, Ctx
  <2> HIDE DEF m, r
  <2>4. x' \in Ctx /\ x'.mode = "READY" /\ x'.live = r /\ x'.digest = r
    BY <2>1, <2>3 DEF Ctx
  <2>5. /\ times' \in [{OBSERVATION, ACK} \X (1 .. REVISION_MAX) -> 0 .. 1]
        /\ \A n \in DOMAIN times' : times'[n] = times[n] \/ (x.kind # 0 /\ n = m)
        /\ DOMAIN times' = DOMAIN times
    <3>1. CASE x.kind = 0
      BY <2>1, <2>3, <3>1
    <3>2. CASE x.kind # 0 /\ m \notin DOMAIN times
      BY <2>1, <2>3, <3>2
    <3>3. CASE x.kind # 0 /\ m \in DOMAIN times
      <4>1. times' = [times EXCEPT ![m] = times[m] + 1] /\ times[m] = 0
        BY <2>1, <2>2, <3>3
      <4> QED
        BY <2>3, <3>3, <4>1
    <3> QED
      BY <3>1, <3>2, <3>3
  <2>6. CountInv'
    BY <1>1, <2>2, <2>5 DEF IngressInv, CountInv
  <2>7. IngressTypeOK'
    BY <1>1, <1>2, <2>4, <2>5 DEF IngressInv, IngressTypeOK, Ctx
  <2>8. LiveInv'
    BY <1>1, <1>2, <2>2, <2>4 DEF LiveInv, InFlight
  <2> QED
    BY <1>3, <1>4, <2>6, <2>7, <2>8 DEF IngressInv
<1> QED
  BY <1>5, <1>6

(* Power loss at any point forgets the context and at most tears the slot  *)
(* in flight.                                                              *)
LEMMA PowerLost ==
  ASSUME IngressInv, PowerLoss
  PROVE  IngressInv'
<1>1. x' = gi_init /\ call' = NoCall /\ times' = times
  BY DEF PowerLoss
<1>2. Genesis \in IngressStates
  BY DEF Genesis, IngressStates
<1>3. x' \in Ctx /\ x'.mode = "HOLD"
  BY <1>1, <1>2 DEF gi_init, Ctx
<1>4. /\ call' \in [pc : {"idle", "stage", "advance", "readback"}, rec : IngressStates]
      /\ call'.pc = "idle"
  BY <1>1, <1>2 DEF NoCall
<1>5. LiveInv' /\ FlightInv'
  BY <1>3, <1>4 DEF LiveInv, FlightInv, InFlight
<1>6. /\ slots' \in [0 .. 1 -> IngressStates \cup {Torn}]
      /\ anchor' \in [revision : Nat, digest : IngressStates]
      /\ AnchorNamesARecord' /\ CountInv'
  <2>1. CASE call.pc = "stage"
    <3>1. slots' \in StageFault /\ anchor' = anchor
      BY <2>1 DEF PowerLoss
    <3>2. CountInv'
      BY <1>1, <3>1 DEF IngressInv, CountInv
    <3> QED
      BY <2>1, <3>1, <3>2, StagingKeepsAnchored DEF IngressInv, IngressTypeOK
  <2>2. CASE call.pc = "advance" /\ anchor' # anchor
    <3>1. /\ slots' = slots
          /\ anchor' = [revision |-> call.rec.revision, digest |-> call.rec]
      BY <2>2, AdvanceNames DEF PowerLoss
    <3> QED
      BY <1>1, <2>2, <3>1, RecordNamed DEF IngressInv, IngressTypeOK
  <2>3. CASE call.pc # "stage" /\ anchor' = anchor
    <3>1. slots' = slots
      BY <2>3 DEF PowerLoss
    <3> QED
      BY <1>1, <2>3, <3>1 DEF IngressInv, IngressTypeOK, AnchorNamesARecord, CountInv
  <2> QED
    BY <2>1, <2>2, <2>3 DEF PowerLoss
<1>7. IngressTypeOK'
  BY <1>1, <1>3, <1>4, <1>6 DEF IngressInv, IngressTypeOK, Ctx
<1> QED
  BY <1>5, <1>6, <1>7 DEF IngressInv

(* Every operation of the transaction keeps the invariant.                 *)
LEMMA IngressSteps ==
  ASSUME IngressInv, IngressNext \/ UNCHANGED ingressVars
  PROVE  IngressInv'
BY RegistryInstalled, Recovered, WirePrepared, PendingPrepared, CommitChecked,
   RecordStaged, AnchorAdvanced, ReadBack, PowerLost DEF IngressNext

(* What the invariant says of the durable state.                           *)
LEMMA TransactionSound == IngressInv => IngressSound
<1> SUFFICES ASSUME IngressInv PROVE IngressSound
  OBVIOUS
<1>1. SnapshotIsAnchored
  BY DEF IngressInv, LiveInv, SnapshotIsAnchored, gi_snapshot
<1>2. AcceptedOnce
  <2>1. times \in [{OBSERVATION, ACK} \X (1 .. REVISION_MAX) -> 0 .. 1]
    BY DEF IngressInv, IngressTypeOK
  <2> QED
    BY <2>1 DEF AcceptedOnce
<1> QED
  BY <1>1, <1>2 DEF IngressSound, IngressInv

(* A record that continues another by a genuine, admitted message is       *)
(* justified.                                                              *)
LEMMA FollowsIsJustified ==
  ASSUME NEW s \in IngressStates, NEW p \in IngressStates,
         Follows(s, p, x.kind, x.wire), encodable(p), Admitted,
         x.kind \in {0, OBSERVATION, ACK}
  PROVE  Justified(s, p)
<1>1. /\ s.obs_sequence \in Nat /\ s.ack_sequence \in Nat /\ s.last_time \in Nat
      /\ p.obs_sequence \in Nat /\ p.ack_sequence \in Nat /\ p.last_time \in Nat
      /\ p.deadline \in Nat
  BY DEF IngressStates
<1>2. p.eligible => p.deadline > p.last_time
  BY DEF encodable, state_ok
<1>3. CASE x.kind = 0
  BY <1>1, <1>3 DEF Follows, Justified, OBSERVATION, ACK
<1>4. CASE x.kind = OBSERVATION
  BY <1>1, <1>4 DEF Follows, Justified, OBSERVATION, ACK
<1>5. CASE x.kind = ACK
  BY <1>1, <1>2, <1>5 DEF Follows, Justified, OBSERVATION, ACK
<1> QED
  BY <1>3, <1>4, <1>5

(* The anchor only moves to a justified record.                            *)
LEMMA OnlyJustified ==
  ASSUME IngressInv, IngressNext, anchor' # anchor
  PROVE  Justified(anchor.digest, anchor'.digest)
<1>1. call.pc = "advance" /\ anchor' = advanced(x.live.revision, x.digest, call.rec)
  BY DEF IngressNext, Configure, Recover, Prepare, PreparePending, CommitCheck, Stage,
         Advance, Readback, PowerLoss
<1>2. /\ anchor'.digest = call.rec
      /\ Follows(anchor.digest, call.rec, x.kind, x.wire) /\ encodable(call.rec)
      /\ Admitted
  BY <1>1, AdvanceNames
<1>3. /\ anchor.digest \in IngressStates /\ call.rec \in IngressStates
      /\ x.kind \in {0, OBSERVATION, ACK}
  BY DEF IngressInv, IngressTypeOK
<1> QED
  BY <1>2, <1>3, FollowsIsJustified, SMTT(20)
---------------------------------------------------------------------------
(* The network.                                                            *)

(* The inductive invariant of the network.                                 *)
NetworkInv == RegistryInv /\ SamplingInv /\ ChainInv /\ RoundInv /\ IngressInv

(* Every behaviour of the network keeps the invariant of each part:        *)
(* the registry's, the measurement node's, signed evidence's, the          *)
(* corroboration round's and the ingress transaction's.                    *)
THEOREM NetworkInvariant == NetworkSpec => []NetworkInv
<1>1. NetworkInit => NetworkInv
  <2>1. NetworkInit => RegistryInv
    BY DEF NetworkInit, registry_init, RegistryInv
  <2> QED
    BY <2>1, SamplingStarts, ChainStarts, RoundStarts, IngressStarts
    DEF NetworkInit, NetworkInv
<1>2. NetworkInv /\ [NetworkNext]_networkVars => NetworkInv'
  <2> SUFFICES ASSUME NetworkInv, [NetworkNext]_networkVars
               PROVE  NetworkInv'
    OBVIOUS
  <2>1. RegistryInv'
    BY PartsMove, Registers DEF NetworkInv
  <2>2. SamplingInv'
    BY PartsMove, SamplingSteps DEF NetworkInv
  <2>3. ChainInv'
    BY PartsMove, ChainSteps DEF NetworkInv
  <2>4. RoundInv'
    BY PartsMove, RoundSteps DEF NetworkInv
  <2>5. IngressInv'
    BY PartsMove, IngressSteps DEF NetworkInv
  <2> QED
    BY <2>1, <2>2, <2>3, <2>4, <2>5 DEF NetworkInv
<1> QED
  BY <1>1, <1>2, PTL DEF NetworkSpec

(* Whoever asks to be registered and in whatever order, at most one        *)
(* registered node may request actuation, and a registry that              *)
(* validate_complete_topology accepts has exactly one.                     *)
THEOREM AtMostOneActuator == NetworkSpec => []OneActuator
<1>1. NetworkInv => OneActuator
  BY OneControlNode DEF NetworkInv
<1> QED
  BY <1>1, NetworkInvariant, PTL

(* The measurement node hands out observations whose sequence numbers and  *)
(* timestamps strictly increase, for ever: the saturated sample counter    *)
(* never reads zero again, so accept_sample never skips the regression     *)
(* check.                                                                  *)
THEOREM ObservationsOrdered == NetworkSpec => []ObservationsInOrder
<1>1. NetworkInv => ObservationsInOrder
  BY DEF NetworkInv, SamplingInv
<1> QED
  BY <1>1, NetworkInvariant, PTL

(* Since it was configured the witness has signed no sequence number of an *)
(* identity's epoch twice, whoever retries and restarts.                   *)
THEOREM SignsOnce == NetworkSpec => []WitnessSignsOnce
<1>1. NetworkInv => WitnessSignsOnce
  BY ChainMeans DEF NetworkInv
<1> QED
  BY <1>1, NetworkInvariant, PTL

(* What verify_and_accept has let in from an identity is the beginning of  *)
(* the chain one of its lives created, over a medium that loses, repeats,  *)
(* reorders and alters envelopes.                                          *)
THEOREM AcceptedPrefix == NetworkSpec => []AcceptedArePrefix
<1>1. NetworkInv => AcceptedArePrefix
  BY ChainMeans DEF NetworkInv
<1> QED
  BY <1>1, NetworkInvariant, PTL

(* Both together: the evidence that verifiers hold is one chain, and the   *)
(* witness vouched for each of its numbers once.                           *)
THEOREM EvidenceIsSound == NetworkSpec => []EvidenceSound
  BY SignsOnce, AcceptedPrefix, PTL DEF EvidenceSound

(* A round that offers itself for local review has enough fresh peers, in  *)
(* the required roles, that all committed to the same value.               *)
THEOREM ReviewedAgreement == NetworkSpec => []ReviewMeansAgreement
<1>1. NetworkInv => ReviewMeansAgreement
  BY DEF NetworkInv, RoundInv
<1> QED
  BY <1>1, NetworkInvariant, PTL

(* A round that has latched a conflict stays latched and offers no review  *)
(* until it is reset.                                                      *)
THEOREM ConflictsFinal == NetworkSpec => ConflictIsFinal
<1>1. NetworkInv /\ [NetworkNext]_networkVars =>
        [gc.conflict_present =>
           \/ gc' = gc_init
           \/ gc'.state = "CONFLICT_LATCHED" /\ ~review'.eligible_for_local_review]_roundVars
  BY PartsMove, ConflictHeld DEF NetworkInv
<1> QED
  BY <1>1, NetworkInvariant, PTL DEF NetworkSpec, ConflictIsFinal

(* The anchor always names a record that is whole in its slot, a usable    *)
(* context is the anchored one, and no message is accepted twice, whatever *)
(* stage, advance and power loss do.                                       *)
THEOREM TransactionIsSound == NetworkSpec => []IngressSound
<1>1. NetworkInv => IngressSound
  BY TransactionSound DEF NetworkInv
<1> QED
  BY <1>1, NetworkInvariant, PTL

(* Each record that becomes durable continues the one before it by one     *)
(* genuine message of the peer, or by the node's own pending request, and  *)
(* the registry still admits the peer when it does.                        *)
THEOREM DurableJustified == NetworkSpec => DurableIsJustified
<1>1. NetworkInv /\ [NetworkNext]_networkVars =>
        [anchor' # anchor => Justified(anchor.digest, anchor'.digest)]_ingressVars
  BY PartsMove, OnlyJustified DEF NetworkInv
<1> QED
  BY <1>1, NetworkInvariant, PTL DEF NetworkSpec, DurableIsJustified
===========================================================================
