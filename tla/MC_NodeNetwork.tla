--------------------------- MODULE MC_NodeNetwork ---------------------------
(* Small instance of NodeNetwork. *)
EXTENDS NodeNetwork

Node(id, key, role, extra) ==
  [node_id |-> id, producer_id |-> id, key_id |-> key, role |-> role,
   authority_class |-> expected_authority(role),
   capabilities |-> required_capabilities(role) \cup extra]

F401Node == Node(1, 1, F401, {})
SupervisorNode == Node(2, 2, MCXN947, {})
MeasurementNode == Node(3, 3, ST, {})
WitnessNode == Node(4, 4, SECURITY_WITNESS, {})
ComputeNode == Node(5, 5, HIGH_COMPUTE, {})

\* A second control node, and nodes that bring the gate or the authority.
MCCandidates ==
  {F401Node, SupervisorNode, MeasurementNode, WitnessNode, ComputeNode,
   Node(6, 6, F401, {}), Node(7, 7, MCXN947, {"ACTUATION_GATE"}),
   [Node(8, 8, ST, {}) EXCEPT !.authority_class = "REFERENCE_CONTROL"],
   [Node(1, 9, HIGH_COMPUTE, {}) EXCEPT !.producer_id = 9],
   [Node(9, 9, SECURITY_WITNESS, {}) EXCEPT !.producer_id = 2]}

\* Evidence: a measurement node, the same node with its rotated key, and
\* the processing node, over tables of two entries.
MCProducers == {MeasurementNode, Node(3, 13, ST, {}), ComputeNode}
MCClasses == {"MEASUREMENT", "FUSION"}

Sample(seq, time, value) ==
  [sensor_id |-> 1, signal_type |-> "CURRENT", sequence |-> seq, timestamp_us |-> time,
   value_milli |-> value, valid_min_milli |-> -2, valid_max_milli |-> 2,
   uncertainty_milli |-> 1, quality |-> 90, saturated |-> 0]

MCSamples ==
  {Sample(seq, time, 0) : seq \in 0 .. 4, time \in 1 .. 4}
  \cup {Sample(4, 4, 3), [Sample(4, 4, 0) EXCEPT !.saturated = 1],
        [Sample(4, 4, 0) EXCEPT !.quality = 10],
        [Sample(4, 4, 0) EXCEPT !.uncertainty_milli = 0]}

MCMeasurementPolicy == [max_uncertainty_milli |-> 5, minimum_quality |-> 50]
MCComputePolicy == [minimum_quality |-> 50, drift_threshold_milli |-> 2,
                    minimum_correlation_milli |-> 1000]

Window(values) ==
  [subject_node_id |-> 3, subject_producer_id |-> 3, signal_id |-> 1, epoch |-> 1,
   baseline_milli |-> 0,
   samples |-> [i \in 1 .. Len(values) |->
                  [sequence |-> i, timestamp_us |-> i, normalized_milli |-> values[i],
                   quality |-> 90, saturated |-> 0]]]

MCWindows ==
  {Window(v) : v \in [1 .. 2 -> {0, 1}] \cup [1 .. 3 -> {-2, 1}]}
  \cup {Window(<< 1 >>), [Window(<< 1, 1 >>) EXCEPT !.samples[2].sequence = 1],
        [Window(<< 1, 1 >>) EXCEPT !.samples[1].saturated = 1]}

MCRound == [generation |-> 1, policy |-> 256, profile |-> 65537, round |-> 16777217,
            max_age |-> 1, threshold |-> 2, required_roles |-> {0},
            peers |-> << [id |-> 11, role |-> 0], [id |-> 12, role |-> 1],
                         [id |-> 13, role |-> 2] >>]

Report(epoch, sequence, commitment, claims, acked, round) ==
  [epoch |-> epoch, sequence |-> sequence, commitment |-> commitment,
   claims |-> claims, acked |-> acked, round |-> round]

\* Two commitments, the first reported a second time with an
\* acknowledgement of another observation; another epoch, a claim of
\* actuation and another round.
MCReports ==
  {Report(1, 1, c, 0, 1, 16777217) : c \in 1 .. 2}
  \cup {Report(1, 2, 1, 0, 2, 16777217),
        Report(2, 1, 1, 0, 1, 16777217), Report(1, 1, 1, 1, 1, 16777217),
        Report(1, 1, 1, 0, 1, 1)}
-----------------------------------------------------------------------------
(* The ingress transaction: one configured peer, its genuine messages, and *)
(* messages altered, sent for another round or cut short on the way.       *)
MCConfig ==
  [sender |-> 1, producer |-> 1, key |-> 1, epoch |-> 1,
   registry_revision |-> 1, generation |-> 1, policy |-> 1, profile |-> 1,
   round |-> 1, expected_state |-> 1, measurement_digest |-> "m",
   public_key |-> "k1"]

PinnedPeer == [sender |-> 1, producer |-> 1, key |-> 1, public_key |-> "k1",
         revoked |-> FALSE, allowed |-> {OBSERVATION, ACK}]
OtherPeer == [PinnedPeer EXCEPT !.sender = 2, !.public_key = "k2"]

MCRegistries ==
  { [peers |-> <<PinnedPeer, OtherPeer>>, revision |-> 1],
    [peers |-> <<[PinnedPeer EXCEPT !.revoked = TRUE]>>, revision |-> 1],
    [peers |-> <<PinnedPeer, PinnedPeer>>, revision |-> 1] }

Body(kind, ref, round) ==
  [claims |-> FALSE, round |-> <<1, 1, 1, round>>,
   commitment |-> <<1, 1, 1, round, 1, "m">>, ref |-> ref]

Unsigned(type, seq, ref, round) ==
  [type |-> type, state |-> 1, payload_length |-> IF type = ACK THEN 60 ELSE 52,
   sender |-> 1, producer |-> 1, key |-> 1, epoch |-> 1, sequence |-> seq,
   payload |-> Body(type, ref, round)]

Signed(u, by, over) ==
  [f \in DOMAIN u \cup {"signature"} |->
     IF f = "signature"
       THEN [by |-> by, over |-> <<"V2", header(over), over.payload>>]
       ELSE u[f]]

OnWire(e) == gse_encode(e, GSE_MAX_WIRE).wire

NoRef == <<0, 0>>

MCWires ==
  LET obs == {Unsigned(OBSERVATION, s, NoRef, 1) : s \in 1..2}
      acks == {Unsigned(ACK, 1, r, 1) : r \in LocalRefs}
      genuine == {OnWire(Signed(u, "k1", u)) : u \in obs \cup acks}
      one == Unsigned(OBSERVATION, 1, NoRef, 1)
      two == Unsigned(OBSERVATION, 2, NoRef, 1)
  IN genuine
     \cup { OnWire(Signed(two, "k1", one)),
            OnWire(Signed(Unsigned(OBSERVATION, 2, NoRef, 2), "k1",
                          Unsigned(OBSERVATION, 2, NoRef, 2))),
            [OnWire(Signed(one, "k1", one)) EXCEPT !.length = 100] }

MCLocalRefs == {<<1, 1>>, <<1, 2>>}
=============================================================================
