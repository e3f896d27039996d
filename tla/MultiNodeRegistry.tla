------------------------- MODULE MultiNodeRegistry --------------------------
(***************************************************************************)
(* The registry of the five nodes and who may actuate:                     *)
(*   firmware/MultiNode/Src/guardian_multinode.c                           *)
(* A bit mask of capabilities is the set of its bits; UNKNOWN stands for   *)
(* every bit outside GUARDIAN_CAP_ALL.  A registry is the sequence of the  *)
(* nodes in registration order.                                            *)
(***************************************************************************)
EXTENDS Integers, Sequences

MULTINODE_MAX_NODES == 5

CAP_ALL == {"OBSERVATION", "SUPERVISION", "EVIDENCE_WITNESS", "RECOVERY_ASSIST",
            "SIGNAL_PROCESSING", "POLICY_REFERENCE", "ACTUATION_GATE",
            "SIGNATURE_VERIFY", "SENSOR_ACQUISITION"}

F401 == "F401_REFERENCE_CONTROL"
MCXN947 == "MCXN947_SUPERVISORY_PEER"
ST == "ST_MEASUREMENT_REFERENCE"
SECURITY_WITNESS == "SECURITY_WITNESS"
HIGH_COMPUTE == "HIGH_COMPUTE_PROCESSING"

NODE_ROLES == {F401, MCXN947, ST, SECURITY_WITNESS, HIGH_COMPUTE}
AUTHORITY_CLASSES == {"NONE", "OBSERVE", "WITNESS", "REFERENCE_CONTROL"}

MULTINODE_RESULTS ==
  {"OK", "INVALID_IDENTITY", "INVALID_ROLE", "INVALID_AUTHORITY_CLASS",
   "INVALID_CAPABILITIES", "AUTHORITY_ESCALATION", "REGISTRY_FULL",
   "DUPLICATE_NODE_ID", "DUPLICATE_PRODUCER_ID", "DUPLICATE_ROLE",
   "TOPOLOGY_INCOMPLETE", "NOT_REFERENCE_CONTROL"}

(* guardian_multinode_node_t with the given identifiers and capabilities.  *)
MultinodeNodes(ids, caps) ==
  [node_id: ids, producer_id: ids, key_id: ids,
   role: NODE_ROLES \cup {"INVALID"}, authority_class: AUTHORITY_CLASSES,
   capabilities: caps]

required_capabilities(role) ==
  CASE role = F401 -> {"OBSERVATION", "POLICY_REFERENCE", "ACTUATION_GATE"}
    [] role = MCXN947 -> {"OBSERVATION", "SUPERVISION", "EVIDENCE_WITNESS",
                          "RECOVERY_ASSIST", "SIGNATURE_VERIFY"}
    [] role = ST -> {"OBSERVATION", "SENSOR_ACQUISITION"}
    [] role = SECURITY_WITNESS -> {"OBSERVATION", "EVIDENCE_WITNESS", "SIGNATURE_VERIFY"}
    [] role = HIGH_COMPUTE -> {"OBSERVATION", "SIGNAL_PROCESSING"}
    [] OTHER -> {}

expected_authority(role) ==
  CASE role = F401 -> "REFERENCE_CONTROL"
    [] role \in {MCXN947, ST, HIGH_COMPUTE} -> "OBSERVE"
    [] role = SECURITY_WITNESS -> "WITNESS"
    [] OTHER -> "NONE"

registry_init == << >>

validate_node(node) ==
  LET escalates ==
        \/ /\ "ACTUATION_GATE" \in node.capabilities
           /\ ~(node.role = F401 /\ node.authority_class = "REFERENCE_CONTROL")
        \/ node.role # F401 /\ node.authority_class = "REFERENCE_CONTROL"
  IN IF 0 \in {node.node_id, node.producer_id, node.key_id}
       THEN "INVALID_IDENTITY"
     ELSE IF node.role \notin NODE_ROLES THEN "INVALID_ROLE"
     ELSE IF node.capabilities = {} \/ ~(node.capabilities \subseteq CAP_ALL)
       THEN "INVALID_CAPABILITIES"
     ELSE IF node.authority_class # expected_authority(node.role)
       THEN "INVALID_AUTHORITY_CLASS"
     ELSE IF ~(required_capabilities(node.role) \subseteq node.capabilities)
       THEN "INVALID_CAPABILITIES"
     ELSE IF escalates THEN "AUTHORITY_ESCALATION"
     ELSE "OK"

(* A node passes validation in its own role only with the one authority of *)
(* that role, and every refusal is a result of the enumeration.            *)
ASSUME NodesAreValidated ==
  \A node \in MultinodeNodes(0 .. 1, {{}, CAP_ALL, CAP_ALL \ {"ACTUATION_GATE"}}) :
    /\ validate_node(node) \in MULTINODE_RESULTS
    /\ validate_node(node) = "OK" => node.authority_class = expected_authority(node.role)

(* Mutant: only the identifiers must differ, not the roles.                *)
register_clash_ids(registry, node) ==
  IF \E i \in DOMAIN registry : registry[i].node_id = node.node_id
    THEN "DUPLICATE_NODE_ID"
  ELSE IF \E i \in DOMAIN registry : registry[i].producer_id = node.producer_id
    THEN "DUPLICATE_PRODUCER_ID"
  ELSE "OK"

(* The first registered node that clashes decides the answer.              *)
register_clash(registry, node) ==
  LET Clash(n) == \/ n.node_id = node.node_id
                  \/ n.producer_id = node.producer_id
                  \/ n.role = node.role
      at == {i \in DOMAIN registry : Clash(registry[i])}
      first == registry[CHOOSE i \in at : \A j \in at : i <= j]
  IN IF at = {} THEN "OK"
     ELSE IF first.node_id = node.node_id THEN "DUPLICATE_NODE_ID"
     ELSE IF first.producer_id = node.producer_id THEN "DUPLICATE_PRODUCER_ID"
     ELSE "DUPLICATE_ROLE"

register_result(registry, node) ==
  IF validate_node(node) # "OK" THEN validate_node(node)
  ELSE IF Len(registry) >= MULTINODE_MAX_NODES THEN "REGISTRY_FULL"
  ELSE register_clash(registry, node)

register_node(registry, node) ==
  IF register_result(registry, node) = "OK" THEN Append(registry, node)
  ELSE registry

validate_complete_topology(registry) ==
  LET bad == {i \in DOMAIN registry : validate_node(registry[i]) # "OK"}
      seen == {registry[i].role : i \in DOMAIN registry}
  IN IF Len(registry) # MULTINODE_MAX_NODES THEN "TOPOLOGY_INCOMPLETE"
     ELSE IF bad # {}
       THEN validate_node(registry[CHOOSE i \in bad : \A j \in bad : i <= j])
     ELSE IF seen # NODE_ROLES THEN "TOPOLOGY_INCOMPLETE"
     ELSE "OK"

can_request_actuation(registry, id) ==
  LET at == {i \in DOMAIN registry : registry[i].node_id = id}
      node == registry[CHOOSE i \in at : \A j \in at : i <= j]
  IN IF id = 0 \/ at = {} THEN "INVALID_IDENTITY"
     ELSE IF validate_node(node) # "OK" THEN validate_node(node)
     ELSE IF \/ node.role # F401
             \/ node.authority_class # "REFERENCE_CONTROL"
             \/ "ACTUATION_GATE" \notin node.capabilities
       THEN "NOT_REFERENCE_CONTROL"
     ELSE "OK"
=============================================================================
