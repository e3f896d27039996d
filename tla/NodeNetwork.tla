---------------------------- MODULE NodeNetwork -----------------------------
(***************************************************************************)
(* The node network: the registry, the measurement and processing nodes,   *)
(* signed evidence, the corroboration round and the ingress transaction.   *)
(* They share the registry's rules and the wire formats and no state, so a *)
(* behaviour exercises one part while the others rest.                     *)
(***************************************************************************)
EXTENDS Measurement, EvidenceChain, Corroboration, IngressTransaction

CONSTANT Candidates  \* the nodes that ask to be registered

VARIABLES part,     \* the part this behaviour exercises
          registry  \* guardian_multinode_registry_t

RegisterNode ==
  \E node \in Candidates : registry' = register_node(registry, node)

NetworkInit ==
  /\ part \in {"registry", "sampling", "processing", "evidence", "round", "ingress"}
  /\ registry = registry_init
  /\ MeasurementInit
  /\ ChainInit
  /\ RoundInit
  /\ IngressInit

NetworkNext ==
  \/ /\ part = "registry" /\ RegisterNode
     /\ UNCHANGED << part, samplingVars, processingVars, chainVars, roundVars, ingressVars >>
  \/ /\ part = "sampling" /\ AcceptSample
     /\ UNCHANGED << part, registry, processingVars, chainVars, roundVars, ingressVars >>
  \/ /\ part = "processing" /\ ProcessingNext
     /\ UNCHANGED << part, registry, samplingVars, chainVars, roundVars, ingressVars >>
  \/ /\ part = "evidence" /\ ChainNext
     /\ UNCHANGED << part, registry, samplingVars, processingVars, roundVars, ingressVars >>
  \/ /\ part = "round" /\ RoundNext
     /\ UNCHANGED << part, registry, samplingVars, processingVars, chainVars, ingressVars >>
  \/ /\ part = "ingress" /\ IngressNext
     /\ UNCHANGED << part, registry, samplingVars, processingVars, chainVars, roundVars >>

networkVars == << part, registry, samplingVars, processingVars, chainVars, roundVars, ingressVars >>

NetworkSpec == NetworkInit /\ [][NetworkNext]_networkVars

(* Whatever nodes asked to be registered, in whatever order, at most one   *)
(* registered node may request actuation, and a registry that passes for   *)
(* complete has exactly one.                                               *)
OneActuator ==
  LET actuators == {n \in {registry[i].node_id : i \in DOMAIN registry} :
                      can_request_actuation(registry, n) = "OK"}
  IN /\ Cardinality(actuators) <= 1
     /\ validate_complete_topology(registry) = "OK" => Cardinality(actuators) = 1
=============================================================================
