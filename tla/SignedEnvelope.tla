--------------------------- MODULE SignedEnvelope ---------------------------
(***************************************************************************)
(* Signed envelopes, version 2:                                            *)
(*   firmware/NodeLink/Src/guardian_signed_envelope.c       (gse_)         *)
(*   firmware/NodeLink/Src/guardian_signed_envelope_auth.c  (gsea_)        *)
(*                                                                         *)
(* An envelope is a record.  A wire image is what its bytes say: the       *)
(* envelope in its variable bytes, its length, and whether the bytes that  *)
(* never vary (magic, version, algorithm, reserved) hold their values.  A  *)
(* signature is the key that made it and the transcript it was made over:  *)
(* Ed25519 is taken to be unforgeable.                                     *)
(***************************************************************************)
EXTENDS Integers, Sequences

GSE_HEADER == 32
GSE_SIGNATURE == 64
GSE_MAX_PAYLOAD == 64
GSE_MAX_WIRE == 160
GSEA_MAX_PEERS == 8

(* gse_unverified: the type byte selects the payload length.               *)
OBSERVATION == 7
ACK == 8

valid(e) ==
  /\ e.state <= 5
  /\ 0 \notin {e.sender, e.producer, e.key, e.epoch, e.sequence}
  /\ <<e.type, e.payload_length>> \in {<<OBSERVATION, 52>>, <<ACK, 60>>}

(* header: the bytes in front of the payload, which the signature covers.  *)
header(e) ==
  <<e.type, e.state, e.payload_length, e.sender, e.producer, e.key, e.epoch,
    e.sequence>>

Failure(why) == [result |-> why]

gse_encode(e, capacity) ==
  LET n == GSE_HEADER + e.payload_length + GSE_SIGNATURE
  IN CASE ~valid(e) -> Failure("GSE_INVALID")
       [] valid(e) /\ capacity < n -> Failure("GSE_CAPACITY")
       [] OTHER -> [result |-> "GSE_OK",
                    wire |-> [fixed |-> TRUE, length |-> n, says |-> e]]

gse_decode(wire) ==
  LET e == wire.says
  IN IF /\ wire.length \in GSE_HEADER + GSE_SIGNATURE .. GSE_MAX_WIRE
        /\ wire.fixed
        /\ wire.length = GSE_HEADER + e.payload_length + GSE_SIGNATURE
        /\ e.payload_length <= GSE_MAX_PAYLOAD
        /\ valid(e)
       THEN [result |-> "GSE_OK", envelope |-> e]
       ELSE Failure("GSE_INVALID")

gse_transcript(e) ==
  IF valid(e) THEN [result |-> "GSE_OK",
                    bytes |-> <<"V2", header(e), e.payload>>]
  ELSE Failure("GSE_INVALID")

(* crypto_ed25519_check.                                                   *)
ed25519_check(signature, public_key, bytes) ==
  signature = [by |-> public_key, over |-> bytes]

-----------------------------------------------------------------------------
(* The local peer registry.                                                *)

gsea_init == [configured |-> FALSE, peers |-> << >>, revision |-> 0]

valid_peer(p) ==
  /\ 0 \notin {p.sender, p.producer, p.key}
  /\ p.allowed \in (SUBSET {OBSERVATION, ACK}) \ {{}}
  /\ p.public_key # "zero"

SamePeer(p, q) == /\ p.sender = q.sender
                  /\ p.producer = q.producer
                  /\ p.key = q.key

(* A configuration that is refused also takes the old registry away.       *)
gsea_configure(peers, revision) ==
  IF /\ Len(peers) \in 1..GSEA_MAX_PEERS
     /\ revision # 0
     /\ \A i \in DOMAIN peers : valid_peer(peers[i])
     /\ \A i, j \in DOMAIN peers : SamePeer(peers[i], peers[j]) => i = j
    THEN [configured |-> TRUE, peers |-> peers, revision |-> revision]
    ELSE gsea_init

configured(a) == a.configured /\ Len(a.peers) \in 1..GSEA_MAX_PEERS

(* gsea_verify: the checks in their order, each with its result.           *)
gsea_verify(a, wire) ==
  LET d == gse_decode(wire)
      e == d.envelope
      known == {i \in DOMAIN a.peers : SamePeer(a.peers[i], e)}
      p == a.peers[CHOOSE i \in known : TRUE]
      t == gse_transcript(e)
  IN IF ~configured(a) \/ a.revision = 0 THEN "GSEA_UNCONFIGURED"
     ELSE IF d.result # "GSE_OK" THEN "GSEA_INVALID"
     ELSE IF known = {} THEN "GSEA_PEER_UNKNOWN"
     ELSE IF \E i, j \in known : i # j THEN "GSEA_INVALID"
     ELSE IF p.revoked THEN "GSEA_KEY_REVOKED"
     ELSE IF e.type \notin p.allowed THEN "GSEA_TYPE_DENIED"
     ELSE IF t.result # "GSE_OK" THEN "GSEA_INVALID"
     ELSE IF ~ed25519_check(e.signature, p.public_key, t.bytes)
       THEN "GSEA_SIGNATURE_INVALID"
     ELSE "GSEA_OK"
=============================================================================
