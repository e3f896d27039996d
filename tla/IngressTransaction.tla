------------------------- MODULE IngressTransaction -------------------------
(***************************************************************************)
(* The authenticated ingress transaction:                                  *)
(*   firmware/NodeLink/Src/guardian_ingress_transaction.c                  *)
(* over a storage provider (two record slots and an anchor with an atomic  *)
(* compare-and-advance) and the peer registry of SignedEnvelope.           *)
(*                                                                         *)
(* gi_prepare and gi_prepare_pending propose, gi_commit makes durable and  *)
(* then publishes.  Every provider call of gi_commit is one action, may    *)
(* fail with or without having taken effect, and power may be lost before, *)
(* during and after it.  The caller serialises the calls, so the registry  *)
(* changes only between them, and `now' is whatever the caller passes.     *)
(***************************************************************************)
EXTENDS SignedEnvelope

CONSTANTS
  Config,      \* gi_config
  Registries,  \* registries the owner may configure: [peers, revision]
  Wires,       \* wire images that may arrive
  LocalRefs,   \* <<epoch, sequence>> references the outbound owner may register
  Times,       \* values of `now'
  REVISION_MAX, \* UINT32_MAX, the last revision and sequence number
  Torn         \* a slot that holds no record: never written, or cut short

(* gi_state.                                                               *)
IngressStates ==
  [revision : Nat, obs_sequence : Nat, ack_sequence : Nat, local : Nat \X Nat,
   deadline : Nat, last_time : Nat, has_report : BOOLEAN, pending : BOOLEAN,
   eligible : BOOLEAN]

(* config_ok.                                                              *)
config_ok(c) ==
  /\ 0 \notin {c.sender, c.producer, c.key, c.epoch, c.registry_revision}
  /\ 0 \notin {c.generation, c.policy, c.profile, c.round}
  /\ REVISION_MAX \notin {c.epoch, c.generation}
  /\ c.expected_state <= 5

ASSUME IngressConstants ==
  /\ REVISION_MAX \in Nat \ {0}
  /\ Times \in SUBSET Nat
  /\ LocalRefs \in SUBSET (Nat \X Nat)
  /\ \A wire \in Wires : wire.says.sequence \in Nat
  /\ Torn \notin IngressStates
  /\ config_ok(Config)

VARIABLES
  x,         \* gi_context
  peerRegistry,  \* gsea_context
  slots,     \* the provider's two record slots
  anchor,    \* the provider's trusted anchor
  call,      \* the gi_commit in flight: the step it is at and its record
  times      \* history: how often a commit of each message returned GI_OK

ingressVars == <<x, peerRegistry, slots, anchor, call, times>>

(* gi_commitment: a digest over exactly these fields.                      *)
gi_commitment(c) ==
  <<c.generation, c.policy, c.profile, c.round, c.expected_state,
    c.measurement_digest>>

Commitment == gi_commitment(Config)

(* gi_state at genesis.                                                    *)
Genesis ==
  [revision |-> 0, obs_sequence |-> 0, ack_sequence |-> 0,
   local |-> <<0, 0>>, deadline |-> 0, last_time |-> 0,
   has_report |-> FALSE, pending |-> FALSE, eligible |-> FALSE]

state_ok(s) ==
  /\ s.has_report <=> s.obs_sequence # 0
  /\ s.eligible => s.has_report
  /\ s.pending =>
       ~s.eligible /\ 0 \notin {s.local[1], s.local[2]} /\ s.deadline > s.last_time
  /\ s.eligible =>
       /\ ~s.pending /\ s.ack_sequence # 0
       /\ 0 \notin {s.local[1], s.local[2]} /\ s.deadline > s.last_time

(* gi_encode_record writes the whole state and the whole configuration,    *)
(* followed by a digest of both; the configuration never changes, so a     *)
(* record is its state and its digest is the record.                       *)
encodable(s) == config_ok(Config) /\ state_ok(s)

(* decode: exactly what encoding the decoded state gives back.             *)
decodes(b) == b # Torn /\ encodable(b)

(* registry_ok: the configured peer, not revoked, for both types and with  *)
(* the pinned key, exactly once under the configured revision.             *)
registry_ok(a) ==
  LET mine == {i \in DOMAIN a.peers : SamePeer(a.peers[i], Config)}
  IN /\ configured(a)
     /\ a.revision = Config.registry_revision
     /\ \A i \in mine : /\ ~a.peers[i].revoked
                        /\ a.peers[i].allowed = {OBSERVATION, ACK}
                        /\ a.peers[i].public_key = Config.public_key
     /\ \E i \in mine : mine = {i}

(* gi_init: nothing is read from storage and nothing is accepted yet.      *)
gi_init ==
  [mode |-> "HOLD", live |-> Genesis, proposed |-> Genesis, digest |-> Genesis,
   wire |-> << >>, kind |-> 0, clock_floor |-> 0]

NoCall == [pc |-> "idle", rec |-> Genesis]

Idle == call.pc = "idle"

IngressInit ==
  /\ x = gi_init
  /\ peerRegistry = gsea_init
  /\ slots = [i \in 0..1 |-> IF i = 0 THEN Genesis ELSE Torn]
  /\ anchor = [revision |-> 0, digest |-> Genesis]
  /\ call = NoCall
  /\ times = [m \in {OBSERVATION, ACK} \X (1..REVISION_MAX) |-> 0]

-----------------------------------------------------------------------------
(* The registry's owner installs a registry.                               *)
Configure ==
  /\ Idle
  /\ \E r \in Registries : peerRegistry' = gsea_configure(r.peers, r.revision)
  /\ UNCHANGED <<x, slots, anchor, call, times>>

(* gi_recover: RAM takes exactly the record the anchor names, or HOLD.     *)
(* Either read may fail.                                                   *)
Recover ==
  /\ Idle
  /\ \E now \in Times, readable \in BOOLEAN :
       LET b == slots[anchor.revision % 2]
       IN x' = IF /\ registry_ok(peerRegistry) /\ readable
                  /\ decodes(b) /\ b.revision = anchor.revision
                  /\ anchor.digest = b /\ now >= b.last_time
                 THEN [x EXCEPT !.live = b, !.digest = b, !.mode = "READY",
                                !.clock_floor = now, !.wire = << >>]
                 ELSE [x EXCEPT !.mode = "HOLD", !.wire = << >>]
  /\ UNCHANGED <<peerRegistry, slots, anchor, call, times>>

(* begin: what both prepare calls check and move first.                    *)
begin(now) ==
  IF x.mode # "READY" THEN [ok |-> FALSE, ctx |-> x]
  ELSE IF ~registry_ok(peerRegistry) \/ now < x.live.last_time \/ now < x.clock_floor
    THEN [ok |-> FALSE, ctx |-> [x EXCEPT !.mode = "HOLD"]]
  ELSE IF x.live.revision = REVISION_MAX
    THEN [ok |-> FALSE, ctx |-> [x EXCEPT !.mode = "HOLD", !.clock_floor = now]]
  ELSE [ok |-> TRUE, ctx |-> [x EXCEPT !.clock_floor = now]]

(* semantics: the sender and the round are the configured ones.            *)
semantics(e) ==
  /\ SamePeer(e, Config)
  /\ e.sequence # REVISION_MAX
  /\ e.epoch = Config.epoch
  /\ e.state = Config.expected_state
  /\ e.payload.claims = FALSE
  /\ e.payload.round =
       <<Config.generation, Config.policy, Config.profile, Config.round>>
  /\ e.payload.commitment = Commitment

(* gi_prepare: whether an authentic envelope may be proposed.              *)
proposal(e, now) ==
  IF e.type = OBSERVATION
    THEN IF e.sequence <= x.live.obs_sequence THEN "GI_REPLAY" ELSE "GI_OK"
  ELSE IF e.sequence <= x.live.ack_sequence THEN "GI_REPLAY"
  ELSE IF ~x.live.pending \/ ~x.live.has_report \/ e.payload.ref # x.live.local
    THEN "GI_ACK"
  ELSE IF now >= x.live.deadline THEN "GI_EXPIRED"
  ELSE "GI_OK"

(* Mutant: the proposal keeps the revision of the state it replaces.       *)
proposed_same_revision(s, e, now) ==
  IF e.type = OBSERVATION
    THEN [s EXCEPT !.obs_sequence = e.sequence, !.has_report = TRUE,
                   !.eligible = FALSE, !.last_time = now]
    ELSE [s EXCEPT !.ack_sequence = e.sequence, !.pending = FALSE,
                   !.eligible = TRUE, !.last_time = now]

(* gi_prepare: the state an accepted envelope leads to.                    *)
proposed_state(s, e, now) ==
  IF e.type = OBSERVATION
    THEN [s EXCEPT !.obs_sequence = e.sequence, !.has_report = TRUE,
                   !.eligible = FALSE, !.last_time = now, !.revision = @ + 1]
    ELSE [s EXCEPT !.ack_sequence = e.sequence, !.pending = FALSE,
                   !.eligible = TRUE, !.last_time = now, !.revision = @ + 1]

Prepare ==
  /\ Idle
  /\ \E wire \in Wires, now \in Times :
       LET b == begin(now)
           e == wire.says
       IN x' = IF /\ b.ok /\ gsea_verify(peerRegistry, wire) = "GSEA_OK"
                  /\ semantics(e) /\ proposal(e, now) = "GI_OK"
                 THEN [b.ctx EXCEPT !.proposed = proposed_state(x.live, e, now),
                                    !.kind = e.type, !.wire = wire,
                                    !.mode = "PREPARED"]
                 ELSE b.ctx
  /\ UNCHANGED <<peerRegistry, slots, anchor, call, times>>

Before(r, s) == r[1] < s[1] \/ (r[1] = s[1] /\ r[2] < s[2])

PreparePending ==
  /\ Idle
  /\ \E ref \in LocalRefs, deadline \in Times, now \in Times :
       LET b == begin(now)
       IN x' = IF /\ b.ok
                  /\ {0, REVISION_MAX} \cap {ref[1], ref[2]} = {}
                  /\ deadline > now
                  /\ ~x.live.pending /\ ~x.live.eligible
                  /\ Before(x.live.local, ref)
                 THEN [b.ctx EXCEPT
                         !.proposed = [x.live EXCEPT
                           !.local = ref, !.pending = TRUE, !.last_time = now,
                           !.deadline = deadline, !.revision = @ + 1],
                         !.wire = << >>, !.kind = 0, !.mode = "PREPARED"]
                 ELSE b.ctx
  /\ UNCHANGED <<peerRegistry, slots, anchor, call, times>>

-----------------------------------------------------------------------------
(* gi_commit, step by step.                                                *)

(* Mutant: the registry and the message are not looked at again.           *)
commit_check_prepared(p, now) ==
  IF now < p.last_time \/ now < x.clock_floor THEN "GI_CONFLICT"
  ELSE IF (p.pending \/ p.eligible) /\ now >= p.deadline THEN "GI_EXPIRED"
  ELSE IF ~encodable([p EXCEPT !.last_time = now]) THEN "GI_INVALID"
  ELSE "GI_OK"

(* What it returns before it touches storage; it is in HOLD from the start *)
(* and stays there whatever goes wrong.                                    *)
commit_check(p, now) ==
  IF ~registry_ok(peerRegistry) \/ now < p.last_time \/ now < x.clock_floor
    THEN "GI_CONFLICT"
  ELSE IF (p.pending \/ p.eligible) /\ now >= p.deadline THEN "GI_EXPIRED"
  ELSE IF x.kind # 0 /\ ( \/ gsea_verify(peerRegistry, x.wire) # "GSEA_OK"
                         \/ ~semantics(x.wire.says))
    THEN "GI_AUTH"
  ELSE IF ~encodable([p EXCEPT !.last_time = now]) THEN "GI_INVALID"
  ELSE "GI_OK"

CommitCheck ==
  /\ Idle
  /\ x.mode = "PREPARED"
  /\ \E now \in Times :
       IF commit_check(x.proposed, now) = "GI_OK"
         THEN /\ x' = [x EXCEPT !.mode = "HOLD", !.clock_floor = now]
              /\ call' = [pc |-> "stage",
                          rec |-> [x.proposed EXCEPT !.last_time = now]]
         ELSE /\ x' = [x EXCEPT !.mode = "HOLD"]
              /\ UNCHANGED call
  /\ UNCHANGED <<peerRegistry, slots, anchor, times>>

(* What staging may leave in the slot: nothing, a part, or the record.     *)
staged(after) ==
  {[slots EXCEPT ![call.rec.revision % 2] = b] : b \in after}

Staged == staged({call.rec})
StageFault == {slots} \cup staged({Torn, call.rec})

Stage ==
  /\ call.pc = "stage"
  /\ \/ slots' \in Staged /\ call' = [call EXCEPT !.pc = "advance"]
     \/ slots' \in StageFault /\ call' = NoCall
  /\ UNCHANGED <<x, peerRegistry, anchor, times>>

(* The provider's compare-and-advance.                                     *)
advanced(old, digest, rec) ==
  IF /\ old = anchor.revision /\ digest = anchor.digest
     /\ rec.revision = old + 1
    THEN [revision |-> rec.revision, digest |-> rec]
    ELSE anchor

Advance ==
  /\ call.pc = "advance"
  /\ LET to == advanced(x.live.revision, x.digest, call.rec)
     IN \/ to # anchor /\ anchor' = to /\ call' = [call EXCEPT !.pc = "readback"]
        \/ anchor' \in {anchor, to} /\ call' = NoCall
  /\ UNCHANGED <<x, peerRegistry, slots, times>>

(* Read back the anchor and the record, then publish in RAM.  Either read  *)
(* may fail or return something else.                                      *)
Readback ==
  /\ call.pc = "readback"
  /\ call' = NoCall
  /\ \/ /\ anchor = [revision |-> call.rec.revision, digest |-> call.rec]
        /\ slots[call.rec.revision % 2] = call.rec
        /\ x' = [x EXCEPT !.live = call.rec, !.digest = call.rec,
                          !.mode = "READY", !.wire = << >>]
        /\ times' = IF x.kind = 0 THEN times
                    ELSE [times EXCEPT ![<<x.kind, x.wire.says.sequence>>] = @ + 1]
     \/ UNCHANGED <<x, times>>
  /\ UNCHANGED <<peerRegistry, slots, anchor>>

(* Power is lost, possibly inside a provider call; gi_init runs again.     *)
PowerLoss ==
  /\ x' = gi_init
  /\ peerRegistry' = gsea_init
  /\ call' = NoCall
  /\ slots' \in IF call.pc = "stage" THEN StageFault ELSE {slots}
  /\ anchor' \in IF call.pc = "advance"
                   THEN {anchor, advanced(x.live.revision, x.digest, call.rec)}
                   ELSE {anchor}
  /\ UNCHANGED times

IngressNext ==
  \/ Configure \/ Recover \/ Prepare \/ PreparePending
  \/ CommitCheck \/ Stage \/ Advance \/ Readback \/ PowerLoss

IngressSpec == IngressInit /\ [][IngressNext]_ingressVars

(* gi_snapshot: what a reader of the corroboration state is given, nothing *)
(* when the result is GI_HOLD.                                             *)
gi_snapshot(now) ==
  IF /\ registry_ok(peerRegistry) /\ x.mode = "READY"
     /\ now >= x.live.last_time /\ now >= x.clock_floor
     /\ ~(x.live.eligible /\ now >= x.live.deadline)
    THEN {x.live} ELSE {}

-----------------------------------------------------------------------------
(* "Recovery yields the old complete transaction or the new complete       *)
(* transaction according to the anchor": whatever step of gi_commit fails  *)
(* or loses power, the slot the anchor names holds, complete and unchanged *)
(* and acceptable to gi_recover, the record whose digest is anchored.      *)
AnchorNamesARecord ==
  LET b == slots[anchor.revision % 2]
  IN decodes(b) /\ b = anchor.digest /\ b.revision = anchor.revision

(* "Unanchored staged data does not become accepted", and an advance that  *)
(* reported a failure is never worked over: whatever a reader is given is  *)
(* the anchored state, at every time a reader may ask.                     *)
SnapshotIsAnchored ==
  \A now \in Times :
    Idle => gi_snapshot(now) \subseteq {anchor.digest}

(* A message is accepted (a commit of it returns GI_OK) at most once, over *)
(* failures, retries, restarts and repeated arrival.                       *)
AcceptedOnce == \A m \in DOMAIN times : times[m] <= 1

(* Signed by the pinned key, over this very envelope, for this very round. *)
Genuine(wire) ==
  LET e == wire.says
  IN /\ e.signature = [by |-> Config.public_key,
                       over |-> <<"V2", header(e), e.payload>>]
     /\ e.payload.round =
          <<Config.generation, Config.policy, Config.profile, Config.round>>
     /\ e.payload.commitment = Commitment

(* The registry of this moment still names the configured peer, unrevoked  *)
(* and with the pinned key, and authenticates the message of the call.     *)
Admitted ==
  /\ registry_ok(peerRegistry)
  /\ x.kind # 0 => gsea_verify(peerRegistry, x.wire) = "GSEA_OK"

(* What becomes durable is what was authenticated, under the registry in   *)
(* force when it becomes durable and not only when it was prepared: the    *)
(* anchored state gains a report only from a genuine observation and       *)
(* becomes eligible only from a genuine acknowledgement of exactly the     *)
(* pending reference, after a report and before the deadline; its cursors  *)
(* never go back.                                                          *)
Justified(old, new) ==
  /\ Admitted
  /\ new.obs_sequence >= old.obs_sequence
  /\ new.ack_sequence >= old.ack_sequence
  /\ new.last_time >= old.last_time
  /\ new.obs_sequence # old.obs_sequence =>
       Genuine(x.wire) /\ x.wire.says.type = OBSERVATION
  /\ new.eligible /\ ~old.eligible =>
       /\ Genuine(x.wire) /\ x.wire.says.type = ACK
       /\ x.wire.says.payload.ref = old.local /\ new.local = old.local
       /\ old.pending /\ old.has_report /\ new.last_time < old.deadline

DurableIsJustified ==
  [][anchor' # anchor => Justified(anchor.digest, anchor'.digest)]_ingressVars

(* The transaction as its callers rely on it: the anchored record is       *)
(* always there, readers see nothing else, and no message counts twice.    *)
IngressSound == AnchorNamesARecord /\ SnapshotIsAnchored /\ AcceptedOnce
=============================================================================
