--------------------------- MODULE Corroboration ----------------------------
(***************************************************************************)
(* One round of corroboration: peers report a commitment, and the context  *)
(* says whether enough fresh peers agree for a local review.               *)
(*   firmware/MultiNode/Src/guardian_multinode_corroboration.c             *)
(*   firmware/MultiNode/Src/guardian_corroboration_wire.c                  *)
(*   firmware/MultiNode/Src/guardian_corroboration_ack.c                   *)
(* A commitment's 32 bytes are one value.  Reports and acknowledgements    *)
(* travel as the little-endian byte strings of the two codecs; that a      *)
(* report is authentic and fresh is decided before it gets here.           *)
(***************************************************************************)
EXTENDS Integers, Sequences, FiniteSets, FiniteSetsExt

CONSTANTS Round,         \* the gc_config of the round
          Reports,       \* what a peer may report and acknowledge
          MaxRoundClock  \* the last instant of the round's clock

VARIABLES gc,          \* gc_context
          heard,       \* history: the commitments heard before a latch
          review       \* the last assessment handed out

roundVars == << gc, heard, review >>

CORROBORATION_CAPACITY == 5
GC_WIRE_VERSION == 1
GC_ACK_VERSION == 1
GC_ACK_KIND == 161
---------------------------------------------------------------------------
(* The codecs.                                                             *)
put32(v) == << v % 256, (v \div 256) % 256, (v \div 65536) % 256, v \div 16777216 >>
get32(b) == b[1] + 256 * b[2] + 65536 * b[3] + 16777216 * b[4]

wire_valid(o) == 0 \notin {o.generation, o.policy, o.profile, o.round}
                 /\ o.claims_actuation <= 1

gc_wire_encode(o) ==
  IF wire_valid(o)
    THEN << GC_WIRE_VERSION, o.claims_actuation, 0, 0 >>
         \o put32(o.generation) \o put32(o.policy) \o put32(o.profile)
         \o put32(o.round) \o << o.commitment >>
    ELSE << >>

gc_wire_decode(b) ==
  LET at(k) == get32(SubSeq(b, k, k + 3))
      o == [generation |-> at(5), policy |-> at(9), profile |-> at(13),
            round |-> at(17), claims_actuation |-> b[2], commitment |-> b[21]]
  IN IF Len(b) # 21 \/ b[1] # GC_WIRE_VERSION \/ b[2] > 1 \/ b[3] # 0 \/ b[4] # 0
       THEN {}
     ELSE {x \in {o} : wire_valid(x)}

ack_valid(a) == 0 \notin {a.generation, a.policy, a.profile, a.round,
                          a.observation_epoch, a.observation_sequence}

gc_ack_encode(a) ==
  IF ack_valid(a)
    THEN << GC_ACK_VERSION, GC_ACK_KIND, 0, 0 >>
         \o put32(a.generation) \o put32(a.policy) \o put32(a.profile) \o put32(a.round)
         \o put32(a.observation_epoch) \o put32(a.observation_sequence)
         \o << a.commitment >>
    ELSE << >>

gc_ack_decode(b) ==
  LET at(k) == get32(SubSeq(b, k, k + 3))
      a == [generation |-> at(5), policy |-> at(9), profile |-> at(13),
            round |-> at(17), observation_epoch |-> at(21),
            observation_sequence |-> at(25), commitment |-> b[29]]
  IN IF Len(b) # 29 \/ SubSeq(b, 1, 4) # << GC_ACK_VERSION, GC_ACK_KIND, 0, 0 >>
       THEN {}
     ELSE {x \in {a} : ack_valid(x)}

gc_ack_match(a, pending) ==
  IF ~ack_valid(a) \/ ~ack_valid(pending) THEN "INVALID"
  ELSE IF a # pending THEN "MISMATCH"
  ELSE "OK"
---------------------------------------------------------------------------
(* What a slot keeps of a report; nothing reads the claim again.           *)
NoReport == [epoch |-> 0, sequence |-> 0, same_round_ack |-> 0, commitment |-> 0]

gc_init == [state |-> "UNCONFIGURED", slots |-> << >>, last_clock |-> 0,
            clock_seen |-> FALSE, conflict_present |-> FALSE]

gc_configure_result(c, p) ==
  LET at == DOMAIN p.peers
  IN IF \/ c.state # "UNCONFIGURED"
        \/ 0 \in {p.generation, p.policy, p.profile, p.round, p.max_age, p.threshold}
        \/ Len(p.peers) \notin 1 .. CORROBORATION_CAPACITY
        \/ p.threshold > Len(p.peers)
        \/ p.required_roles = {} \/ ~(p.required_roles \subseteq 0 .. 4)
        \/ \E i \in at : p.peers[i].id = 0 \/ p.peers[i].role > 4
        \/ \E i, j \in at : i # j /\ p.peers[i].id = p.peers[j].id
        \/ ~(p.required_roles \subseteq {p.peers[i].role : i \in at})
     THEN "REJECTED" ELSE "OK"

gc_configure(c, p) ==
  IF gc_configure_result(c, p) = "OK"
    THEN [c EXCEPT !.state = "INSUFFICIENT",
                   !.slots = [i \in DOMAIN p.peers |->
                                [report |-> NoReport, received_at |-> 0,
                                 seen |-> FALSE, available |-> FALSE]]]
    ELSE c

(* Mutant: a rejoin also replaces a latched conflict.                      *)
gc_require_rejoin_always(c) ==
  IF c.state = "UNCONFIGURED" THEN c ELSE [c EXCEPT !.state = "INSUFFICIENT"]

gc_require_rejoin(c) ==
  IF c.state \in {"UNCONFIGURED", "CONFLICT_LATCHED"} THEN c
  ELSE [c EXCEPT !.state = "REJOIN_REQUIRED"]

(* The slot of a peer; 0 for a peer the round does not know.               *)
peer_index(c, id) ==
  LET at == {i \in DOMAIN c.slots : Round.peers[i].id = id}
  IN IF at = {} THEN 0 ELSE Min(at)

clock_ok(c, now, valid) == valid /\ (c.clock_seen => now >= c.last_clock)

clock_check(c, now, valid) ==
  IF clock_ok(c, now, valid) THEN [c EXCEPT !.last_clock = now, !.clock_seen = TRUE]
  ELSE gc_require_rejoin(c)

FreshPeers(c, now) ==
  {i \in DOMAIN c.slots :
     /\ c.slots[i].seen /\ c.slots[i].available
     /\ c.slots[i].report.same_round_ack = 1
     /\ now >= c.slots[i].received_at
     /\ now - c.slots[i].received_at <= Round.max_age}

evaluate(c, now) ==
  LET fresh == FreshPeers(c, now)
      enough == /\ Cardinality(fresh) >= Round.threshold
                /\ Round.required_roles \subseteq {Round.peers[i].role : i \in fresh}
  IN IF c.state \in {"INSUFFICIENT", "CORROBORATED"}
       THEN [c EXCEPT !.state = IF enough THEN "CORROBORATED" ELSE "INSUFFICIENT"]
       ELSE c

(* Mutant: only the peers whose link is up can contradict a report.        *)
contradicted_available(c, commitment) ==
  \E i \in DOMAIN c.slots : /\ c.slots[i].seen /\ c.slots[i].available
                            /\ c.slots[i].report.commitment # commitment

contradicted(c, commitment) ==
  \E i \in DOMAIN c.slots : /\ c.slots[i].seen
                            /\ c.slots[i].report.commitment # commitment

(* gc_submit.  The report of peer i carries the wire observation o; the    *)
(* rest of it the node fills in from authentication, freshness and the ack.*)
(* A report whose flags for these are not set is rejected like the first   *)
(* ones here and changes nothing.                                          *)
gc_submit_result(c, i, o, r, now, valid) ==
  LET slot == c.slots[i]
  IN IF \/ c.state = "UNCONFIGURED" \/ i \notin DOMAIN c.slots
        \/ << o.generation, o.policy, o.profile, o.round >> #
           << Round.generation, Round.policy, Round.profile, Round.round >>
        \/ 0 \in {r.epoch, r.sequence}
        \/ (slot.seen /\ r.epoch = slot.report.epoch /\ r.sequence <= slot.report.sequence)
       THEN "REJECTED"
     ELSE IF ~clock_ok(c, now, valid) THEN "CLOCK_FAILURE"
     ELSE IF c.state \in {"CONFLICT_LATCHED", "REJOIN_REQUIRED"} THEN "LATCHED"
     ELSE IF slot.seen /\ r.epoch # slot.report.epoch THEN "EPOCH_CHANGE"
     ELSE IF \/ o.claims_actuation = 1 /\ Round.peers[i].role # 0
             \/ contradicted(c, r.commitment)
       THEN "CONFLICT"
     ELSE "OK"

gc_submit(c, i, o, r, now, valid) ==
  LET result == gc_submit_result(c, i, o, r, now, valid)
      timed == clock_check(c, now, valid)
      stored == [timed EXCEPT !.slots[i] = [report |-> r, received_at |-> now,
                                            seen |-> TRUE, available |-> TRUE]]
  IN CASE result = "REJECTED" -> c
       [] result \in {"CLOCK_FAILURE", "LATCHED"} -> timed
       [] result = "EPOCH_CHANGE" -> gc_require_rejoin(timed)
       [] result = "CONFLICT" -> [timed EXCEPT !.state = "CONFLICT_LATCHED",
                                               !.conflict_present = TRUE]
       [] OTHER -> evaluate(stored, now)

gc_query_result(c, now, valid) ==
  IF c.state = "UNCONFIGURED" THEN "REJECTED"
  ELSE IF clock_ok(c, now, valid) THEN "OK" ELSE "CLOCK_FAILURE"

gc_query(c, now, valid) ==
  IF c.state = "UNCONFIGURED" THEN c ELSE evaluate(clock_check(c, now, valid), now)

gc_assessment(c, now, valid) ==
  [eligible_for_local_review |->
     /\ gc_query_result(c, now, valid) = "OK"
     /\ gc_query(c, now, valid).state = "CORROBORATED"]

gc_link_loss(c, i, now, valid) ==
  IF c.state = "UNCONFIGURED" \/ i \notin DOMAIN c.slots THEN c
  ELSE IF ~clock_ok(c, now, valid) THEN clock_check(c, now, valid)
  ELSE evaluate([clock_check(c, now, valid) EXCEPT !.slots[i].available = FALSE], now)
---------------------------------------------------------------------------
NoReview == [eligible_for_local_review |-> FALSE]

RoundInit == /\ gc = gc_init
             /\ heard = {}
             /\ review = NoReview

ConfigureRound ==
  /\ gc' = gc_configure(gc, Round)
  /\ UNCHANGED << heard, review >>

(* The application abandons the round and starts another context.          *)
ResetRound == /\ gc.state \in {"CONFLICT_LATCHED", "REJOIN_REQUIRED"}
              /\ gc' = gc_init
              /\ heard' = {}
              /\ review' = NoReview

PeerIds == {Round.peers[i].id : i \in DOMAIN Round.peers}

(* The clock a caller reads: at, after or behind the reading before it, or *)
(* a reading that is not valid.                                            *)
Readings ==
  {<< t, TRUE >> : t \in (gc.last_clock - 1 .. gc.last_clock + 1) \cap 0 .. MaxRoundClock}
  \cup {<< gc.last_clock, FALSE >>}

(* A peer's observation and the acknowledgement it returns for the         *)
(* observation this node has pending, both through their codecs.           *)
SubmitReport ==
  /\ gc.state # "UNCONFIGURED"
  /\ \E said \in Reports :
       LET sent == [generation |-> Round.generation, policy |-> Round.policy,
                    profile |-> Round.profile, round |-> said.round,
                    claims_actuation |-> said.claims, commitment |-> said.commitment]
           ack(n) == [generation |-> Round.generation, policy |-> Round.policy,
                      profile |-> Round.profile, round |-> Round.round,
                      observation_epoch |-> 1, observation_sequence |-> n,
                      commitment |-> said.commitment]
           matches == \E a \in gc_ack_decode(gc_ack_encode(ack(said.acked))) :
                        gc_ack_match(a, ack(1)) = "OK"
       IN \E o \in gc_wire_decode(gc_wire_encode(sent)) :
            \E r \in {[epoch |-> said.epoch, sequence |-> said.sequence,
                       same_round_ack |-> IF matches THEN 1 ELSE 0,
                       commitment |-> o.commitment]},
               id \in PeerIds \cup {0}, clock \in Readings :
              LET i == peer_index(gc, id)
              IN /\ gc' = gc_submit(gc, i, o, r, clock[1], clock[2])
                 /\ heard' = IF gc_submit_result(gc, i, o, r, clock[1], clock[2])
                                  \in {"OK", "CONFLICT"}
                               THEN heard \cup {said.commitment} ELSE heard
  /\ review' = NoReview

QueryRound ==
  \E clock \in Readings :
    /\ gc' = gc_query(gc, clock[1], clock[2])
    /\ review' = gc_assessment(gc, clock[1], clock[2])
    /\ UNCHANGED heard

LoseLink ==
  \E id \in PeerIds \cup {0}, clock \in Readings :
    /\ gc.state # "UNCONFIGURED"
    /\ gc' = gc_link_loss(gc, peer_index(gc, id), clock[1], clock[2])
    /\ review' = NoReview
    /\ UNCHANGED heard

RoundNext == ConfigureRound \/ ResetRound \/ SubmitReport \/ QueryRound \/ LoseLink
---------------------------------------------------------------------------
(* An assessment that is eligible for local review means agreement: every  *)
(* commitment the round has heard is the same one, also from peers whose   *)
(* link was lost since, and enough peers with the required roles reported  *)
(* it no longer than max_age ago by a clock that never ran backwards.      *)
ReviewMeansAgreement ==
  review.eligible_for_local_review =>
    /\ Cardinality(heard) = 1
    /\ \E agreeing \in SUBSET DOMAIN gc.slots :
         /\ Cardinality(agreeing) >= Round.threshold
         /\ Round.required_roles \subseteq {Round.peers[i].role : i \in agreeing}
         /\ \A i \in agreeing : /\ gc.slots[i].report.commitment \in heard
                                /\ gc.last_clock - gc.slots[i].received_at <= Round.max_age

(* A conflict is final: once two commitments disagreed, or a peer without  *)
(* the right claimed actuation, the context stays latched and no query     *)
(* finds it eligible until the application starts another round.           *)
ConflictIsFinal ==
  [][gc.conflict_present =>
       \/ gc' = gc_init
       \/ gc'.state = "CONFLICT_LATCHED" /\ ~review'.eligible_for_local_review]_roundVars
=============================================================================
