------------------------ MODULE PersistentAntiReplay ------------------------
(***************************************************************************)
(* Persistent anti-replay: the freshness runtime in RAM, the dual-slot     *)
(* freshness store in flash and the external rollback anchor, composed by  *)
(*   firmware/NodeLink/Src/guardian_node_link_persistent_anti_replay.c     *)
(* and committed through                                                   *)
(*   firmware/NodeLink/Src/guardian_node_link_freshness_persistence.c.     *)
(*                                                                         *)
(* Continuing a session is a three-party update: flash slot, then anchor,  *)
(* then RAM.  Every provider call is one action here, power may be lost    *)
(* between any two of them and in the middle of a flash or anchor          *)
(* operation, every operation may fail with or without taking effect, and  *)
(* the medium may be replaced by older content while powered down.         *)
(***************************************************************************)
EXTENDS FreshnessStore

CONSTANTS
  Self,      \* expected_identity: the one peer this node tracks
  MaxGap     \* policy->max_forward_gap

ASSUME AntiReplayConstants ==
  /\ Self \in Ids
  /\ MaxGap \in Nat \ {0}
  /\ MaxGen > 1
  /\ NoRec \notin [id : Ids, epoch : Epochs, seq : 0..MaxSeq]

VARIABLES
  slot,      \* the two flash slots
  pending,   \* backend->pending_slot while pending_valid = 1, else "none"
  anchor,    \* the anchored record (generation + commitment); NoRec: unprovisioned
  runtime,   \* accepted session in RAM; NoRec: UNINITIALIZED
  call,      \* the transaction in flight and the step it is at
  ret,       \* what the last completed call returned
  acked,     \* history: highest record a recover or a commit reported OK for
  written,   \* history: every record that was ever VALID in flash
  intact     \* history: the medium has never been replaced by old content

vars == <<slot, pending, anchor, runtime, call, ret, acked, written, intact>>

NoCall == [pc |-> "idle", prev |-> NoRec, cand |-> NoRec, target |-> "A",
           base |-> NoRec]
NoRet  == [result |-> "none", outcome |-> "none", base |-> NoRec]

Session(r) == [id |-> r.id, epoch |-> r.epoch, seq |-> r.seq]

Highest(old, r) == IF old # NoRec /\ old.seq > r.seq THEN old ELSE r

-----------------------------------------------------------------------------
(* Results.                                                                *)

map_persistence_operation(op) ==
  CASE op = "OK" -> "OK"
    [] op = "UNAVAILABLE" -> "PROVIDER_UNAVAILABLE"
    [] op = "GENERATION_EXHAUSTED" -> "GENERATION_EXHAUSTED"
    [] op \in {"STATE_UNCERTAIN", "IO_FAILURE", "VERIFY_FAILURE",
               "COMMIT_FAILURE"} -> "STATE_UNCERTAIN"
    [] OTHER -> "INVALID"

map_anchor_provider_result(op) ==
  CASE op = "OK" -> "OK"
    [] op = "UNAVAILABLE" -> "PROVIDER_UNAVAILABLE"
    [] op = "EXHAUSTED" -> "GENERATION_EXHAUSTED"
    [] op \in {"IO_ERROR", "INTEGRITY_ERROR", "CONFLICT"} -> "STATE_UNCERTAIN"
    [] OTHER -> "INVALID"

(* Media faults a read, erase or program may report.                       *)
MediaFaults == {"UNAVAILABLE", "IO_FAILURE"}

(* Anchor provider failures, one for each result they are mapped to.       *)
AnchorFaults == {"UNAVAILABLE", "IO_ERROR", "UNSUPPORTED"}

(* What reading the anchor (or its status) may return: the truth, a status *)
(* other than VALID or UNPROVISIONED, or a provider failure.               *)
anchor_views ==
  {[op |-> "OK", status |-> IF anchor = NoRec THEN "UNPROVISIONED" ELSE "VALID",
    rec |-> anchor]}
  \cup {[op |-> "OK", status |-> "INDETERMINATE", rec |-> NoRec]}
  \cup {[op |-> e, status |-> "INVALID", rec |-> NoRec] : e \in AnchorFaults}

(* Mutant: only an older anchor is noticed, an older record is not.        *)
anchor_compare_no_behind(a, r) ==
  CASE r.id # a.id -> "IDENTITY_MISMATCH"
    [] r.id = a.id /\ r.gen > a.gen -> "AHEAD"
    [] OTHER -> "MATCH"

(* guardian_node_link_rollback_anchor_compare.  The commitment is a digest *)
(* over the whole record, so equal commitments are equal records.          *)
anchor_compare(a, r) ==
  CASE r.id # a.id -> "IDENTITY_MISMATCH"
    [] r.id = a.id /\ r.gen < a.gen -> "BEHIND"
    [] r.id = a.id /\ r.gen > a.gen -> "AHEAD"
    [] r.id = a.id /\ r.gen = a.gen /\ r # a -> "STATE_MISMATCH"
    [] OTHER -> "MATCH"

(* Reading the two slots: recovery over the true images or a read fault.   *)
loads ==
  {recover_internal(slot)}
  \cup {Found(e, "UNAVAILABLE_STATE", NoRec, "A") : e \in MediaFaults}

-----------------------------------------------------------------------------
(* Mutant: flash is trusted whenever the anchor is readable.               *)
recover_result_flash_only(load, st, rd) ==
  IF load.op # "OK" THEN map_persistence_operation(load.op)
  ELSE IF ~record_valid(load.rec, Self) THEN "INVALID"
  ELSE map_anchor_provider_result(st.op)

(* guardian_node_link_persistent_anti_replay_recover: what it returns for  *)
(* one load, one anchor status and one anchor read.                        *)
recover_result(load, st, rd) ==
  LET anchored ==
        IF st.op # "OK" THEN map_anchor_provider_result(st.op)
        ELSE IF load.status = "NO_PERSISTED_STATE"
          THEN CASE st.status = "UNPROVISIONED" -> "BOOTSTRAP_REQUIRED"
                 [] st.status = "VALID" -> "ROLLBACK_SUSPECTED"
                 [] OTHER -> "FRESHNESS_UNKNOWN"
        ELSE IF st.status # "VALID"
          THEN IF st.status = "UNPROVISIONED" THEN "ROLLBACK_SUSPECTED"
               ELSE "FRESHNESS_UNKNOWN"
        ELSE IF rd.op # "OK" THEN map_anchor_provider_result(rd.op)
        ELSE IF rd.status # "VALID" THEN "FRESHNESS_UNKNOWN"
        ELSE LET c == anchor_compare(rd.rec, load.rec)
             IN CASE c = "MATCH" -> "OK"
                  [] c = "BEHIND" -> "ROLLBACK_SUSPECTED"
                  [] c = "AHEAD" -> "STATE_UNCERTAIN"
                  [] OTHER -> "STATE_MISMATCH"
  IN IF load.op # "OK" THEN map_persistence_operation(load.op)
     ELSE IF load.status \in {"CORRUPTED_STATE", "TORN_OR_INCOMPLETE_UPDATE"}
       THEN "FRESHNESS_UNKNOWN"
     ELSE IF load.status = "VALID_PERSISTED_STATE"
             /\ ~record_valid(load.rec, Self)
       THEN "INVALID"
     ELSE anchored

(* The checks of commit_continuation before the transaction starts.        *)
continuation_check(prev, next_epoch, next_seq, rd) ==
  IF ~record_valid(prev, Self) THEN "INVALID"
  ELSE IF runtime # [id |-> Self, epoch |-> prev.epoch, seq |-> prev.seq]
    THEN "STATE_MISMATCH"
  ELSE IF rd.op # "OK" THEN map_anchor_provider_result(rd.op)
  ELSE IF rd.status # "VALID" THEN "FRESHNESS_UNKNOWN"
  ELSE IF anchor_compare(rd.rec, prev) = "BEHIND" THEN "ROLLBACK_SUSPECTED"
  ELSE IF anchor_compare(rd.rec, prev) # "MATCH" THEN "STATE_MISMATCH"
  ELSE IF next_epoch # prev.epoch THEN "EPOCH_TRANSITION_REQUIRED"
  ELSE IF next_seq = 0 \/ next_seq <= prev.seq THEN "REPLAY_OR_REGRESSION"
  ELSE IF prev.gen >= MaxGen - 1 THEN "GENERATION_EXHAUSTED"
  ELSE "OK"

(* A continuation stays in its epoch and moves its sequence forward.       *)
transition_valid(prev, cand) ==
  prev = NoRec \/ (cand.epoch = prev.epoch /\ cand.seq > prev.seq)

next_generation(prev) == IF prev = NoRec THEN 0 ELSE prev.gen + 1

(* The checks of transact_commit before its first stage; prev is NoRec for *)
(* a bootstrap (previous_record NULL).                                     *)
transact_check(prev, cand) ==
  IF prev # NoRec /\ ~record_valid(prev, Self) THEN "INVALID"
  ELSE IF ~record_valid(cand, Self) THEN "INVALID"
  ELSE IF prev # NoRec /\ prev.gen = MaxGen THEN "GENERATION_EXHAUSTED"
  ELSE IF cand.gen # next_generation(prev) THEN "INVALID"
  ELSE IF ~transition_valid(prev, cand) THEN "INVALID"
  ELSE "OK"

(* evaluate_internal on an ACTIVE or UNINITIALIZED runtime.                *)
evaluate_internal(msg) ==
  IF runtime = NoRec THEN "OBSERVE_ONLY"
  ELSE IF msg.id # runtime.id THEN "IDENTITY_MISMATCH"
  ELSE IF runtime.seq = MaxSeq THEN "SESSION_REPLACEMENT_REQUIRED"
  ELSE IF msg.epoch # runtime.epoch THEN "EPOCH_TRANSITION_REQUIRED"
  ELSE IF msg.seq = runtime.seq THEN "REPLAY_DUPLICATE"
  ELSE IF msg.seq < runtime.seq THEN "REPLAY_REGRESSION"
  ELSE IF msg.seq - runtime.seq > MaxGap THEN "FORWARD_GAP_EXCEEDED"
  ELSE "ACCEPT"

-----------------------------------------------------------------------------
Init ==
  /\ slot = [s \in Slots |-> Erased]
  /\ pending = "none"
  /\ anchor = NoRec
  /\ runtime = NoRec
  /\ call = NoCall
  /\ ret = NoRet
  /\ acked = NoRec
  /\ written = {}
  /\ intact = TRUE

Idle == call.pc = "idle"

(* The call returns: result to the caller, outcome of the transaction.     *)
Return(result, outcome) ==
  /\ call' = NoCall
  /\ ret' = [result |-> result, outcome |-> outcome, base |-> call.base]

(* A stage of transact_commit ended with op # OK.  A continuation maps the *)
(* operation result once more; a bootstrap caller sees it as it is.        *)
StageFails(stage, op) ==
  LET r == handle_stage_result(stage, op)
  IN Return(IF call.prev = NoRec THEN r ELSE map_persistence_operation(r),
            stage_outcome(stage, op))

Keep == UNCHANGED <<runtime, anchor, acked, intact>>

(* transact_commit with previous_record NULL: the first record of a peer.  *)
Bootstrap(cand) ==
  /\ Idle
  /\ LET r == transact_check(NoRec, cand)
     IN IF r = "OK"
          THEN /\ call' = [pc |-> "write", prev |-> NoRec, cand |-> cand,
                           target |-> "A", base |-> recover_internal(slot).rec]
               /\ ret' = NoRet
          ELSE /\ ret' = [result |-> r, outcome |-> "ABORTED",
                          base |-> recover_internal(slot).rec]
               /\ call' = NoCall
  /\ UNCHANGED <<slot, pending, written>> /\ Keep

(* commit_continuation up to the first flash operation of its transaction. *)
(* The caller's previous_record is one an earlier call handed out, or the  *)
(* zeroed one a failed call leaves.                                        *)
CommitContinuation(prev, next_epoch, next_seq) ==
  /\ Idle
  /\ \E rd \in anchor_views :
       LET r == continuation_check(prev, next_epoch, next_seq, rd)
           cand == [id |-> prev.id, epoch |-> prev.epoch, seq |-> next_seq,
                    gen |-> prev.gen + 1]
           t == transact_check(prev, cand)
       IN IF r = "OK" /\ t = "OK"
            THEN /\ call' = [pc |-> "write", prev |-> prev, cand |-> cand,
                             target |-> "A", base |-> recover_internal(slot).rec]
                 /\ ret' = NoRet
            ELSE /\ ret' = [result |-> IF r # "OK" THEN r
                                       ELSE map_persistence_operation(t),
                            outcome |-> "none", base |-> NoRec]
                 /\ call' = NoCall
  /\ UNCHANGED <<slot, pending, written>> /\ Keep

(* write_candidate: scan, decide, erase the slot that is not current.      *)
WriteErase ==
  /\ call.pc = "write"
  /\ pending' = "none"
  /\ \E load \in loads :
       LET r == write_precheck(load, call.cand)
           t == target_slot(load)
       IN \/ /\ r # "OK"
             /\ StageFails("write", r)
             /\ UNCHANGED slot
          \/ /\ r = "OK"
             /\ slot' = [slot EXCEPT ![t] = Erased]
             /\ call' = [call EXCEPT !.pc = "program", !.target = t]
             /\ UNCHANGED ret
          \/ /\ r = "OK"
             /\ \E e \in MediaFaults, image \in interrupted_erase(slot[t]) :
                  /\ slot' = [slot EXCEPT ![t] = image]
                  /\ StageFails("write", e)
  /\ UNCHANGED written /\ Keep

(* write_candidate: program header and payload.  Flash that reports        *)
(* success may still hold bits that did not take.                          *)
ProgramBody ==
  /\ call.pc = "program"
  /\ \/ /\ \E image \in {Staged(call.cand), Partial} :
             slot' = [slot EXCEPT ![call.target] = image]
        /\ pending' = call.target
        /\ call' = [call EXCEPT !.pc = "verify"]
        /\ UNCHANGED ret
     \/ /\ \E e \in MediaFaults,
              image \in interrupted_body(slot[call.target], call.cand) :
             /\ slot' = [slot EXCEPT ![call.target] = image]
             /\ StageFails("write", e)
        /\ UNCHANGED pending
  /\ UNCHANGED written /\ Keep

(* verify_candidate: the results one read-back of the pending slot may     *)
(* give.                                                                   *)
verify_results(cand) ==
  IF pending = "none" THEN {"VERIFY_FAILURE"}
  ELSE MediaFaults
       \cup {IF slot[pending] = Staged(cand) THEN "OK" ELSE "VERIFY_FAILURE"}

Verify ==
  /\ call.pc = "verify"
  /\ \E r \in verify_results(call.cand) :
       IF r = "OK"
         THEN call' = [call EXCEPT !.pc = "commit"] /\ UNCHANGED ret
         ELSE StageFails("verify", r)
  /\ UNCHANGED <<slot, pending, written>> /\ Keep

(* commit_candidate: verify again, then program the commit marker.         *)
CommitMarker ==
  /\ call.pc = "commit"
  /\ \/ /\ pending = "none"
        /\ StageFails("commit", "COMMIT_FAILURE")
        /\ UNCHANGED <<slot, pending, written>>
     \/ /\ pending # "none"
        /\ verify_results(call.cand) # {"OK"}
        /\ StageFails("commit", "VERIFY_FAILURE")
        /\ pending' = "none"
        /\ UNCHANGED <<slot, written>>
     \/ /\ pending # "none"
        /\ "OK" \in verify_results(call.cand)
        /\ \E image \in interrupted_marker(call.cand) :
             /\ slot' = [slot EXCEPT ![pending] = image]
             /\ written' = written \cup
                             (IF image.st = "VALID" THEN {call.cand} ELSE {})
        /\ \/ call' = [call EXCEPT !.pc = "readback"] /\ UNCHANGED <<ret, pending>>
           \/ StageFails("commit", "STATE_UNCERTAIN") /\ pending' = "none"
  /\ Keep

(* commit_candidate: read the slot back, report COMMITTED only when it     *)
(* scans VALID with exactly the candidate.                                 *)
Readback ==
  /\ call.pc = "readback"
  /\ pending' = "none"
  /\ \/ /\ slot[pending] = Valid(call.cand)
        /\ IF call.prev = NoRec
             THEN Return("OK", "COMMITTED")
             ELSE call' = [call EXCEPT !.pc = "advance"] /\ UNCHANGED ret
     \/ StageFails("commit", "STATE_UNCERTAIN")
  /\ UNCHANGED <<slot, written>> /\ Keep

(* guardian_node_link_rollback_anchor_advance; the provider behind it      *)
(* compares the expected generation and replaces the anchored record.      *)
advance_result ==
  IF call.prev.gen >= MaxGen - 1 THEN "EXHAUSTED"
  ELSE IF call.cand.gen # call.prev.gen + 1 THEN "INVALID_ARGUMENT"
  ELSE IF anchor = NoRec THEN "CONFLICT"
  ELSE IF anchor.gen # call.prev.gen THEN "CONFLICT"
  ELSE "OK"

AnchorAdvance ==
  /\ call.pc = "advance"
  /\ \/ /\ advance_result = "OK"
        /\ anchor' = call.cand
        /\ call' = [call EXCEPT !.pc = "check"]
        /\ UNCHANGED ret
     \/ /\ advance_result # "OK"
        /\ anchor' = anchor
        /\ Return(map_anchor_provider_result(advance_result), "COMMITTED")
     \/ /\ advance_result = "OK"
        /\ anchor' \in {anchor, call.cand}
        /\ \E e \in AnchorFaults :
             Return(map_anchor_provider_result(e), "COMMITTED")
  /\ UNCHANGED <<slot, pending, runtime, acked, written, intact>>

(* The anchor is read back before RAM may move.                            *)
AnchorCheck ==
  /\ call.pc = "check"
  /\ \E rd \in anchor_views :
       IF rd.op = "OK" /\ rd.status = "VALID"
          /\ anchor_compare(rd.rec, call.cand) = "MATCH"
         THEN /\ runtime' = Session(call.cand)
              /\ acked' = Highest(acked, call.cand)
              /\ Return("OK", "COMMITTED")
         ELSE /\ Return(IF rd.op # "OK" THEN map_anchor_provider_result(rd.op)
                        ELSE "STATE_UNCERTAIN", "COMMITTED")
              /\ UNCHANGED <<runtime, acked>>
  /\ UNCHANGED <<slot, pending, anchor, written, intact>>

-----------------------------------------------------------------------------
(* recover: clears the runtime first, restores it only on OK.              *)
Recover ==
  /\ Idle
  /\ \E load \in loads, st \in anchor_views, rd \in anchor_views :
       LET r == recover_result(load, st, rd)
       IN /\ runtime' = IF r = "OK" THEN Session(load.rec) ELSE NoRec
          /\ acked' = IF r = "OK" THEN Highest(acked, load.rec) ELSE acked
          /\ ret' = [result |-> r, outcome |-> "none", base |-> NoRec]
  /\ UNCHANGED <<slot, pending, anchor, call, written, intact>>

(* evaluate_and_apply: an accepted message moves the RAM state only.       *)
EvaluateAndApply(msg) ==
  /\ Idle
  /\ evaluate_internal(msg) = "ACCEPT"
  /\ runtime' = [runtime EXCEPT !.seq = msg.seq]
  /\ UNCHANGED <<slot, pending, anchor, call, ret, acked, written, intact>>

(* External: the governed provisioning step that creates the anchor for    *)
(* the bootstrapped record.                                                *)
ProvisionAnchor ==
  /\ Idle
  /\ anchor = NoRec
  /\ recover_internal(slot).status = "VALID_PERSISTED_STATE"
  /\ anchor' = recover_internal(slot).rec
  /\ UNCHANGED <<slot, pending, runtime, call, ret, acked, written, intact>>

-----------------------------------------------------------------------------
(* Power is lost at any point: RAM is gone, the flash operation under way  *)
(* stops somewhere, an anchor advance happened or did not.                 *)
interrupted_slots ==
  CASE call.pc = "write" ->
         LET found == recover_internal(slot)
             t == target_slot(found)
         IN IF write_precheck(found, call.cand) = "OK"
              THEN {[slot EXCEPT ![t] = image] :
                      image \in interrupted_erase(slot[t])}
              ELSE {slot}
    [] call.pc = "program" ->
         {[slot EXCEPT ![call.target] = image] :
            image \in interrupted_body(slot[call.target], call.cand)}
    [] call.pc = "commit" /\ pending # "none"
         /\ "OK" \in verify_results(call.cand) ->
         {[slot EXCEPT ![pending] = image] :
            image \in interrupted_marker(call.cand)}
    [] OTHER -> {slot}

RamReset ==
  /\ pending' = "none"
  /\ runtime' = NoRec
  /\ call' = NoCall
  /\ ret' = NoRet

PowerLoss ==
  /\ slot' \in interrupted_slots
  /\ anchor' \in {anchor} \cup
       (IF call.pc = "advance" /\ advance_result = "OK" THEN {call.cand} ELSE {})
  /\ written' = written \cup {slot'[s].rec : s \in {x \in Slots : slot'[x].st = "VALID"}}
  /\ RamReset
  /\ UNCHANGED <<acked, intact>>

(* While powered down the flash content is replaced by older content.      *)
RestoreOldMedia ==
  /\ Idle
  /\ slot' \in [Slots -> {Erased} \cup {Valid(r) : r \in written}]
  /\ slot' # slot
  /\ RamReset
  /\ intact' = FALSE
  /\ UNCHANGED <<anchor, acked, written>>

Next ==
  \/ \E cand \in Records : Bootstrap(cand)
  \/ \E prev \in written \cup {NoRec}, e \in Epochs, n \in 0..MaxSeq :
       CommitContinuation(prev, e, n)
  \/ WriteErase \/ ProgramBody \/ Verify \/ CommitMarker \/ Readback
  \/ AnchorAdvance \/ AnchorCheck
  \/ Recover
  \/ \E id \in Ids, e \in Epochs \ {0}, n \in 1..MaxSeq :
       EvaluateAndApply([id |-> id, epoch |-> e, seq |-> n])
  \/ ProvisionAnchor
  \/ PowerLoss
  \/ RestoreOldMedia

Spec == Init /\ [][Next]_vars

-----------------------------------------------------------------------------
(* Refinement: the acknowledged record is the floor, RAM is the view.      *)
floor == IF acked = NoRec THEN 0 ELSE acked.seq
view  == IF runtime = NoRec THEN 0 ELSE runtime.seq

Guard == INSTANCE ReplayGuard WITH floor <- floor, view <- view

Steps == {"idle", "write", "program", "verify", "commit", "readback",
          "advance", "check"}

Results == {"none", "OK", "INVALID", "PROVIDER_UNAVAILABLE",
            "FRESHNESS_UNKNOWN", "BOOTSTRAP_REQUIRED", "ROLLBACK_SUSPECTED",
            "STATE_UNCERTAIN", "STATE_MISMATCH", "EPOCH_TRANSITION_REQUIRED",
            "REPLAY_OR_REGRESSION", "GENERATION_EXHAUSTED", "UNAVAILABLE",
            "IO_FAILURE", "VERIFY_FAILURE", "COMMIT_FAILURE"}

(* Every variable keeps its type.                                          *)
TypeOK ==
  /\ slot \in [Slots -> Images]
  /\ pending \in Slots \cup {"none"}
  /\ anchor \in Records \cup {NoRec}
  /\ runtime \in [id : Ids, epoch : Epochs, seq : 0..MaxSeq] \cup {NoRec}
  /\ call \in [pc : Steps, prev : Records \cup {NoRec},
               cand : Records \cup {NoRec}, target : Slots,
               base : Records \cup {NoRec}]
  /\ ret \in [result : Results,
              outcome : {"none", "ABORTED", "STATE_UNCERTAIN", "COMMITTED"},
              base : Records \cup {NoRec}]
  /\ acked \in Records \cup {NoRec}
  /\ written \subseteq Records
  /\ intact \in BOOLEAN

(* No replay across resets: whatever was lost, interrupted or rolled back, *)
(* an ACTIVE runtime is never behind the highest state that recover or        *)
(* commit_continuation reported OK for, so a message that was accepted and *)
(* persisted is never accepted again.                                      *)
NoReplayAfterReset ==
  runtime # NoRec /\ acked # NoRec =>
    /\ runtime.id = acked.id
    /\ runtime.epoch = acked.epoch
    /\ runtime.seq >= acked.seq

(* While the medium is the device's own, the anchored record itself is in  *)
(* a valid slot: no interruption of a commit destroys the state that the   *)
(* anchor vouches for.                                                     *)
AnchoredRecordDurable ==
  intact /\ anchor # NoRec => \E s \in Slots : slot[s] = Valid(anchor)

(* COMMITTED means durable: the new record is in flash and is the one      *)
(* recovery selects when the call returns OK.                              *)
OkIsDurable ==
  ret.result = "OK" /\ ret.outcome = "COMMITTED" /\ intact /\ runtime # NoRec =>
    /\ recover_internal(slot).op = "OK"
    /\ recover_internal(slot).rec # ret.base
    /\ recover_internal(slot).rec = acked

(* Durable state survives: what the anchor vouches for and what a call     *)
(* reported as committed are both in flash, at every step of every call.   *)
DurableState == AnchoredRecordDurable /\ OkIsDurable

(* The anchor moves forward one generation at a time, stays with its peer  *)
(* and epoch, and takes a strictly larger sequence each time.              *)
AnchorStepwise ==
  [][anchor # NoRec /\ anchor' # anchor => transition_is_adjacent(anchor, anchor')]_vars

(* The three-party update implements the replay guard: however a commit is *)
(* interrupted, the caller sees only sessions that are established at or   *)
(* above everything acknowledged before, move forward, or are lost.        *)
ImplementsGuard == Guard!Spec

(* What docs/specs/M16-R3D-Rollback-Anchor-Software-Contract-v0.1.md,      *)
(* section 11.3, requires of recovery: when a slot holds exactly the       *)
(* anchored record, that record is the one recovered, also when the other  *)
(* slot holds an unanchored future record.                                 *)
AnchoredSlotRecovered ==
  Idle /\ intact /\ anchor # NoRec
       /\ (\E s \in Slots : slot[s] = Valid(anchor))
       /\ (\A s \in Slots : slot[s].st # "CORRUPTED")
       /\ (\A s \in Slots : slot[s].st = "VALID" /\ slot[s].rec.gen = anchor.gen
                              => slot[s].rec = anchor) =>
    LET truth == [op |-> "OK", status |-> "VALID", rec |-> anchor]
    IN recover_result(recover_internal(slot), truth, truth) = "OK"
=============================================================================
