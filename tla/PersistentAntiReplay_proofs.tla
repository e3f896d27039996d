--------------------- MODULE PersistentAntiReplay_proofs ---------------------
(***************************************************************************)
(* Proofs about PersistentAntiReplay for every set of identities and       *)
(* epochs and every sequence and generation range.                         *)
(*                                                                         *)
(* NoReplayAfterReset is not inductive: it relates RAM to what was         *)
(* acknowledged, while the steps that could break it go through the        *)
(* anchor.  The strengthening puts the anchor between the two: the         *)
(* acknowledged record is never above the anchored one, and a continuation *)
(* in flight holds the anchored record as its previous one until the       *)
(* advance, as its candidate after it.                                     *)
(***************************************************************************)
EXTENDS PersistentAntiReplay, TLAPS

MaybeRecord == Records \cup {NoRec}

CallType == [pc : Steps, prev : MaybeRecord, cand : MaybeRecord,
             target : Slots, base : MaybeRecord]

RetType == [result : Results,
            outcome : {"none", "ABORTED", "STATE_UNCERTAIN", "COMMITTED"},
            base : MaybeRecord]

SlotsOK(sl) ==
  /\ sl \in [Slots -> Images]
  /\ \A s \in Slots : sl[s].st = "VALID" => sl[s].rec \in Records

(* A valid slot holds a record, a call in flight holds a valid candidate.  *)
DataInv ==
  /\ \A s \in Slots : slot[s].st = "VALID" => slot[s].rec \in Records
  /\ call.pc # "idle" =>
       /\ call.cand \in Records
       /\ record_valid(call.cand, Self)

(* A continuation in flight continues the anchored record.                 *)
CallInv ==
  /\ call.pc \in {"advance", "check"} => call.prev # NoRec
  /\ call.pc # "idle" /\ call.prev # NoRec =>
       transition_is_adjacent(call.prev, call.cand)
  /\ call.pc \notin {"idle", "check"} /\ call.prev # NoRec =>
       anchor = call.prev
  /\ call.pc = "check" => anchor = call.cand

(* Acknowledged records are at or below the anchored one.                  *)
AckInv ==
  acked # NoRec =>
    /\ anchor # NoRec
    /\ acked.id = anchor.id
    /\ acked.epoch = anchor.epoch
    /\ acked.seq <= anchor.seq
    /\ acked.seq # 0

(* An active session was acknowledged.                                     *)
RuntimeInv == runtime # NoRec => acked # NoRec

IInv == TypeOK /\ DataInv /\ CallInv /\ AckInv /\ RuntimeInv /\ NoReplayAfterReset

-----------------------------------------------------------------------------
(* What recovery returns for any pair of slot images.                      *)
LEMMA RecoverShape ==
  ASSUME NEW sl \in [Slots -> Images],
         \A s \in Slots : sl[s].st = "VALID" => sl[s].rec \in Records
  PROVE  /\ recover_internal(sl).rec \in MaybeRecord
         /\ recover_internal(sl).at \in Slots
         /\ recover_internal(sl).op \in {"OK", "STATE_UNCERTAIN"}
         /\ recover_internal(sl).status \in
              {"NO_PERSISTED_STATE", "VALID_PERSISTED_STATE", "CORRUPTED_STATE",
               "TORN_OR_INCOMPLETE_UPDATE", "UNAVAILABLE_STATE"}
         /\ recover_internal(sl).status = "VALID_PERSISTED_STATE" =>
              recover_internal(sl).rec \in Records
         /\ recover_internal(sl).op = "OK" =>
              recover_internal(sl).status # "UNAVAILABLE_STATE"
BY DEF recover_internal, Found, StateUncertain, Slots, MaybeRecord, Other

(* The anchor as read: whoever sees VALID sees the anchored record.        *)
LEMMA ViewShape ==
  ASSUME NEW v \in anchor_views, v.op = "OK", v.status = "VALID"
  PROVE  anchor # NoRec /\ v.rec = anchor
BY DEF anchor_views, AnchorFaults

(* A comparison that matches compares a record with itself.                *)
LEMMA CompareMatch ==
  ASSUME NEW a \in Records, NEW r \in Records, anchor_compare(a, r) = "MATCH"
  PROVE  r = a
BY StoreConstants DEF anchor_compare, Records

(* recover reports OK only for the anchored record.                        *)
LEMMA RecoverOk ==
  ASSUME TypeOK, DataInv,
         NEW load \in loads, NEW st \in anchor_views, NEW rd \in anchor_views,
         recover_result(load, st, rd) = "OK"
  PROVE  /\ anchor \in Records
         /\ load.rec = anchor
         /\ record_valid(load.rec, Self)
<1>1. load = recover_internal(slot)
  BY DEF loads, Found, MediaFaults, recover_result, map_persistence_operation
<1>2. load.status = "VALID_PERSISTED_STATE" /\ load.rec \in Records
  <2>1. load.op = "OK"
    BY <1>1 DEF recover_result, map_persistence_operation
  <2>2. load.status # "NO_PERSISTED_STATE"
    BY <2>1 DEF recover_result, map_anchor_provider_result
  <2>3. load.status \notin {"CORRUPTED_STATE", "TORN_OR_INCOMPLETE_UPDATE"}
    BY <2>1 DEF recover_result
  <2> QED
    BY <1>1, <2>1, <2>2, <2>3, RecoverShape DEF TypeOK, DataInv
<1>3. record_valid(load.rec, Self)
  BY <1>2 DEF recover_result, map_persistence_operation
<1>4. /\ rd.op = "OK" /\ rd.status = "VALID"
      /\ anchor_compare(rd.rec, load.rec) = "MATCH"
  BY <1>2, <1>3 DEF recover_result, map_persistence_operation,
     map_anchor_provider_result, anchor_views, AnchorFaults
<1>5. anchor \in Records /\ rd.rec = anchor
  BY <1>4, ViewShape DEF TypeOK
<1> QED
  BY <1>2, <1>3, <1>4, <1>5, CompareMatch

-----------------------------------------------------------------------------
(* Every result is one the caller knows.                                   *)
LEMMA ResultTypes ==
  /\ \A op : map_persistence_operation(op) \in Results
  /\ \A op : map_anchor_provider_result(op) \in Results
  /\ \A op : \A stage \in {"write", "verify", "commit"} :
       /\ handle_stage_result(stage, op) \in Results
       /\ stage_outcome(stage, op) \in {"ABORTED", "STATE_UNCERTAIN"}
<1>1. \A op : map_persistence_operation(op) \in Results
  BY DEF map_persistence_operation, Results
<1>2. \A op : map_anchor_provider_result(op) \in Results
  BY DEF map_anchor_provider_result, Results
<1>3. \A op : \A stage \in {"write", "verify", "commit"} :
        handle_stage_result(stage, op) \in Results
  BY DEF handle_stage_result, StageResults, Results
<1> QED
  BY <1>1, <1>2, <1>3 DEF stage_outcome

(* A call that returns leaves no call behind and a well-formed result.     *)
LEMMA ReturnShape ==
  ASSUME IInv, NEW r \in Results,
         NEW o \in {"none", "ABORTED", "STATE_UNCERTAIN", "COMMITTED"},
         Return(r, o)
  PROVE  call' = NoCall /\ ret' \in RetType
BY DEF Return, RetType, IInv, TypeOK, MaybeRecord

LEMMA StageFailsShape ==
  ASSUME IInv, NEW stage \in {"write", "verify", "commit"}, NEW op,
         StageFails(stage, op)
  PROVE  call' = NoCall /\ ret' \in RetType
<1> DEFINE r == handle_stage_result(stage, op)
           res == IF call.prev = NoRec THEN r ELSE map_persistence_operation(r)
<1>1. res \in Results
  BY ResultTypes
<1>2. stage_outcome(stage, op) \in {"ABORTED", "STATE_UNCERTAIN"}
  BY ResultTypes
<1>3. Return(res, stage_outcome(stage, op))
  BY DEF StageFails
<1> QED
  BY <1>1, <1>2, <1>3, ReturnShape

(* The steps that only touch flash and the transaction's own state: the    *)
(* call ends or goes on with the same records.                             *)
LEMMA StoreStep ==
  ASSUME IInv, UNCHANGED <<runtime, anchor, acked, intact>>,
         SlotsOK(slot'), pending' \in Slots \cup {"none"}, ret' \in RetType,
         written' \subseteq Records,
         \/ call' = NoCall
         \/ /\ call' \in CallType
            /\ call.pc \in Steps \ {"idle", "check"}
            /\ call'.pc \in Steps \ {"idle", "check"}
            /\ call'.prev = call.prev /\ call'.cand = call.cand
            /\ call'.pc = "advance" => call.prev # NoRec
  PROVE  IInv'
<1>1. call' \in CallType
  BY DEF NoCall, CallType, Steps, Slots, MaybeRecord
<1>2. TypeOK'
  BY <1>1 DEF IInv, TypeOK, SlotsOK, RetType, CallType, MaybeRecord
<1>3. DataInv'
  BY DEF IInv, DataInv, SlotsOK, NoCall, record_valid
<1>4. CallInv'
  BY DEF IInv, CallInv, NoCall, transition_is_adjacent
<1> QED
  BY <1>2, <1>3, <1>4 DEF IInv, AckInv, RuntimeInv, NoReplayAfterReset

-----------------------------------------------------------------------------
(* What a flash operation leaves behind is a slot image again.             *)
LEMMA ImageTypes ==
  ASSUME NEW image \in Images, NEW c \in Records
  PROVE  /\ interrupted_erase(image) \subseteq Images
         /\ \A i \in interrupted_erase(image) : i.st = "VALID" => i = image
         /\ interrupted_body(image, c) \subseteq Images
         /\ \A i \in interrupted_body(image, c) : i.st = "VALID" => i = image
         /\ interrupted_marker(c) \subseteq Images
         /\ \A i \in interrupted_marker(c) : i.st = "VALID" => i.rec = c
         /\ {Erased, Partial, Staged(c)} \subseteq Images
         /\ \A i \in {Erased, Partial, Staged(c)} : i.st # "VALID"
BY DEF interrupted_erase, interrupted_body, interrupted_marker, Images, Erased,
   Partial, Corrupted, Staged, Valid

(* Writing one image keeps the slots well formed.                          *)
LEMMA SlotUpdate ==
  ASSUME SlotsOK(slot), NEW t \in Slots, NEW i \in Images,
         i.st = "VALID" => i.rec \in Records
  PROVE  SlotsOK([slot EXCEPT ![t] = i])
BY DEF SlotsOK

LEMMA TargetType ==
  ASSUME IInv, NEW load \in loads
  PROVE  target_slot(load) \in Slots
<1>1. SlotsOK(slot)
  BY DEF IInv, TypeOK, DataInv, SlotsOK
<1>2. load.at \in Slots
  BY <1>1, RecoverShape DEF SlotsOK, loads, Found, Slots
<1> QED
  BY <1>2 DEF target_slot, Other, Slots

LEMMA WriteEraseStep == ASSUME IInv, WriteErase PROVE IInv'
<1>1. SlotsOK(slot) /\ call.cand \in Records
  BY DEF IInv, TypeOK, DataInv, SlotsOK, WriteErase
<1>2. PICK load \in loads :
        LET r == write_precheck(load, call.cand)
            t == target_slot(load)
        IN \/ r # "OK" /\ StageFails("write", r) /\ UNCHANGED slot
           \/ /\ slot' = [slot EXCEPT ![t] = Erased]
              /\ call' = [call EXCEPT !.pc = "program", !.target = t]
              /\ UNCHANGED ret
           \/ \E e \in MediaFaults, image \in interrupted_erase(slot[t]) :
                /\ slot' = [slot EXCEPT ![t] = image]
                /\ StageFails("write", e)
  BY DEF WriteErase
<1> DEFINE t == target_slot(load)
<1>3. t \in Slots
  BY TargetType
<1>4. /\ UNCHANGED <<runtime, anchor, acked, intact>>
      /\ pending' = "none" /\ written' = written /\ call.pc = "write"
  BY DEF WriteErase, Keep
<1>5. slot[t] \in Images /\ (slot[t].st = "VALID" => slot[t].rec \in Records)
  BY <1>1, <1>3 DEF SlotsOK
<1>6. CASE StageFails("write", write_precheck(load, call.cand)) /\ UNCHANGED slot
  <2>1. call' = NoCall /\ ret' \in RetType
    BY <1>6, StageFailsShape
  <2>2. SlotsOK(slot')
    BY <1>1, <1>6
  <2> QED
    BY <1>4, <2>1, <2>2, StoreStep DEF IInv, TypeOK
<1>7. CASE /\ slot' = [slot EXCEPT ![t] = Erased]
           /\ call' = [call EXCEPT !.pc = "program", !.target = t]
           /\ UNCHANGED ret
  <2>1. SlotsOK(slot')
    BY <1>1, <1>3, <1>5, <1>7, ImageTypes, SlotUpdate
  <2>2. /\ call' \in CallType /\ call'.pc = "program"
        /\ call'.prev = call.prev /\ call'.cand = call.cand
    BY <1>3, <1>7 DEF IInv, TypeOK, CallType, MaybeRecord, Steps
  <2>3. ret' \in RetType
    BY <1>7 DEF IInv, TypeOK, RetType, MaybeRecord
  <2> QED
    BY <1>4, <2>1, <2>2, <2>3, StoreStep DEF IInv, TypeOK, Steps
<1>8. ASSUME NEW e \in MediaFaults, NEW image \in interrupted_erase(slot[t]),
             slot' = [slot EXCEPT ![t] = image], StageFails("write", e)
      PROVE  IInv'
  <2>1. SlotsOK(slot')
    BY <1>1, <1>3, <1>5, <1>8, ImageTypes, SlotUpdate
  <2>2. call' = NoCall /\ ret' \in RetType
    BY <1>8, StageFailsShape
  <2> QED
    BY <1>4, <2>1, <2>2, StoreStep DEF IInv, TypeOK
<1> QED
  BY <1>2, <1>6, <1>7, <1>8

LEMMA ProgramBodyStep == ASSUME IInv, ProgramBody PROVE IInv'
<1>1. /\ SlotsOK(slot) /\ call.cand \in Records /\ call.target \in Slots
      /\ slot[call.target] \in Images
      /\ slot[call.target].st = "VALID" => slot[call.target].rec \in Records
  BY DEF IInv, TypeOK, DataInv, SlotsOK, ProgramBody
<1>2. /\ UNCHANGED <<runtime, anchor, acked, intact>>
      /\ written' = written /\ call.pc = "program"
  BY DEF ProgramBody, Keep
<1>3. ASSUME NEW image \in {Staged(call.cand), Partial},
             slot' = [slot EXCEPT ![call.target] = image],
             pending' = call.target, call' = [call EXCEPT !.pc = "verify"],
             UNCHANGED ret
      PROVE  IInv'
  <2>1. SlotsOK(slot')
    BY <1>1, <1>3, ImageTypes, SlotUpdate
  <2>2. /\ call' \in CallType /\ call'.pc = "verify"
        /\ call'.prev = call.prev /\ call'.cand = call.cand
    BY <1>3 DEF IInv, TypeOK, CallType, MaybeRecord, Steps
  <2>3. ret' \in RetType
    BY <1>3 DEF IInv, TypeOK, RetType, MaybeRecord
  <2> QED
    BY <1>1, <1>2, <1>3, <2>1, <2>2, <2>3, StoreStep DEF IInv, TypeOK, Steps
<1>4. ASSUME NEW e \in MediaFaults,
             NEW image \in interrupted_body(slot[call.target], call.cand),
             slot' = [slot EXCEPT ![call.target] = image],
             StageFails("write", e), UNCHANGED pending
      PROVE  IInv'
  <2>1. SlotsOK(slot')
    BY <1>1, <1>4, ImageTypes, SlotUpdate
  <2>2. call' = NoCall /\ ret' \in RetType
    BY <1>4, StageFailsShape
  <2> QED
    BY <1>2, <1>4, <2>1, <2>2, StoreStep DEF IInv, TypeOK
<1> QED
  BY <1>3, <1>4 DEF ProgramBody

LEMMA VerifyStep == ASSUME IInv, Verify PROVE IInv'
<1>1. SlotsOK(slot')
  BY DEF IInv, TypeOK, DataInv, SlotsOK, Verify
<1>2. /\ UNCHANGED <<runtime, anchor, acked, intact>>
      /\ UNCHANGED <<pending, written>> /\ call.pc = "verify"
  BY DEF Verify, Keep
<1>3. CASE call' = [call EXCEPT !.pc = "commit"] /\ UNCHANGED ret
  <2>1. /\ call' \in CallType /\ call'.pc = "commit"
        /\ call'.prev = call.prev /\ call'.cand = call.cand
    BY <1>3 DEF IInv, TypeOK, CallType, MaybeRecord, Steps
  <2>2. ret' \in RetType
    BY <1>3 DEF IInv, TypeOK, RetType, MaybeRecord
  <2> QED
    BY <1>1, <1>2, <2>1, <2>2, StoreStep DEF IInv, TypeOK, Steps
<1>4. ASSUME NEW r, StageFails("verify", r) PROVE IInv'
  <2>1. call' = NoCall /\ ret' \in RetType
    BY <1>4, StageFailsShape
  <2> QED
    BY <1>1, <1>2, <2>1, StoreStep DEF IInv, TypeOK
<1> QED
  BY <1>3, <1>4 DEF Verify

LEMMA CommitMarkerStep == ASSUME IInv, CommitMarker PROVE IInv'
<1>1. SlotsOK(slot) /\ call.cand \in Records /\ call.pc = "commit"
  BY DEF IInv, TypeOK, DataInv, SlotsOK, CommitMarker
<1>2. UNCHANGED <<runtime, anchor, acked, intact>>
  BY DEF CommitMarker, Keep
<1>3. ASSUME NEW r, StageFails("commit", r), UNCHANGED <<slot, written>>,
             pending' \in {pending, "none"}
      PROVE  IInv'
  <2>1. call' = NoCall /\ ret' \in RetType
    BY <1>3, StageFailsShape
  <2> QED
    BY <1>1, <1>2, <1>3, <2>1, StoreStep DEF IInv, TypeOK
<1>4. ASSUME pending # "none", NEW image \in interrupted_marker(call.cand),
             slot' = [slot EXCEPT ![pending] = image],
             written' = written \cup
                          (IF image.st = "VALID" THEN {call.cand} ELSE {}),
             \/ call' = [call EXCEPT !.pc = "readback"] /\ UNCHANGED <<ret, pending>>
             \/ StageFails("commit", "STATE_UNCERTAIN") /\ pending' = "none"
      PROVE  IInv'
  <2>0. Erased \in Images
    BY DEF Erased, Images
  <2>1. image \in Images /\ (image.st = "VALID" => image.rec \in Records)
    BY <1>1, <1>4, <2>0, ImageTypes
  <2>2. SlotsOK(slot') /\ written' \subseteq Records
    BY <1>1, <1>4, <2>1, SlotUpdate DEF IInv, TypeOK
  <2>3. CASE call' = [call EXCEPT !.pc = "readback"] /\ UNCHANGED <<ret, pending>>
    <3>1. /\ call' \in CallType /\ call'.pc = "readback"
          /\ call'.prev = call.prev /\ call'.cand = call.cand
      BY <2>3 DEF IInv, TypeOK, CallType, MaybeRecord, Steps
    <3>2. ret' \in RetType
      BY <2>3 DEF IInv, TypeOK, RetType, MaybeRecord
    <3> QED
      BY <1>1, <1>2, <2>2, <2>3, <3>1, <3>2, StoreStep DEF IInv, TypeOK, Steps
  <2>4. CASE StageFails("commit", "STATE_UNCERTAIN") /\ pending' = "none"
    <3>1. call' = NoCall /\ ret' \in RetType
      BY <2>4, StageFailsShape
    <3> QED
      BY <1>2, <2>2, <2>4, <3>1, StoreStep
  <2> QED
    BY <1>4, <2>3, <2>4
<1> QED
  BY <1>3, <1>4 DEF CommitMarker

LEMMA ReadbackStep == ASSUME IInv, Readback PROVE IInv'
<1>1. SlotsOK(slot') /\ call.pc = "readback"
  BY DEF IInv, TypeOK, DataInv, SlotsOK, Readback
<1>2. /\ UNCHANGED <<runtime, anchor, acked, intact>>
      /\ pending' = "none" /\ written' = written
  BY DEF Readback, Keep
<1>3. CASE call' = [call EXCEPT !.pc = "advance"] /\ UNCHANGED ret
           /\ call.prev # NoRec
  <2>1. /\ call' \in CallType /\ call'.pc = "advance"
        /\ call'.prev = call.prev /\ call'.cand = call.cand
    BY <1>3 DEF IInv, TypeOK, CallType, MaybeRecord, Steps
  <2>2. ret' \in RetType
    BY <1>3 DEF IInv, TypeOK, RetType, MaybeRecord
  <2> QED
    BY <1>1, <1>2, <1>3, <2>1, <2>2, StoreStep DEF IInv, TypeOK, Steps
<1>4. CASE call' = NoCall /\ ret' \in RetType
  BY <1>1, <1>2, <1>4, StoreStep DEF IInv, TypeOK
<1>5. CASE Return("OK", "COMMITTED")
  <2>1. call' = NoCall /\ ret' \in RetType
    BY <1>5, ReturnShape DEF Results
  <2> QED
    BY <2>1, <1>4
<1>6. CASE StageFails("commit", "STATE_UNCERTAIN")
  BY <1>4, <1>6, StageFailsShape
<1> QED
  BY <1>3, <1>5, <1>6 DEF Readback

(* The anchor moves from the previous record to the candidate.             *)
LEMMA AdvanceFact ==
  ASSUME IInv, call.pc = "advance"
  PROVE  /\ anchor = call.prev /\ anchor \in Records /\ call.cand \in Records
         /\ transition_is_adjacent(anchor, call.cand)
BY DEF IInv, TypeOK, DataInv, CallInv

LEMMA AnchorAdvanceStep == ASSUME IInv, AnchorAdvance PROVE IInv'
<1>1. /\ anchor = call.prev /\ anchor \in Records /\ call.cand \in Records
      /\ transition_is_adjacent(anchor, call.cand)
  BY AdvanceFact DEF AnchorAdvance
<1>2. /\ UNCHANGED <<slot, pending, runtime, acked, written, intact>>
      /\ anchor' \in {anchor, call.cand} /\ call.pc = "advance"
  BY DEF AnchorAdvance
<1>3. AckInv'
  BY <1>1, <1>2, StoreConstants DEF IInv, TypeOK, AckInv,
     transition_is_adjacent, Records
<1>4. CASE /\ anchor' = call.cand /\ call' = [call EXCEPT !.pc = "check"]
           /\ UNCHANGED ret
  <2>1. /\ call'.pc = "check" /\ call'.prev = call.prev /\ call'.cand = call.cand
    BY <1>4 DEF IInv, TypeOK
  <2>2. TypeOK'
    BY <1>1, <1>2, <1>4 DEF IInv, TypeOK, Steps
  <2>3. DataInv'
    BY <1>2, <2>1 DEF IInv, DataInv, record_valid
  <2>4. CallInv'
    BY <1>1, <1>2, <1>4, <2>1 DEF IInv, CallInv, transition_is_adjacent
  <2> QED
    BY <1>2, <1>3, <2>2, <2>3, <2>4 DEF IInv, RuntimeInv, NoReplayAfterReset
<1>5. CASE call' = NoCall /\ ret' \in RetType
  <2>1. TypeOK'
    BY <1>1, <1>2, <1>5 DEF IInv, TypeOK, NoCall, Steps, Slots, RetType, MaybeRecord
  <2>2. DataInv' /\ CallInv'
    BY <1>2, <1>5 DEF IInv, DataInv, CallInv, NoCall
  <2> QED
    BY <1>2, <1>3, <2>1, <2>2 DEF IInv, RuntimeInv, NoReplayAfterReset
<1>6. ASSUME NEW op, Return(map_anchor_provider_result(op), "COMMITTED")
      PROVE  IInv'
  <2>1. map_anchor_provider_result(op) \in Results
    BY ResultTypes
  <2> QED
    BY <1>5, <1>6, <2>1, ReturnShape
<1> QED
  BY <1>4, <1>6 DEF AnchorAdvance

LEMMA AnchorCheckStep == ASSUME IInv, AnchorCheck PROVE IInv'
<1>1. /\ anchor = call.cand /\ call.cand \in Records /\ call.pc = "check"
      /\ record_valid(call.cand, Self)
  BY DEF IInv, DataInv, CallInv, AnchorCheck
<1>2. UNCHANGED <<slot, pending, anchor, written, intact>>
  BY DEF AnchorCheck
<1>3. call' = NoCall /\ ret' \in RetType
  <2>1. \E r \in Results : Return(r, "COMMITTED")
    BY ResultTypes DEF AnchorCheck, Results
  <2> QED
    BY <2>1, ReturnShape
<1>4. DataInv' /\ CallInv'
  BY <1>2, <1>3 DEF IInv, DataInv, CallInv, NoCall
<1>5. CASE UNCHANGED <<runtime, acked>>
  <2>1. TypeOK'
    BY <1>2, <1>3, <1>5 DEF IInv, TypeOK, NoCall, Steps, Slots, RetType, MaybeRecord
  <2> QED
    BY <1>2, <1>4, <1>5, <2>1 DEF IInv, AckInv, RuntimeInv, NoReplayAfterReset
<1>6. CASE runtime' = Session(call.cand) /\ acked' = Highest(acked, call.cand)
  <2>1. acked' \in Records /\ acked' # NoRec
    BY <1>1, <1>6, StoreConstants DEF Highest, IInv, TypeOK, Records
  <2>2. acked'.seq = call.cand.seq /\ acked'.id = call.cand.id
        /\ acked'.epoch = call.cand.epoch
    BY <1>1, <1>6, StoreConstants DEF Highest, IInv, TypeOK, AckInv, Records
  <2>3. TypeOK'
    BY <1>1, <1>2, <1>3, <1>6, <2>1 DEF IInv, TypeOK, NoCall, Steps, Slots,
       RetType, MaybeRecord, Session, Records
  <2>4. AckInv' /\ RuntimeInv' /\ NoReplayAfterReset'
    BY <1>1, <1>2, <1>6, <2>1, <2>2, StoreConstants DEF AckInv, RuntimeInv,
       NoReplayAfterReset, Session, record_valid, Records
  <2> QED
    BY <1>4, <2>3, <2>4 DEF IInv
<1> QED
  BY <1>5, <1>6 DEF AnchorCheck

LEMMA RecoverStep == ASSUME IInv, Recover PROVE IInv'
<1>1. /\ UNCHANGED <<slot, pending, anchor, call, written, intact>>
      /\ call.pc = "idle"
  BY DEF Recover, Idle
<1>2. PICK load \in loads, st \in anchor_views, rd \in anchor_views :
        LET r == recover_result(load, st, rd)
        IN /\ runtime' = IF r = "OK" THEN Session(load.rec) ELSE NoRec
           /\ acked' = IF r = "OK" THEN Highest(acked, load.rec) ELSE acked
           /\ ret' = [result |-> r, outcome |-> "none", base |-> NoRec]
  BY DEF Recover
<1>3. ret' \in RetType
  <2>1. recover_result(load, st, rd) \in Results
    BY ResultTypes DEF recover_result, Results
  <2> QED
    BY <1>2, <2>1 DEF RetType, MaybeRecord
<1>4. DataInv' /\ CallInv'
  BY <1>1 DEF IInv, DataInv, CallInv
<1>5. CASE recover_result(load, st, rd) # "OK"
  <2>1. runtime' = NoRec /\ acked' = acked
    BY <1>2, <1>5
  <2>2. TypeOK'
    BY <1>1, <1>3, <2>1 DEF IInv, TypeOK, RetType, MaybeRecord
  <2> QED
    BY <1>1, <1>4, <2>1, <2>2 DEF IInv, AckInv, RuntimeInv, NoReplayAfterReset
<1>6. CASE recover_result(load, st, rd) = "OK"
  <2>1. anchor \in Records /\ load.rec = anchor /\ record_valid(anchor, Self)
    BY <1>6, RecoverOk DEF IInv
  <2>2. runtime' = Session(anchor) /\ acked' = Highest(acked, anchor)
    BY <1>2, <1>6, <2>1
  <2>3. acked' \in Records /\ acked' # NoRec
    BY <2>1, <2>2, StoreConstants DEF Highest, IInv, TypeOK, Records
  <2>4. acked'.seq = anchor.seq /\ acked'.id = anchor.id
        /\ acked'.epoch = anchor.epoch
    BY <2>1, <2>2, StoreConstants DEF Highest, IInv, TypeOK, AckInv, Records
  <2>5. TypeOK'
    BY <1>1, <1>3, <2>1, <2>2, <2>3 DEF IInv, TypeOK, RetType, MaybeRecord,
       Session, Records
  <2>6. AckInv' /\ RuntimeInv' /\ NoReplayAfterReset'
    BY <1>1, <2>1, <2>2, <2>3, <2>4, StoreConstants DEF AckInv, RuntimeInv,
       NoReplayAfterReset, Session, record_valid, Records
  <2> QED
    BY <1>4, <2>5, <2>6 DEF IInv
<1> QED
  BY <1>5, <1>6

LEMMA EvaluateStep ==
  ASSUME IInv, NEW id \in Ids, NEW e \in Epochs \ {0}, NEW n \in 1..MaxSeq,
         EvaluateAndApply([id |-> id, epoch |-> e, seq |-> n])
  PROVE  IInv'
<1>1. /\ UNCHANGED <<slot, pending, anchor, call, ret, acked, written, intact>>
      /\ runtime' = [runtime EXCEPT !.seq = n]
      /\ evaluate_internal([id |-> id, epoch |-> e, seq |-> n]) = "ACCEPT"
  BY DEF EvaluateAndApply
<1>2. runtime # NoRec /\ runtime \in [id : Ids, epoch : Epochs, seq : 0..MaxSeq]
  BY <1>1 DEF evaluate_internal, IInv, TypeOK
<1>3. n > runtime.seq
  BY <1>1, <1>2, StoreConstants DEF evaluate_internal
<1>4. /\ runtime' \in [id : Ids, epoch : Epochs, seq : 0..MaxSeq]
      /\ runtime'.seq = n /\ runtime'.id = runtime.id
      /\ runtime'.epoch = runtime.epoch
  BY <1>1, <1>2, StoreConstants
<1>5. TypeOK'
  BY <1>1, <1>4 DEF IInv, TypeOK
<1>6. DataInv' /\ CallInv' /\ AckInv'
  BY <1>1 DEF IInv, DataInv, CallInv, AckInv
<1>7. RuntimeInv' /\ NoReplayAfterReset'
  BY <1>1, <1>2, <1>3, <1>4, StoreConstants DEF IInv, TypeOK, RuntimeInv,
     NoReplayAfterReset, Records
<1> QED
  BY <1>5, <1>6, <1>7 DEF IInv

LEMMA ProvisionStep == ASSUME IInv, ProvisionAnchor PROVE IInv'
<1>1. /\ UNCHANGED <<slot, pending, runtime, call, ret, acked, written, intact>>
      /\ anchor = NoRec /\ call.pc = "idle"
      /\ anchor' = recover_internal(slot).rec
      /\ recover_internal(slot).status = "VALID_PERSISTED_STATE"
  BY DEF ProvisionAnchor, Idle
<1>2. anchor' \in Records
  BY <1>1, RecoverShape DEF IInv, TypeOK, DataInv
<1> QED
  BY <1>1, <1>2 DEF IInv, TypeOK, DataInv, CallInv, AckInv, RuntimeInv,
     NoReplayAfterReset

(* After a reset the invariant needs well-formed flash and an anchor that  *)
(* stayed or advanced by the call that was in flight.                      *)
LEMMA ResetStep ==
  ASSUME IInv, RamReset, UNCHANGED acked, SlotsOK(slot'),
         written' \subseteq Records, intact' \in BOOLEAN,
         \/ anchor' = anchor
         \/ call.pc = "advance" /\ anchor' = call.cand
  PROVE  IInv'
<1>1. /\ pending' = "none" /\ runtime' = NoRec /\ call' = NoCall /\ ret' = NoRet
  BY DEF RamReset
<1>2. AckInv' /\ anchor' \in MaybeRecord
  BY AdvanceFact, StoreConstants DEF IInv, TypeOK, AckInv, Records,
     transition_is_adjacent, MaybeRecord
<1>3. TypeOK'
  BY <1>1, <1>2 DEF IInv, TypeOK, NoCall, NoRet, Steps, Slots, Results,
     MaybeRecord, SlotsOK
<1> QED
  BY <1>1, <1>2, <1>3 DEF IInv, DataInv, CallInv, NoCall, RuntimeInv,
     NoReplayAfterReset, SlotsOK

LEMMA InterruptedSlots ==
  ASSUME IInv, NEW sl \in interrupted_slots
  PROVE  SlotsOK(sl)
<1>1. SlotsOK(slot)
  BY DEF IInv, TypeOK, DataInv, SlotsOK
<1>2. CASE sl = slot
  BY <1>1, <1>2
<1>3. CASE call.pc = "write" /\ sl # slot
  <2> DEFINE t == target_slot(recover_internal(slot))
  <2>1. t \in Slots
    BY TargetType DEF loads
  <2>2. PICK image \in interrupted_erase(slot[t]) : sl = [slot EXCEPT ![t] = image]
    BY <1>3 DEF interrupted_slots
  <2>3. call.cand \in Records
    BY <1>3 DEF IInv, DataInv
  <2>4. slot[t] \in Images /\ (slot[t].st = "VALID" => slot[t].rec \in Records)
    BY <1>1, <2>1 DEF SlotsOK
  <2> QED
    BY <1>1, <2>1, <2>2, <2>3, <2>4, ImageTypes, SlotUpdate
<1>4. CASE call.pc = "program" /\ sl # slot
  <2> DEFINE t == call.target
  <2>1. t \in Slots /\ call.cand \in Records
    BY <1>4 DEF IInv, TypeOK, DataInv
  <2>2. PICK image \in interrupted_body(slot[t], call.cand) :
          sl = [slot EXCEPT ![t] = image]
    BY <1>4 DEF interrupted_slots
  <2>3. slot[t] \in Images /\ (slot[t].st = "VALID" => slot[t].rec \in Records)
    BY <1>1, <2>1 DEF SlotsOK
  <2> QED
    BY <1>1, <2>1, <2>2, <2>3, ImageTypes, SlotUpdate
<1>5. CASE call.pc = "commit" /\ sl # slot
  <2>1. pending \in Slots /\ call.cand \in Records
    BY <1>5 DEF IInv, TypeOK, DataInv, interrupted_slots
  <2>2. PICK image \in interrupted_marker(call.cand) :
          sl = [slot EXCEPT ![pending] = image]
    BY <1>5 DEF interrupted_slots
  <2>3. slot[pending] \in Images
    BY <1>1, <2>1 DEF SlotsOK
  <2>4. image \in Images /\ (image.st = "VALID" => image.rec \in Records)
    BY <2>1, <2>2, <2>3, ImageTypes
  <2> QED
    BY <1>1, <2>1, <2>2, <2>4, SlotUpdate
<1> QED
  BY <1>2, <1>3, <1>4, <1>5 DEF interrupted_slots

LEMMA PowerLossStep == ASSUME IInv, PowerLoss PROVE IInv'
<1>1. SlotsOK(slot')
  BY InterruptedSlots DEF PowerLoss
<1>2. written' \subseteq Records
  BY <1>1 DEF PowerLoss, SlotsOK, IInv, TypeOK
<1>3. \/ anchor' = anchor
      \/ call.pc = "advance" /\ anchor' = call.cand
  BY DEF PowerLoss
<1> QED
  BY <1>1, <1>2, <1>3, ResetStep DEF PowerLoss, IInv, TypeOK

LEMMA RestoreOldMediaStep == ASSUME IInv, RestoreOldMedia PROVE IInv'
<1>1. SlotsOK(slot')
  BY DEF RestoreOldMedia, SlotsOK, IInv, TypeOK, Erased, Valid, Images
<1> QED
  BY <1>1, ResetStep DEF RestoreOldMedia, IInv, TypeOK

(* A call that starts: the store, RAM and the anchor stay as they are.     *)
LEMMA CallStarts ==
  ASSUME IInv, call.pc = "idle",
         UNCHANGED <<slot, pending, written, runtime, anchor, acked, intact>>,
         ret' \in RetType,
         \/ call' = NoCall
         \/ /\ call' \in CallType /\ call'.pc = "write"
            /\ call'.cand \in Records /\ record_valid(call'.cand, Self)
            /\ call'.prev # NoRec => /\ anchor = call'.prev
                                     /\ transition_is_adjacent(call'.prev, call'.cand)
  PROVE  IInv'
<1>1. call' \in CallType
  BY DEF NoCall, CallType, Steps, Slots, MaybeRecord
<1>2. TypeOK'
  BY <1>1 DEF IInv, TypeOK, RetType, CallType, MaybeRecord
<1>3. DataInv'
  BY DEF IInv, DataInv, NoCall
<1>4. CallInv'
  BY DEF CallInv, NoCall
<1> QED
  BY <1>2, <1>3, <1>4 DEF IInv, AckInv, RuntimeInv, NoReplayAfterReset

LEMMA BootstrapStep ==
  ASSUME IInv, NEW cand \in Records, Bootstrap(cand) PROVE IInv'
<1>1. recover_internal(slot).rec \in MaybeRecord
  BY RecoverShape DEF IInv, TypeOK, DataInv
<1>2. transact_check(NoRec, cand) = "OK" => record_valid(cand, Self)
  BY DEF transact_check
<1>3. transact_check(NoRec, cand) \in Results
  BY DEF transact_check, Results
<1>4. ret' \in RetType
  BY <1>1, <1>3 DEF Bootstrap, RetType, NoRet, Results, MaybeRecord
<1>5. \/ call' = NoCall
      \/ /\ call' \in CallType /\ call'.pc = "write" /\ call'.cand = cand
         /\ call'.prev = NoRec /\ record_valid(cand, Self)
  BY <1>1, <1>2 DEF Bootstrap, CallType, Steps, Slots, MaybeRecord
<1> QED
  BY <1>4, <1>5, CallStarts DEF Bootstrap, Idle, Keep

LEMMA CommitContinuationStep ==
  ASSUME IInv, NEW prev \in written \cup {NoRec}, NEW e \in Epochs,
         NEW n \in 0..MaxSeq, CommitContinuation(prev, e, n)
  PROVE  IInv'
<1> DEFINE cand == [id |-> prev.id, epoch |-> prev.epoch, seq |-> n,
                    gen |-> prev.gen + 1]
<1>1. PICK rd \in anchor_views :
        LET r == continuation_check(prev, e, n, rd)
            t == transact_check(prev, cand)
        IN IF r = "OK" /\ t = "OK"
             THEN /\ call' = [pc |-> "write", prev |-> prev, cand |-> cand,
                              target |-> "A", base |-> recover_internal(slot).rec]
                  /\ ret' = NoRet
             ELSE /\ ret' = [result |-> IF r # "OK" THEN r
                                        ELSE map_persistence_operation(t),
                             outcome |-> "none", base |-> NoRec]
                  /\ call' = NoCall
  BY DEF CommitContinuation
<1>2. recover_internal(slot).rec \in MaybeRecord
  BY RecoverShape DEF IInv, TypeOK, DataInv
<1>3. continuation_check(prev, e, n, rd) \in Results
  BY ResultTypes DEF continuation_check, Results
<1>4. ret' \in RetType
  BY <1>1, <1>3, ResultTypes DEF RetType, NoRet, Results, MaybeRecord
<1>5. CASE continuation_check(prev, e, n, rd) = "OK"
           /\ transact_check(prev, cand) = "OK"
  <2>1. prev \in Records /\ record_valid(prev, Self)
    BY <1>5 DEF continuation_check, record_valid, IInv, TypeOK
  <2>2. /\ rd.op = "OK" /\ rd.status = "VALID"
        /\ anchor_compare(rd.rec, prev) = "MATCH"
        /\ n > prev.seq /\ prev.gen < MaxGen - 1
    BY <1>5, <2>1, StoreConstants, ResultTypes
       DEF continuation_check, Records, map_anchor_provider_result, anchor_views,
           AnchorFaults
  <2>3. anchor = prev
    BY <2>1, <2>2, ViewShape, CompareMatch DEF IInv, TypeOK
  <2>4. /\ cand \in Records /\ cand.id = prev.id /\ cand.epoch = prev.epoch
        /\ cand.seq = n /\ cand.gen = prev.gen + 1
    <3>1. n \in 0..MaxSeq /\ prev.gen + 1 \in 0..MaxGen
      BY <2>1, <2>2, StoreConstants DEF Records
    <3>2. prev \in [id : Ids, epoch : Epochs, seq : 0..MaxSeq, gen : 0..MaxGen]
      BY <2>1 DEF Records
    <3> QED
      BY <3>1, <3>2 DEF Records
  <2> HIDE DEF cand
  <2>5. record_valid(cand, Self)
    BY <2>1, <2>2, <2>4, StoreConstants DEF record_valid, Records
  <2>6. transition_is_adjacent(prev, cand)
    BY <2>1, <2>2, <2>4, StoreConstants DEF transition_is_adjacent, Records
  <2>7. /\ call' \in CallType /\ call'.pc = "write" /\ call'.cand = cand
        /\ call'.prev = prev
    BY <1>1, <1>2, <1>5, <2>1, <2>4 DEF CallType, Steps, Slots, MaybeRecord
  <2> QED
    BY <1>4, <2>3, <2>4, <2>5, <2>6, <2>7, CallStarts
       DEF CommitContinuation, Idle, Keep
<1>6. CASE ~(continuation_check(prev, e, n, rd) = "OK"
             /\ transact_check(prev, cand) = "OK")
  <2>1. call' = NoCall
    BY <1>1, <1>6
  <2> QED
    BY <1>4, <2>1, CallStarts DEF CommitContinuation, Idle, Keep
<1> QED
  BY <1>5, <1>6

-----------------------------------------------------------------------------
LEMMA InitIInv == Init => IInv
BY DEF Init, IInv, TypeOK, DataInv, CallInv, AckInv, RuntimeInv,
   NoReplayAfterReset, Erased, Images, NoCall, NoRet, Steps, Results, Slots

LEMMA NextIInv == IInv /\ [Next]_vars => IInv'
<1> SUFFICES ASSUME IInv, [Next]_vars PROVE IInv'
  OBVIOUS
<1>1. CASE UNCHANGED vars
  BY <1>1 DEF vars, IInv, TypeOK, DataInv, CallInv, AckInv, RuntimeInv,
     NoReplayAfterReset
<1>2. ASSUME NEW cand \in Records, Bootstrap(cand) PROVE IInv'
  BY <1>2, BootstrapStep
<1>3. ASSUME NEW prev \in written \cup {NoRec}, NEW e \in Epochs,
             NEW n \in 0..MaxSeq, CommitContinuation(prev, e, n)
      PROVE  IInv'
  BY <1>3, CommitContinuationStep
<1>4. CASE WriteErase
  BY <1>4, WriteEraseStep
<1>5. CASE ProgramBody
  BY <1>5, ProgramBodyStep
<1>6. CASE Verify
  BY <1>6, VerifyStep
<1>7. CASE CommitMarker
  BY <1>7, CommitMarkerStep
<1>8. CASE Readback
  BY <1>8, ReadbackStep
<1>9. CASE AnchorAdvance
  BY <1>9, AnchorAdvanceStep
<1>10. CASE AnchorCheck
  BY <1>10, AnchorCheckStep
<1>11. CASE Recover
  BY <1>11, RecoverStep
<1>12. ASSUME NEW id \in Ids, NEW e \in Epochs \ {0}, NEW n \in 1..MaxSeq,
              EvaluateAndApply([id |-> id, epoch |-> e, seq |-> n])
       PROVE  IInv'
  BY <1>12, EvaluateStep
<1>13. CASE ProvisionAnchor
  BY <1>13, ProvisionStep
<1>14. CASE PowerLoss
  BY <1>14, PowerLossStep
<1>15. CASE RestoreOldMedia
  BY <1>15, RestoreOldMediaStep
<1> QED
  BY <1>1, <1>2, <1>3, <1>4, <1>5, <1>6, <1>7, <1>8, <1>9, <1>10, <1>11,
     <1>12, <1>13, <1>14, <1>15 DEF Next

(* The inductive invariant holds in every reachable state.                 *)
THEOREM AntiReplayInvariant == Spec => []IInv
BY InitIInv, NextIInv, PTL DEF Spec

(* Every variable keeps its type, whatever fails or is interrupted.        *)
THEOREM TypeCorrect == Spec => []TypeOK
<1>1. IInv => TypeOK
  BY DEF IInv
<1> QED
  BY <1>1, AntiReplayInvariant, PTL

(* No replay across resets: an active session is never behind what         *)
(* recover or commit_continuation acknowledged, for every number of        *)
(* records, resets, failures and media replacements.                       *)
THEOREM NoReplay == Spec => []NoReplayAfterReset
<1>1. IInv => NoReplayAfterReset
  BY DEF IInv
<1> QED
  BY <1>1, AntiReplayInvariant, PTL

-----------------------------------------------------------------------------
(* The actions that leave the anchor alone, and the two that may move it.  *)
LEMMA AnchorMoves ==
  ASSUME IInv, [Next]_vars
  PROVE  anchor # NoRec /\ anchor' # anchor =>
           transition_is_adjacent(anchor, anchor')
<1>1. CASE AnchorAdvance \/ PowerLoss
  <2>1. anchor' # anchor => call.pc = "advance" /\ anchor' = call.cand
    BY <1>1 DEF AnchorAdvance, PowerLoss
  <2> QED
    BY <2>1, AdvanceFact
<1>2. CASE ProvisionAnchor
  BY <1>2 DEF ProvisionAnchor
<1>3. CASE ~(AnchorAdvance \/ PowerLoss \/ ProvisionAnchor)
  <2>1. anchor' = anchor
    BY <1>3 DEF Next, vars, Bootstrap, CommitContinuation, WriteErase,
       ProgramBody, Verify, CommitMarker, Readback, AnchorCheck, Recover,
       EvaluateAndApply, RestoreOldMedia, Keep
  <2> QED
    BY <2>1
<1> QED
  BY <1>1, <1>2, <1>3

(* The anchor only ever moves to the direct continuation of the anchored   *)
(* record, also when power is lost while it is being advanced.             *)
THEOREM AnchorForward == Spec => AnchorStepwise
<1>1. IInv /\ [Next]_vars =>
        [anchor # NoRec /\ anchor' # anchor =>
           transition_is_adjacent(anchor, anchor')]_vars
  BY AnchorMoves
<1> QED
  BY <1>1, AntiReplayInvariant, PTL DEF Spec, AnchorStepwise

-----------------------------------------------------------------------------
(* Steps that change neither RAM nor what was acknowledged are invisible   *)
(* to the guard; resets forget the view.                                   *)
LEMMA GuardStep ==
  ASSUME IInv, [Next]_vars
  PROVE  [Guard!Next]_<<floor, view>>
<1>1. CASE UNCHANGED <<runtime, acked>>
  BY <1>1 DEF floor, view
<1>2. CASE runtime' = NoRec /\ UNCHANGED acked
  BY <1>2 DEF Guard!Next, Guard!Forget, floor, view
<1>3. ASSUME NEW r \in Records, record_valid(r, Self), runtime' = Session(r),
             acked' = Highest(acked, r), acked # NoRec => acked.seq <= r.seq
      PROVE  [Guard!Next]_<<floor, view>>
  <2>1. r.seq \in 1..MaxSeq /\ r # NoRec
    BY <1>3, StoreConstants DEF Records, record_valid
  <2>2. acked \in Records \cup {NoRec}
    BY DEF IInv, TypeOK
  <2>3. acked' = r \/ (acked' = acked /\ acked.seq > r.seq /\ acked # NoRec)
    BY <1>3 DEF Highest
  <2>4. acked' = r
    BY <1>3, <2>2, <2>3, StoreConstants DEF Records
  <2>5. runtime' # NoRec /\ runtime'.seq = r.seq
    BY <1>3, AntiReplayConstants DEF Session, Records
  <2>6. floor' = r.seq /\ view' = r.seq /\ r.seq >= floor
    BY <1>3, <2>1, <2>2, <2>4, <2>5, StoreConstants DEF floor, view, Records
  <2>7. Guard!Establish(r.seq)
    BY <2>6 DEF Guard!Establish
  <2> QED
    BY <2>1, <2>7 DEF Guard!Next
<1>4. CASE AnchorCheck
  <2>1. /\ call.cand \in Records /\ record_valid(call.cand, Self)
        /\ acked # NoRec => acked.seq <= call.cand.seq
    BY <1>4 DEF AnchorCheck, IInv, DataInv, CallInv, AckInv
  <2>2. \/ UNCHANGED <<runtime, acked>>
        \/ runtime' = Session(call.cand) /\ acked' = Highest(acked, call.cand)
    BY <1>4 DEF AnchorCheck
  <2> QED
    BY <1>1, <1>3, <2>1, <2>2
<1>5. CASE Recover
  <2>1. PICK load \in loads, st \in anchor_views, rd \in anchor_views :
          LET r == recover_result(load, st, rd)
          IN /\ runtime' = IF r = "OK" THEN Session(load.rec) ELSE NoRec
             /\ acked' = IF r = "OK" THEN Highest(acked, load.rec) ELSE acked
    BY <1>5 DEF Recover
  <2>2. CASE recover_result(load, st, rd) = "OK"
    <3>1. anchor \in Records /\ load.rec = anchor /\ record_valid(anchor, Self)
      BY <2>2, RecoverOk DEF IInv
    <3>2. acked # NoRec => acked.seq <= anchor.seq
      BY DEF IInv, AckInv
    <3> QED
      BY <1>3, <2>1, <2>2, <3>1, <3>2
  <2>3. CASE recover_result(load, st, rd) # "OK"
    BY <1>2, <2>1, <2>3
  <2> QED
    BY <2>2, <2>3
<1>6. ASSUME NEW id \in Ids, NEW e \in Epochs \ {0}, NEW n \in 1..MaxSeq,
             EvaluateAndApply([id |-> id, epoch |-> e, seq |-> n])
      PROVE  [Guard!Next]_<<floor, view>>
  <2>1. /\ runtime # NoRec /\ acked # NoRec /\ acked' = acked
        /\ runtime' = [runtime EXCEPT !.seq = n]
        /\ runtime \in [id : Ids, epoch : Epochs, seq : 0..MaxSeq]
        /\ acked \in Records
    BY <1>6 DEF EvaluateAndApply, evaluate_internal, IInv, TypeOK, RuntimeInv
  <2>2. n > runtime.seq
    BY <1>6, <2>1, StoreConstants DEF EvaluateAndApply, evaluate_internal
  <2>3. runtime.seq # 0
    BY <2>1, StoreConstants DEF IInv, NoReplayAfterReset, AckInv, Records
  <2>4. runtime' # NoRec
    BY <2>1, StoreConstants, AntiReplayConstants
  <2>5. Guard!Observe(n)
    BY <2>1, <2>2, <2>3, <2>4 DEF Guard!Observe, floor, view
  <2> QED
    BY <2>5 DEF Guard!Next
<1>7. CASE PowerLoss \/ RestoreOldMedia
  BY <1>2, <1>7 DEF PowerLoss, RestoreOldMedia, RamReset
<1>8. CASE \/ UNCHANGED vars \/ WriteErase \/ ProgramBody \/ Verify
           \/ CommitMarker \/ Readback \/ AnchorAdvance \/ ProvisionAnchor
           \/ \E cand \in Records : Bootstrap(cand)
           \/ \E prev \in written \cup {NoRec}, e \in Epochs, n \in 0..MaxSeq :
                CommitContinuation(prev, e, n)
  BY <1>1, <1>8 DEF vars, WriteErase, ProgramBody, Verify, CommitMarker,
     Readback, AnchorAdvance, ProvisionAnchor, Bootstrap, CommitContinuation, Keep
<1> QED
  BY <1>4, <1>5, <1>6, <1>7, <1>8 DEF Next

(* Persistent anti-replay implements its abstract promise for every        *)
(* instance: floor and view of the guard are the acknowledged record and   *)
(* the session in RAM.                                                     *)
THEOREM GuardRefinement == Spec => ImplementsGuard
<1>1. Init => Guard!Init
  BY DEF Init, Guard!Init, floor, view
<1>2. IInv /\ [Next]_vars => [Guard!Next]_<<floor, view>>
  BY GuardStep
<1> QED
  BY <1>1, <1>2, AntiReplayInvariant, PTL DEF Spec, ImplementsGuard, Guard!Spec

-----------------------------------------------------------------------------
(* Durability.  The anchored record survives because a transaction never   *)
(* writes the slot that holds it: past the first erase, the slot that is   *)
(* not the target still holds the record being continued, which is the     *)
(* anchored one until the advance; past the read-back the target holds the *)
(* candidate, which is the anchored one after it.                          *)
Writing == {"program", "verify", "commit", "readback", "advance", "check"}

TransactionInv ==
  /\ call.pc # "idle" => ret = NoRet
  /\ call.pc # "idle" /\ call.prev = NoRec => call.cand.gen = 0
  /\ call.pc \in {"verify", "commit", "readback"} => pending = call.target
  /\ intact =>
       /\ call.pc = "write" => call.base = recover_internal(slot).rec
       /\ call.pc \in Writing /\ call.prev = NoRec => anchor = NoRec
       /\ call.pc \in Writing /\ call.prev # NoRec =>
            /\ call.base = call.prev
            /\ slot[Other(call.target)] = Valid(call.prev)
       /\ call.pc \in {"advance", "check"} =>
            slot[call.target] = Valid(call.cand)

DInv == TransactionInv /\ DurableState

(* Recovery over slots of which one is valid: that record, or its direct   *)
(* continuation in the other slot.                                         *)
LEMMA RecoverFromValid ==
  ASSUME NEW sl \in [Slots -> Images], SlotsOK(sl), NEW s \in Slots,
         NEW r \in Records, sl[s] = Valid(r), recover_internal(sl).op = "OK"
  PROVE  /\ recover_internal(sl).status = "VALID_PERSISTED_STATE"
         /\ \/ recover_internal(sl).rec = r /\ recover_internal(sl).at = s
            \/ transition_is_adjacent(r, recover_internal(sl).rec)
BY DEF recover_internal, Found, StateUncertain, Slots, Other, Valid, SlotsOK

(* Two adjacent records in the two slots: recovery selects the newer.      *)
LEMMA RecoverNewer ==
  ASSUME NEW sl \in [Slots -> Images], NEW t \in Slots,
         NEW r \in Records, NEW c \in Records,
         sl[t] = Valid(c), sl[Other(t)] = Valid(r), transition_is_adjacent(r, c)
  PROVE  recover_internal(sl).op = "OK" /\ recover_internal(sl).rec = c
<1>1. ~transition_is_adjacent(c, r)
  BY StoreConstants DEF transition_is_adjacent, Records
<1>2. {s \in Slots : sl[s].st = "VALID"} = Slots
  BY DEF Slots, Other, Valid
<1>3. sl["A"].st # "ERASED"
  BY DEF Slots, Other, Valid
<1> QED
  BY <1>1, <1>2, <1>3 DEF recover_internal, Found, Slots, Other, Valid

(* write_candidate goes ahead only over the record the call continues, and *)
(* then in the slot that does not hold it; a bootstrap only while nothing  *)
(* is anchored.                                                            *)
LEMMA WriteTarget ==
  ASSUME IInv, DInv, intact, call.pc = "write", NEW load \in loads,
         write_precheck(load, call.cand) = "OK"
  PROVE  /\ call.prev = NoRec => anchor = NoRec
         /\ call.prev # NoRec =>
              /\ call.base = call.prev
              /\ slot[Other(target_slot(load))] = Valid(call.prev)
<1>1. load = recover_internal(slot) /\ load.op = "OK"
  BY DEF loads, Found, MediaFaults, write_precheck
<1>2. SlotsOK(slot) /\ slot \in [Slots -> Images] /\ call.cand \in Records
      /\ anchor \in Records \cup {NoRec}
  BY DEF IInv, TypeOK, DataInv, SlotsOK
<1>3. CASE anchor = NoRec
  BY <1>3 DEF IInv, CallInv
<1>4. CASE anchor # NoRec
  <2>1. PICK s \in Slots : slot[s] = Valid(anchor)
    BY <1>4 DEF DInv, DurableState, AnchoredRecordDurable
  <2>2. /\ load.status = "VALID_PERSISTED_STATE"
        /\ \/ load.rec = anchor /\ load.at = s
           \/ transition_is_adjacent(anchor, load.rec)
    BY <1>1, <1>2, <1>4, <2>1, RecoverFromValid
  <2>3. transition_is_adjacent(load.rec, call.cand)
    BY <1>1, <2>2 DEF write_precheck
  <2>4. load.rec \in Records
    BY <1>1, <1>2, <2>2, RecoverShape DEF SlotsOK
  <2>5. call.prev # NoRec
    BY <1>2, <2>3, <2>4, StoreConstants DEF DInv, TransactionInv,
       transition_is_adjacent, Records
  <2>6. anchor = call.prev /\ transition_is_adjacent(call.prev, call.cand)
    BY <2>5 DEF IInv, CallInv
  <2>7. load.rec = anchor /\ load.at = s
    BY <1>2, <1>4, <2>2, <2>3, <2>4, <2>6, StoreConstants
       DEF transition_is_adjacent, Records
  <2>8. call.base = call.prev
    BY <1>1, <2>6, <2>7 DEF DInv, TransactionInv
  <2>9. Other(target_slot(load)) = s
    BY <2>2, <2>7 DEF target_slot, Other, Slots
  <2> QED
    BY <2>1, <2>5, <2>6, <2>8, <2>9
<1> QED
  BY <1>3, <1>4

(* A step that ends the call without reporting a committed record.         *)
LEMMA EndsUncommitted ==
  ASSUME call' = NoCall, AnchoredRecordDurable',
         ret'.result # "OK" \/ ret'.outcome # "COMMITTED"
  PROVE  DInv'
BY DEF DInv, TransactionInv, DurableState, OkIsDurable, NoCall, Writing

LEMMA StageFailsUncommitted ==
  ASSUME NEW stage \in {"write", "verify", "commit"}, NEW op,
         StageFails(stage, op)
  PROVE  call' = NoCall /\ ret'.outcome # "COMMITTED"
BY ResultTypes DEF StageFails, Return

(* While the call is past its first erase, the record that is anchored is  *)
(* in the slot the call does not write.                                    *)
LEMMA AnchoredAside ==
  ASSUME IInv, DInv, intact, anchor # NoRec,
         call.pc \in {"program", "verify", "commit", "readback"}
  PROVE  slot[Other(call.target)] = Valid(anchor)
BY DEF IInv, CallInv, DInv, TransactionInv, Writing

(* Writing the target slot leaves the anchored record alone.               *)
LEMMA TargetWritten ==
  ASSUME IInv, DInv, UNCHANGED <<anchor, intact>>,
         call.pc \in {"program", "verify", "commit", "readback"},
         slot'[Other(call.target)] = slot[Other(call.target)]
  PROVE  AnchoredRecordDurable'
<1>1. Other(call.target) \in Slots
  BY DEF Other, Slots
<1> QED
  BY <1>1, AnchoredAside DEF AnchoredRecordDurable

(* The transaction goes on with its records, its target and its slots: its *)
(* invariant only asks for what the new stage adds.                        *)
LEMMA GoesOn ==
  ASSUME IInv, DInv, UNCHANGED <<ret, anchor, intact>>, AnchoredRecordDurable',
         call.pc \in Writing, call'.pc \in Writing,
         call'.prev = call.prev, call'.cand = call.cand,
         call'.base = call.base, call'.target = call.target,
         intact /\ call.prev # NoRec =>
           slot'[Other(call.target)] = slot[Other(call.target)],
         call'.pc \in {"verify", "commit", "readback"} => pending' = call.target,
         intact /\ call'.pc \in {"advance", "check"} =>
           slot'[call.target] = Valid(call.cand)
  PROVE  DInv'
BY DEF DInv, TransactionInv, DurableState, OkIsDurable, Writing, NoRet

LEMMA WriteEraseDurable == ASSUME IInv, DInv, WriteErase PROVE DInv'
<1>1. PICK load \in loads :
        LET r == write_precheck(load, call.cand)
            t == target_slot(load)
        IN \/ /\ r # "OK"
              /\ StageFails("write", r)
              /\ UNCHANGED slot
           \/ /\ r = "OK"
              /\ slot' = [slot EXCEPT ![t] = Erased]
              /\ call' = [call EXCEPT !.pc = "program", !.target = t]
              /\ UNCHANGED ret
           \/ /\ r = "OK"
              /\ \E e \in MediaFaults, image \in interrupted_erase(slot[t]) :
                   /\ slot' = [slot EXCEPT ![t] = image]
                   /\ StageFails("write", e)
  BY DEF WriteErase
<1> DEFINE t == target_slot(load)
<1>2. UNCHANGED <<anchor, intact>> /\ call.pc = "write"
  BY DEF WriteErase, Keep
<1>3. t \in Slots /\ Other(t) \in Slots /\ Other(t) # t
      /\ slot \in [Slots -> Images]
  BY TargetType DEF Other, Slots, IInv, TypeOK
<1>4. ASSUME write_precheck(load, call.cand) = "OK", NEW image,
             slot' = [slot EXCEPT ![t] = image]
      PROVE  AnchoredRecordDurable'
  <2>1. slot'[Other(t)] = slot[Other(t)]
    BY <1>3, <1>4
  <2>2. intact /\ anchor # NoRec => slot[Other(t)] = Valid(anchor)
    BY <1>2, <1>4, WriteTarget DEF IInv, CallInv
  <2> QED
    BY <1>2, <1>3, <2>1, <2>2 DEF AnchoredRecordDurable
<1>5. CASE StageFails("write", write_precheck(load, call.cand)) /\ UNCHANGED slot
  BY <1>2, <1>5, StageFailsUncommitted, EndsUncommitted
     DEF DInv, DurableState, AnchoredRecordDurable
<1>6. CASE /\ write_precheck(load, call.cand) = "OK"
           /\ slot' = [slot EXCEPT ![t] = Erased]
           /\ call' = [call EXCEPT !.pc = "program", !.target = t]
           /\ UNCHANGED ret
  <2>1. /\ call'.pc = "program" /\ call'.target = t /\ call'.prev = call.prev
        /\ call'.cand = call.cand /\ call'.base = call.base
    BY <1>6 DEF IInv, TypeOK
  <2>2. slot'[Other(t)] = slot[Other(t)]
    BY <1>3, <1>6
  <2>3. TransactionInv'
    BY <1>2, <1>6, <2>1, <2>2, WriteTarget DEF DInv, TransactionInv
  <2>4. AnchoredRecordDurable'
    BY <1>4, <1>6
  <2>5. OkIsDurable'
    BY <1>2, <1>6 DEF DInv, TransactionInv, OkIsDurable, NoRet
  <2> QED
    BY <2>3, <2>4, <2>5 DEF DInv, DurableState
<1>7. ASSUME write_precheck(load, call.cand) = "OK",
             NEW e \in MediaFaults, NEW image \in interrupted_erase(slot[t]),
             slot' = [slot EXCEPT ![t] = image], StageFails("write", e)
      PROVE  DInv'
  BY <1>4, <1>7, StageFailsUncommitted, EndsUncommitted
<1> QED
  BY <1>1, <1>5, <1>6, <1>7

LEMMA ProgramBodyDurable == ASSUME IInv, DInv, ProgramBody PROVE DInv'
<1>1. /\ UNCHANGED <<anchor, intact>> /\ call.pc = "program"
      /\ call.target \in Slots /\ slot \in [Slots -> Images]
  BY DEF ProgramBody, Keep, IInv, TypeOK
<1>2. Other(call.target) # call.target
  BY <1>1 DEF Other, Slots
<1>3. ASSUME NEW image, slot' = [slot EXCEPT ![call.target] = image],
             pending' = call.target, call' = [call EXCEPT !.pc = "verify"],
             UNCHANGED ret
      PROVE  DInv'
  <2>1. slot'[Other(call.target)] = slot[Other(call.target)]
    BY <1>1, <1>2, <1>3 DEF Other, Slots
  <2>2. /\ call'.pc = "verify" /\ call'.target = call.target
        /\ call'.prev = call.prev
        /\ call'.cand = call.cand /\ call'.base = call.base
    BY <1>3 DEF IInv, TypeOK
  <2>3. AnchoredRecordDurable'
    BY <1>1, <2>1, TargetWritten
  <2> QED
    BY <1>1, <1>3, <2>1, <2>2, <2>3, GoesOn DEF Writing
<1>4. ASSUME NEW e, NEW image, StageFails("write", e),
             slot' = [slot EXCEPT ![call.target] = image]
      PROVE  DInv'
  <2>1. slot'[Other(call.target)] = slot[Other(call.target)]
    BY <1>1, <1>2, <1>4 DEF Other, Slots
  <2>2. AnchoredRecordDurable'
    BY <1>1, <2>1, TargetWritten
  <2> QED
    BY <1>4, <2>2, StageFailsUncommitted, EndsUncommitted
<1> QED
  BY <1>3, <1>4 DEF ProgramBody

LEMMA VerifyDurable == ASSUME IInv, DInv, Verify PROVE DInv'
<1>1. UNCHANGED <<anchor, intact, slot, pending>> /\ call.pc = "verify"
  BY DEF Verify, Keep
<1>2. AnchoredRecordDurable'
  BY <1>1 DEF DInv, DurableState, AnchoredRecordDurable
<1>3. CASE call' = [call EXCEPT !.pc = "commit"] /\ UNCHANGED ret
  <2>1. /\ call'.pc = "commit" /\ call'.target = call.target
        /\ call'.prev = call.prev
        /\ call'.cand = call.cand /\ call'.base = call.base
    BY <1>3 DEF IInv, TypeOK
  <2>2. pending' = call.target
    BY <1>1 DEF DInv, TransactionInv
  <2> QED
    BY <1>1, <1>2, <1>3, <2>1, <2>2, GoesOn DEF Writing
<1>4. ASSUME NEW r, StageFails("verify", r) PROVE DInv'
  BY <1>2, <1>4, StageFailsUncommitted, EndsUncommitted
<1> QED
  BY <1>3, <1>4 DEF Verify

LEMMA CommitMarkerDurable == ASSUME IInv, DInv, CommitMarker PROVE DInv'
<1>1. /\ UNCHANGED <<anchor, intact>> /\ call.pc = "commit"
      /\ pending = call.target
      /\ call.target \in Slots /\ slot \in [Slots -> Images]
  BY DEF CommitMarker, Keep, IInv, TypeOK, DInv, TransactionInv
<1>2. Other(call.target) # call.target
  BY <1>1 DEF Other, Slots
<1>3. ASSUME NEW r, StageFails("commit", r), UNCHANGED slot PROVE DInv'
  <2>1. AnchoredRecordDurable'
    BY <1>1, <1>3 DEF DInv, DurableState, AnchoredRecordDurable
  <2> QED
    BY <1>3, <2>1, StageFailsUncommitted, EndsUncommitted
<1>4. ASSUME NEW image, slot' = [slot EXCEPT ![pending] = image],
             call' = [call EXCEPT !.pc = "readback"], UNCHANGED <<ret, pending>>
      PROVE  DInv'
  <2>1. slot'[Other(call.target)] = slot[Other(call.target)]
    BY <1>1, <1>2, <1>4 DEF Other, Slots
  <2>2. /\ call'.pc = "readback" /\ call'.target = call.target
        /\ call'.prev = call.prev
        /\ call'.cand = call.cand /\ call'.base = call.base
    BY <1>4 DEF IInv, TypeOK
  <2>3. AnchoredRecordDurable'
    BY <1>1, <2>1, TargetWritten
  <2> QED
    BY <1>1, <1>4, <2>1, <2>2, <2>3, GoesOn DEF Writing
<1>5. ASSUME NEW image, slot' = [slot EXCEPT ![pending] = image],
             StageFails("commit", "STATE_UNCERTAIN")
      PROVE  DInv'
  <2>1. slot'[Other(call.target)] = slot[Other(call.target)]
    BY <1>1, <1>2, <1>5 DEF Other, Slots
  <2>2. AnchoredRecordDurable'
    BY <1>1, <2>1, TargetWritten
  <2> QED
    BY <1>5, <2>2, StageFailsUncommitted, EndsUncommitted
<1> QED
  BY <1>3, <1>4, <1>5 DEF CommitMarker

LEMMA ReadbackDurable == ASSUME IInv, DInv, Readback PROVE DInv'
<1>1. /\ UNCHANGED <<anchor, intact, slot, runtime>> /\ call.pc = "readback"
      /\ pending = call.target
  BY DEF Readback, Keep, DInv, TransactionInv
<1>2. AnchoredRecordDurable'
  BY <1>1 DEF DInv, DurableState, AnchoredRecordDurable
<1>3. CASE StageFails("commit", "STATE_UNCERTAIN")
  BY <1>2, <1>3, StageFailsUncommitted, EndsUncommitted
<1>4. CASE call.prev = NoRec /\ Return("OK", "COMMITTED")
  <2>1. intact => runtime' = NoRec
    BY <1>1, <1>4 DEF DInv, TransactionInv, Writing, IInv, RuntimeInv, AckInv
  <2>2. OkIsDurable'
    BY <1>1, <2>1 DEF OkIsDurable
  <2> QED
    BY <1>2, <1>4, <2>2 DEF DInv, TransactionInv, DurableState, Return, NoCall,
       Writing
<1>5. CASE /\ slot[pending] = Valid(call.cand)
           /\ call' = [call EXCEPT !.pc = "advance"] /\ UNCHANGED ret
  <2>1. /\ call'.pc = "advance" /\ call'.target = call.target
        /\ call'.prev = call.prev
        /\ call'.cand = call.cand /\ call'.base = call.base
    BY <1>5 DEF IInv, TypeOK
  <2> QED
    BY <1>1, <1>2, <1>5, <2>1, GoesOn DEF Writing
<1> QED
  BY <1>3, <1>4, <1>5 DEF Readback

(* Before the advance the previous record and the candidate are both in    *)
(* flash, so the anchor may move between them at any point.                *)
LEMMA AdvanceDurable ==
  ASSUME IInv, DInv, call.pc = "advance", UNCHANGED <<slot, intact>>,
         anchor' \in {anchor, call.cand}
  PROVE  AnchoredRecordDurable'
<1>1. call.target \in Slots /\ Other(call.target) \in Slots
  BY DEF IInv, TypeOK, Other, Slots
<1>2. /\ intact => slot[call.target] = Valid(call.cand)
      /\ intact => slot[Other(call.target)] = Valid(anchor)
  BY DEF IInv, CallInv, DInv, TransactionInv, Writing
<1> QED
  BY <1>1, <1>2 DEF AnchoredRecordDurable

LEMMA AnchorAdvanceDurable == ASSUME IInv, DInv, AnchorAdvance PROVE DInv'
<1>1. /\ UNCHANGED <<slot, pending, runtime, acked, intact>>
      /\ call.pc = "advance" /\ anchor' \in {anchor, call.cand}
  BY DEF AnchorAdvance
<1>2. AnchoredRecordDurable'
  BY <1>1, AdvanceDurable
<1>3. CASE call' = [call EXCEPT !.pc = "check"] /\ UNCHANGED ret
  <2>1. /\ call'.pc = "check" /\ call'.target = call.target
        /\ call'.prev = call.prev /\ call.prev # NoRec
        /\ call'.cand = call.cand /\ call'.base = call.base
    BY <1>1, <1>3 DEF IInv, TypeOK, CallInv
  <2>2. TransactionInv'
    BY <1>1, <1>3, <2>1 DEF DInv, TransactionInv, Writing
  <2>3. OkIsDurable'
    BY <1>1, <1>3 DEF DInv, TransactionInv, OkIsDurable, NoRet
  <2> QED
    BY <1>2, <2>2, <2>3 DEF DInv, DurableState
<1>4. ASSUME NEW op, op # "OK",
             Return(map_anchor_provider_result(op), "COMMITTED")
      PROVE  DInv'
  <2>1. map_anchor_provider_result(op) # "OK"
    BY <1>4 DEF map_anchor_provider_result
  <2> QED
    BY <1>2, <1>4, <2>1, EndsUncommitted DEF Return
<1> QED
  BY <1>3, <1>4 DEF AnchorAdvance, AnchorFaults

LEMMA AnchorCheckDurable == ASSUME IInv, DInv, AnchorCheck PROVE DInv'
<1>1. /\ UNCHANGED <<slot, pending, anchor, intact>> /\ call.pc = "check"
  BY DEF AnchorCheck
<1>2. AnchoredRecordDurable'
  BY <1>1 DEF DInv, DurableState, AnchoredRecordDurable
<1>3. ASSUME NEW r, r # "OK", Return(r, "COMMITTED") PROVE DInv'
  BY <1>2, <1>3, EndsUncommitted DEF Return
<1>4. CASE acked' = Highest(acked, call.cand) /\ Return("OK", "COMMITTED")
  <2>1. /\ call.prev \in Records /\ call.cand \in Records
        /\ transition_is_adjacent(call.prev, call.cand)
        /\ call.target \in Slots /\ slot \in [Slots -> Images]
        /\ anchor = call.cand
    BY <1>1 DEF IInv, TypeOK, DataInv, CallInv
  <2>2. acked' = call.cand
    <3>1. acked # NoRec => acked \in Records /\ acked.seq <= call.cand.seq
      BY <2>1 DEF IInv, TypeOK, AckInv
    <3>2. acked # NoRec => ~(acked.seq > call.cand.seq)
      BY <2>1, <3>1, StoreConstants DEF Records
    <3> QED
      BY <1>4, <3>2 DEF Highest
  <2>3. intact => /\ slot[call.target] = Valid(call.cand)
                  /\ slot[Other(call.target)] = Valid(call.prev)
                  /\ call.base = call.prev
    BY <1>1, <2>1, StoreConstants DEF DInv, TransactionInv, Writing, Records
  <2>4. intact => /\ recover_internal(slot).op = "OK"
                  /\ recover_internal(slot).rec = call.cand
    BY <2>1, <2>3, RecoverNewer
  <2>5. call.prev # call.cand
    BY <2>1, StoreConstants DEF transition_is_adjacent, Records
  <2>6. OkIsDurable'
    BY <1>1, <1>4, <2>2, <2>3, <2>4, <2>5 DEF OkIsDurable, Return
  <2> QED
    BY <1>2, <1>4, <2>6 DEF DInv, TransactionInv, DurableState, Return, NoCall,
       Writing
<1>5. \A op : op # "OK" => map_anchor_provider_result(op) # "OK"
  BY DEF map_anchor_provider_result
<1> QED
  BY <1>3, <1>4, <1>5 DEF AnchorCheck

(* Calls that start, and what else happens between calls.                  *)
LEMMA IdleDurable ==
  ASSUME IInv, DInv, call.pc = "idle", UNCHANGED <<slot, intact>>,
         AnchoredRecordDurable',
         \/ UNCHANGED <<call, ret, acked>> /\ (runtime' # NoRec => runtime # NoRec)
         \/ call' = NoCall /\ (ret'.result # "OK" \/ ret'.outcome # "COMMITTED")
         \/ UNCHANGED call /\ ret'.outcome # "COMMITTED"
         \/ /\ call'.pc = "write" /\ ret' = NoRet
            /\ call'.base = recover_internal(slot).rec
            /\ call'.prev = NoRec => call'.cand.gen = 0
  PROVE  DInv'
<1>1. TransactionInv'
  BY DEF DInv, TransactionInv, Writing, NoCall
<1>2. OkIsDurable'
  BY DEF DInv, DurableState, OkIsDurable, NoRet
<1> QED
  BY <1>1, <1>2 DEF DInv, DurableState

LEMMA CallStartsDurable ==
  ASSUME IInv, DInv,
         \/ \E cand \in Records : Bootstrap(cand)
         \/ \E prev \in written \cup {NoRec}, e \in Epochs, n \in 0..MaxSeq :
              CommitContinuation(prev, e, n)
  PROVE  DInv'
<1>1. UNCHANGED <<slot, intact, anchor>> /\ call.pc = "idle"
  BY DEF Bootstrap, CommitContinuation, Keep, Idle
<1>2. AnchoredRecordDurable'
  BY <1>1 DEF DInv, DurableState, AnchoredRecordDurable
<1>3. ASSUME NEW cand \in Records, Bootstrap(cand) PROVE DInv'
  <2>1. transact_check(NoRec, cand) = "OK" => cand.gen = 0
    BY DEF transact_check, next_generation
  <2>2. \/ call' = NoCall /\ ret'.outcome # "COMMITTED"
        \/ /\ call'.pc = "write" /\ ret' = NoRet
           /\ call'.base = recover_internal(slot).rec
           /\ call'.cand.gen = 0
    BY <1>3, <2>1 DEF Bootstrap
  <2> QED
    BY <1>1, <1>2, <2>2, IdleDurable
<1>4. ASSUME NEW prev \in written \cup {NoRec}, NEW e \in Epochs,
             NEW n \in 0..MaxSeq, CommitContinuation(prev, e, n)
      PROVE  DInv'
  <2>1. \A rd : continuation_check(prev, e, n, rd) = "OK" => prev # NoRec
    BY DEF continuation_check, record_valid
  <2>2. \/ call' = NoCall /\ ret'.outcome # "COMMITTED"
        \/ /\ call'.pc = "write" /\ ret' = NoRet
           /\ call'.base = recover_internal(slot).rec
           /\ call'.prev # NoRec
    BY <1>4, <2>1 DEF CommitContinuation
  <2> QED
    BY <1>1, <1>2, <2>2, IdleDurable
<1> QED
  BY <1>3, <1>4

LEMMA BetweenCallsDurable ==
  ASSUME IInv, DInv,
         \/ Recover
         \/ \E id \in Ids, e \in Epochs \ {0}, n \in 1..MaxSeq :
              EvaluateAndApply([id |-> id, epoch |-> e, seq |-> n])
         \/ ProvisionAnchor
  PROVE  DInv'
<1>1. UNCHANGED <<slot, intact, call>> /\ call.pc = "idle"
  BY DEF Recover, EvaluateAndApply, ProvisionAnchor, Idle
<1>2. CASE Recover
  <2>1. AnchoredRecordDurable' /\ ret'.outcome # "COMMITTED"
    BY <1>2 DEF Recover, DInv, DurableState, AnchoredRecordDurable
  <2> QED
    BY <1>1, <2>1, IdleDurable
<1>3. ASSUME NEW id \in Ids, NEW e \in Epochs \ {0}, NEW n \in 1..MaxSeq,
             EvaluateAndApply([id |-> id, epoch |-> e, seq |-> n])
      PROVE  DInv'
  <2>1. AnchoredRecordDurable' /\ UNCHANGED <<ret, acked>> /\ runtime # NoRec
    BY <1>3 DEF EvaluateAndApply, evaluate_internal, DInv, DurableState,
       AnchoredRecordDurable
  <2> QED
    BY <1>1, <2>1, IdleDurable
<1>4. CASE ProvisionAnchor
  <2>1. /\ anchor' = recover_internal(slot).rec
        /\ recover_internal(slot).status = "VALID_PERSISTED_STATE"
        /\ UNCHANGED <<ret, acked, runtime>>
    BY <1>4 DEF ProvisionAnchor
  <2>2. slot \in [Slots -> Images]
    BY DEF IInv, TypeOK
  <2>3. \E s \in Slots : slot[s] = Valid(recover_internal(slot).rec)
    BY <2>1, <2>2 DEF recover_internal, Found, StateUncertain, Slots, Images,
       Valid, Other
  <2>4. AnchoredRecordDurable'
    BY <1>1, <2>1, <2>3 DEF AnchoredRecordDurable
  <2> QED
    BY <1>1, <2>1, <2>4, IdleDurable
<1> QED
  BY <1>2, <1>3, <1>4

(* Power loss at any stage: the slot under the interrupted operation is    *)
(* never the one with the anchored record.                                 *)
LEMMA PowerLossDurable == ASSUME IInv, DInv, PowerLoss PROVE DInv'
<1>1. /\ UNCHANGED intact /\ call' = NoCall /\ ret' = NoRet
      /\ slot' \in interrupted_slots
      /\ \/ anchor' = anchor
         \/ call.pc = "advance" /\ anchor' = call.cand
  BY DEF PowerLoss, RamReset
<1>2. AnchoredRecordDurable'
  <2>1. CASE call.pc = "advance"
    <3>1. slot' = slot
      BY <1>1, <2>1 DEF interrupted_slots
    <3> QED
      BY <1>1, <2>1, <3>1, AdvanceDurable
  <2>2. CASE call.pc # "advance" /\ slot' = slot
    BY <1>1, <2>2 DEF DInv, DurableState, AnchoredRecordDurable
  <2>3. CASE call.pc = "write" /\ slot' # slot
    <3> DEFINE load == recover_internal(slot)
               t == target_slot(load)
    <3>1. /\ write_precheck(load, call.cand) = "OK"
          /\ \E image \in interrupted_erase(slot[t]) :
               slot' = [slot EXCEPT ![t] = image]
      BY <1>1, <2>3 DEF interrupted_slots
    <3>2. load \in loads
      BY DEF loads
    <3>3. t \in Slots /\ Other(t) \in Slots /\ Other(t) # t
          /\ slot \in [Slots -> Images]
      BY <3>2, TargetType DEF Other, Slots, IInv, TypeOK
    <3>4. slot'[Other(t)] = slot[Other(t)]
      BY <3>1, <3>3
    <3>5. intact /\ anchor # NoRec => slot[Other(t)] = Valid(anchor)
      BY <2>3, <3>1, <3>2, WriteTarget DEF IInv, CallInv
    <3> QED
      BY <1>1, <2>3, <3>3, <3>4, <3>5 DEF AnchoredRecordDurable
  <2>4. CASE call.pc \in {"program", "commit"} /\ slot' # slot
    <3>1. \E image : slot' = [slot EXCEPT ![call.target] = image]
      BY <1>1, <2>4 DEF interrupted_slots, DInv, TransactionInv
    <3>2. call.target \in Slots /\ slot \in [Slots -> Images]
      BY DEF IInv, TypeOK
    <3>3. slot'[Other(call.target)] = slot[Other(call.target)]
      BY <3>1, <3>2 DEF Other, Slots
    <3> QED
      BY <1>1, <2>4, <3>3, TargetWritten
  <2> QED
    BY <1>1, <2>1, <2>2, <2>3, <2>4 DEF interrupted_slots
<1> QED
  BY <1>1, <1>2, EndsUncommitted DEF NoRet

LEMMA RestoreOldMediaDurable ==
  ASSUME IInv, DInv, RestoreOldMedia PROVE DInv'
<1>1. intact' = FALSE /\ call' = NoCall /\ ret' = NoRet
  BY DEF RestoreOldMedia, RamReset
<1>2. AnchoredRecordDurable'
  BY <1>1 DEF AnchoredRecordDurable
<1> QED
  BY <1>1, <1>2, EndsUncommitted DEF NoRet

LEMMA NextDInv == IInv /\ DInv /\ [Next]_vars => DInv'
<1> SUFFICES ASSUME IInv, DInv, [Next]_vars PROVE DInv'
  OBVIOUS
<1>1. CASE UNCHANGED vars
  BY <1>1 DEF vars, DInv, TransactionInv, DurableState, AnchoredRecordDurable,
     OkIsDurable
<1>2. CASE WriteErase \/ ProgramBody \/ Verify \/ CommitMarker \/ Readback
  BY <1>2, WriteEraseDurable, ProgramBodyDurable, VerifyDurable,
     CommitMarkerDurable, ReadbackDurable
<1>3. CASE AnchorAdvance \/ AnchorCheck
  BY <1>3, AnchorAdvanceDurable, AnchorCheckDurable
<1>4. CASE \/ \E cand \in Records : Bootstrap(cand)
           \/ \E prev \in written \cup {NoRec}, e \in Epochs, n \in 0..MaxSeq :
                CommitContinuation(prev, e, n)
  BY <1>4, CallStartsDurable
<1>5. CASE \/ Recover
           \/ \E id \in Ids, e \in Epochs \ {0}, n \in 1..MaxSeq :
                EvaluateAndApply([id |-> id, epoch |-> e, seq |-> n])
           \/ ProvisionAnchor
  BY <1>5, BetweenCallsDurable
<1>6. CASE PowerLoss \/ RestoreOldMedia
  BY <1>6, PowerLossDurable, RestoreOldMediaDurable
<1> QED
  BY <1>1, <1>2, <1>3, <1>4, <1>5, <1>6 DEF Next

(* Durable state survives: for every number of records, failed operations  *)
(* and power losses, the anchored record is in a valid slot of the         *)
(* device's own medium, and a commit reported OK is what recovery selects. *)
THEOREM DurableRecords == Spec => []DurableState
<1>1. Init => DInv
  BY DEF Init, DInv, TransactionInv, DurableState, AnchoredRecordDurable,
     OkIsDurable, NoCall, NoRet, Writing
<1>2. DInv => DurableState
  BY DEF DInv
<1> QED
  BY <1>1, <1>2, NextDInv, AntiReplayInvariant, PTL DEF Spec
=============================================================================
