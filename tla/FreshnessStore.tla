--------------------------- MODULE FreshnessStore ---------------------------
(***************************************************************************)
(* The dual-slot freshness store of the NodeLink persistence backend:      *)
(*   firmware/NodeLink/Src/guardian_node_link_freshness_persistence_*.c    *)
(*                                                                         *)
(* A freshness record (peer identity, accepted epoch, accepted sequence,   *)
(* record generation) lives in one of two flash sectors.  A new record is  *)
(* always built in the sector that does NOT hold the current one: erase,   *)
(* program header and payload, verify, program the 4-byte commit marker.   *)
(* This module holds the data, the slot scan, the recovery decision and    *)
(* what one flash operation may leave behind; PersistentAntiReplay.tla     *)
(* runs the transaction step by step.                                      *)
(*                                                                         *)
(* Abstractions.  A 448-byte slot image is its scan class plus the record  *)
(* it encodes.  SHA-256 over header and payload is collision free, so an   *)
(* image whose digests match holds exactly the record it was built from.   *)
(* MaxSeq and MaxGen stand for UINT32_MAX.                                 *)
(***************************************************************************)
EXTENDS Naturals

CONSTANTS
  Ids,      \* peer freshness identities (node, producer, key, profiles)
  Epochs,   \* sender epochs; epoch 0 is never valid
  MaxSeq,   \* UINT32_MAX for accepted_sequence
  MaxGen,   \* UINT32_MAX for record_generation
  NoRec     \* "no record": a zeroed output, an image that decodes to nothing

ASSUME StoreConstants ==
  /\ Epochs \subseteq Nat
  /\ MaxSeq \in Nat
  /\ MaxGen \in Nat \ {0}
  /\ NoRec \notin [id : Ids, epoch : Epochs, seq : 0..MaxSeq, gen : 0..MaxGen]

Slots == {"A", "B"}

Records == [id : Ids, epoch : Epochs, seq : 0..MaxSeq, gen : 0..MaxGen]

(* What a slot image is.  PARTIAL and STAGED both lack the commit marker   *)
(* and scan as TORN; STAGED has a complete, verifiable body.               *)
Images == [st : {"ERASED", "PARTIAL", "STAGED", "CORRUPTED", "VALID"},
           rec : Records \cup {NoRec}]

Erased    == [st |-> "ERASED",    rec |-> NoRec]
Partial   == [st |-> "PARTIAL",   rec |-> NoRec]
Corrupted == [st |-> "CORRUPTED", rec |-> NoRec]
Staged(r) == [st |-> "STAGED",    rec |-> r]
Valid(r)  == [st |-> "VALID",     rec |-> r]

Other(s) == IF s = "A" THEN "B" ELSE "A"

(* classify with VALID_PERSISTED_STATE: exact identity, non-zero epoch and *)
(* sequence.                                                               *)
record_valid(r, expected) ==
  /\ r # NoRec
  /\ r.id = expected
  /\ r.epoch # 0
  /\ r.seq # 0

(* r3e_transition_is_adjacent: newer is the direct continuation of older.  *)
transition_is_adjacent(older, newer) ==
  /\ older.id = newer.id
  /\ older.epoch = newer.epoch
  /\ older.gen # MaxGen
  /\ newer.gen = older.gen + 1
  /\ newer.seq > older.seq

-----------------------------------------------------------------------------
(* r3e_scan_slot and r3e_recover_internal.                                 *)

Found(op, status, r, s) == [op |-> op, status |-> status, rec |-> r, at |-> s]

StateUncertain == Found("STATE_UNCERTAIN", "UNAVAILABLE_STATE", NoRec, "A")

(* The record recovery selects from the two images, the slot it is in and  *)
(* the provider status; a torn or erased peer is tolerated, a corrupted    *)
(* peer is not.                                                            *)
recover_internal(slots) ==
  LET valid == {s \in Slots : slots[s].st = "VALID"}
  IN CASE \A s \in Slots : slots[s].st = "ERASED" ->
            Found("OK", "NO_PERSISTED_STATE", NoRec, "A")
       [] valid = Slots ->
            IF transition_is_adjacent(slots["A"].rec, slots["B"].rec)
              THEN Found("OK", "VALID_PERSISTED_STATE", slots["B"].rec, "B")
            ELSE IF transition_is_adjacent(slots["B"].rec, slots["A"].rec)
              THEN Found("OK", "VALID_PERSISTED_STATE", slots["A"].rec, "A")
            ELSE StateUncertain
       [] \E s \in Slots : valid = {s} ->
            LET s == IF "A" \in valid THEN "A" ELSE "B"
            IN IF slots[Other(s)].st = "CORRUPTED"
                 THEN StateUncertain
                 ELSE Found("OK", "VALID_PERSISTED_STATE", slots[s].rec, s)
       [] valid = {} /\ \E s \in Slots : slots[s].st = "CORRUPTED" ->
            Found("OK", "CORRUPTED_STATE", NoRec, "A")
       [] OTHER ->
            Found("OK", "TORN_OR_INCOMPLETE_UPDATE", NoRec, "A")

(* The decisions of write_candidate before the first flash operation.      *)
write_precheck(found, candidate) ==
  CASE found.op # "OK" -> found.op
    [] found.op = "OK" /\ found.status = "NO_PERSISTED_STATE" ->
         IF candidate.gen = 0 THEN "OK" ELSE "VERIFY_FAILURE"
    [] found.op = "OK" /\ found.status = "VALID_PERSISTED_STATE" ->
         IF found.rec.gen = MaxGen THEN "GENERATION_EXHAUSTED"
         ELSE IF transition_is_adjacent(found.rec, candidate) THEN "OK"
         ELSE "VERIFY_FAILURE"
    [] OTHER -> "STATE_UNCERTAIN"

(* Mutant: the current slot is the one that is rewritten.                  *)
target_slot_in_place(found) ==
  IF found.status = "NO_PERSISTED_STATE" THEN "A" ELSE found.at

target_slot(found) ==
  IF found.status = "NO_PERSISTED_STATE" THEN "A" ELSE Other(found.at)

-----------------------------------------------------------------------------
(* What a flash operation that did not report success, or during which     *)
(* power was lost, may leave in the sector.  Erase raises bits and program *)
(* lowers them byte by byte in address order; the marker is programmed     *)
(* last, so a body that is not complete never carries one.                 *)

interrupted_erase(image) ==
  {image, Erased}
    \cup (IF image.st = "ERASED" THEN {} ELSE {Partial})
    \cup (IF image.st \in {"VALID", "CORRUPTED"} THEN {Corrupted} ELSE {})

interrupted_body(image, candidate) == {image, Partial, Staged(candidate)}

interrupted_marker(candidate) ==
  {Staged(candidate), Corrupted, Valid(candidate)}

-----------------------------------------------------------------------------
(* The provider contract's view of a stage result: a result outside the    *)
(* vocabulary of its stage is reported as INVALID.                         *)
StageResults ==
  [write  |-> {"OK", "UNAVAILABLE", "IO_FAILURE", "STATE_UNCERTAIN"},
   verify |-> {"OK", "UNAVAILABLE", "IO_FAILURE", "VERIFY_FAILURE",
               "STATE_UNCERTAIN"},
   commit |-> {"OK", "UNAVAILABLE", "IO_FAILURE", "COMMIT_FAILURE",
               "STATE_UNCERTAIN"}]

handle_stage_result(stage, result) ==
  IF result \in StageResults[stage] THEN result ELSE "INVALID"

(* What a stage that did not succeed makes of the transaction.             *)
stage_outcome(stage, result) ==
  IF handle_stage_result(stage, result) \in {"INVALID", "STATE_UNCERTAIN"}
    THEN "STATE_UNCERTAIN"
    ELSE "ABORTED"
=============================================================================
