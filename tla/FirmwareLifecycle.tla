------------------------- MODULE FirmwareLifecycle -------------------------
(***************************************************************************)
(* The signed firmware update of guardian_firmware_lifecycle.c with the    *)
(* trusted-key table and the Ed25519 adapter that verify a manifest, the   *)
(* wire decoding in front of it, and the platform it calls back into:      *)
(* staging storage, pending-image metadata, the persisted rollback floor   *)
(* and the boot loader.                                                    *)
(*                                                                         *)
(* Image bytes are blocks.  SHA-256 is injective, so a digest is the block *)
(* sequence it stands for; a signature is the pair of the public key that  *)
(* made it and the transcript it covers.                                   *)
(***************************************************************************)
EXTENDS Integers, Sequences, FiniteSets

CONSTANTS
  Blocks,               \* image contents of one block
  MaxImageSize,         \* config.max_image_size, in blocks
  MaxChunk,             \* GUARDIAN_FIRMWARE_CHUNK_MAX_DATA, in blocks
  MaxVersion,           \* bound on the monotonic version counters
  Algorithms,           \* ED25519 and DEMO_HMAC_SHA256
  Ed25519,              \* the one the trusted-key adapter verifies
  RequiredAlgorithm,    \* config.required_signature_algorithm
  TrustedKeys,          \* rows of the trusted-key table
  Manifests,            \* manifests a host may send
  Erased,               \* content of an erased block
  NoManifest            \* the zeroed manifest after lifecycle_init

Versions == 0 .. MaxVersion
Images == UNION {[1 .. n -> Blocks] : n \in 1 .. MaxImageSize}
Cells == 1 .. MaxImageSize

ASSUME FirmwareAssumption ==
  /\ MaxImageSize \in Nat \ {0} /\ MaxChunk \in Nat \ {0}
  /\ MaxVersion \in Nat \ {0}
  /\ Ed25519 \in Algorithms /\ RequiredAlgorithm \in Algorithms
  /\ Erased \notin Blocks /\ NoManifest \notin Manifests
  /\ \A m \in Manifests :
       /\ m.version \in 0 .. MaxVersion
       /\ m.image_size \in Nat

States == {"IDLE", "RECEIVING", "VERIFIED", "PENDING_ACTIVATION",
           "CONFIRMED", "ROLLED_BACK", "FAILED"}
Failures == {"NONE", "UNCONFIGURED", "INVALID_PAYLOAD", "ROLLBACK_BLOCKED",
             "STORAGE", "HASH_MISMATCH", "SIGNATURE_INVALID", "ACTIVATION",
             "CONFIRMATION", "OUT_OF_ORDER"}
Operations == {"init", "configure", "begin", "write_chunk", "finalize", "activate",
               "confirm_boot", "report_boot_failure"}
Results == {"OK", "INVALID_STATE"} \cup (Failures \ {"NONE"})

VARIABLES
  fw,        \* guardian_firmware_lifecycle_t, in RAM
  staging,   \* the staging area: cell -> block or Erased
  pending,   \* persisted pending-activation version, 0 when clear
  pfloor,    \* persisted rollback floor
  confirmed, \* version of the image the boot loader falls back to
  running,   \* version of the image now executing
  call,      \* "confirming" between the two callbacks of confirm_boot
  ret        \* the last operation and its result

vars == <<fw, staging, pending, pfloor, confirmed, running, call, ret>>
platform == <<staging, pending, pfloor, confirmed, running>>

Lifecycle == [configured : BOOLEAN, state : States, failure : Failures,
              active : Versions, floor : Versions,
              manifest : Manifests \cup {NoManifest}, received : 0 .. MaxImageSize]

----------------------------------------------------------------------------
(* Signature verification.                                                 *)

\* guardian_firmware_signed_manifest: every manifest field but the signature.
signed_manifest(m) ==
  [algorithm |-> m.algorithm, key_id |-> m.key_id, version |-> m.version,
   image_size |-> m.image_size, digest |-> m.digest]

\* Exactly one row carries the id, and that row is active and of the algorithm.
provider_resolve(id, algorithm) ==
  LET match == {k \in TrustedKeys : k.key_id = id}
  IN  IF Cardinality(match) = 1
      THEN {k \in match : k.state = "ACTIVE" /\ k.algorithm = algorithm}
      ELSE {}

resolve_production(id, algorithm) ==
  {k \in provider_resolve(id, algorithm) :
     k.provenance = "PRODUCTION_APPROVED" /\ ~k.provenance_digest_zero}

\* crypto_ed25519_check of the vendored library: the signature is the one this
\* key makes over this message.
ed25519_check(signature, public_key, message) ==
  signature = [public_key |-> public_key, message |-> message]

trusted_signature_verify(m) ==
  /\ m.algorithm = Ed25519
  /\ \E k \in resolve_production(m.key_id, Ed25519) :
       ed25519_check(m.signature, k.public_key, signed_manifest(m))

----------------------------------------------------------------------------
(* The operations.                                                         *)

\* guardian_firmware_fail
fail(op, failure) ==
  /\ fw' = [fw EXCEPT !.state = "FAILED", !.failure = failure]
  /\ ret' = <<op, failure>>

\* An early return that leaves the lifecycle alone.
refuse(op, result) ==
  /\ fw' = fw
  /\ ret' = <<op, result>>

minimum_counter == IF fw.floor > fw.active THEN fw.floor ELSE fw.active

lifecycle_init ==
  [configured |-> FALSE, state |-> "IDLE", failure |-> "NONE", active |-> 0,
   floor |-> 0, manifest |-> NoManifest, received |-> 0]

\* decode_manifest; the field sizes are right by the shape of the records.
decode_manifest(m) == m.version # 0 /\ m.image_size # 0

\* The checks of begin before it touches storage, in their order.
begin_check(m) ==
  IF ~fw.configured THEN "UNCONFIGURED"
  ELSE IF m.algorithm # RequiredAlgorithm \/ m.image_size > MaxImageSize
       THEN "INVALID_PAYLOAD"
  ELSE IF m.version <= minimum_counter THEN "ROLLBACK_BLOCKED"
  ELSE "OK"

Init ==
  /\ fw = lifecycle_init
  /\ staging = [i \in Cells |-> Erased]
  /\ pending = 0
  /\ confirmed = 1 /\ running = 1
  /\ pfloor \in {0, 1}
  /\ call = "none"
  /\ ret = <<"init", "OK">>

\* guardian_firmware_lifecycle_configure, called by the application once after
\* start-up with the persisted floor and the version it takes as confirmed:
\* the image it runs or the one the boot loader falls back to.
Configure ==
  /\ call = "none" /\ ~fw.configured
  /\ \E active \in {confirmed, running} :
       IF pfloor > active
       THEN refuse("configure", "INVALID_PAYLOAD")
       ELSE /\ fw' = [lifecycle_init EXCEPT !.configured = TRUE,
                                            !.active = active, !.floor = pfloor]
            /\ ret' = <<"configure", "OK">>
  /\ UNCHANGED <<platform, call>>

\* FIRMWARE_BEGIN: decode, check, erase, start receiving.  There is no guard
\* on the current state.  A failing erase may have erased any of the cells.
Begin(m) ==
  /\ call = "none"
  /\ UNCHANGED <<pending, pfloor, confirmed, running, call>>
  /\ \/ /\ ~decode_manifest(m)
        /\ refuse("begin", "INVALID_PAYLOAD")
        /\ UNCHANGED staging
     \/ /\ decode_manifest(m) /\ begin_check(m) # "OK"
        /\ fail("begin", begin_check(m))
        /\ UNCHANGED staging
     \/ /\ decode_manifest(m) /\ begin_check(m) = "OK"
        /\ \/ /\ staging' = [i \in Cells |-> Erased]
              /\ fw' = [fw EXCEPT !.manifest = m, !.received = 0,
                                  !.failure = "NONE", !.state = "RECEIVING"]
              /\ ret' = <<"begin", "OK">>
           \/ /\ \E wiped \in SUBSET Cells :
                   staging' = [i \in Cells |-> IF i \in wiped THEN Erased
                                               ELSE staging[i]]
              /\ fail("begin", "STORAGE")

chunk_check(offset, data) ==
  IF offset # fw.received THEN "OUT_OF_ORDER"
  ELSE IF offset + Len(data) > fw.manifest.image_size THEN "INVALID_PAYLOAD"
  ELSE "OK"

\* Cells of the staging area after the blocks number `taken' of data landed.
written(offset, data, taken) ==
  [i \in Cells |-> IF i - offset \in taken THEN data[i - offset] ELSE staging[i]]

\* decode_chunk: the length field, which must also be the length of the data.
decode_chunk(data) == Len(data) \in 1 .. MaxChunk

\* FIRMWARE_CHUNK.  A failing write may have written any of the blocks.
WriteChunk(offset, data) ==
  /\ call = "none"
  /\ UNCHANGED <<pending, pfloor, confirmed, running, call>>
  /\ \/ /\ ~decode_chunk(data) \/ fw.state # "RECEIVING"
        /\ refuse("write_chunk",
                  IF decode_chunk(data) THEN "INVALID_STATE" ELSE "INVALID_PAYLOAD")
        /\ UNCHANGED staging
     \/ /\ decode_chunk(data) /\ fw.state = "RECEIVING"
        /\ \/ /\ chunk_check(offset, data) # "OK"
              /\ fail("write_chunk", chunk_check(offset, data))
              /\ UNCHANGED staging
           \/ /\ chunk_check(offset, data) = "OK"
              /\ \/ /\ staging' = written(offset, data, DOMAIN data)
                    /\ fw' = [fw EXCEPT !.received = offset + Len(data)]
                    /\ ret' = <<"write_chunk", "OK">>
                 \/ /\ \E taken \in SUBSET DOMAIN data :
                         staging' = written(offset, data, taken)
                    /\ fail("write_chunk", "STORAGE")

\* The image now staged for a manifest, as the digest the hash callback gives.
staged_digest(m) == [i \in 1 .. m.image_size |-> staging[i]]

\* Mutant: the signature is checked and the image it covers is not.
finalize_check_no_hash ==
  IF ~trusted_signature_verify(fw.manifest) THEN "SIGNATURE_INVALID"
  ELSE IF fw.manifest.version <= minimum_counter THEN "ROLLBACK_BLOCKED"
  ELSE "OK"

\* The checks of finalize once the digest is known, in their order.
finalize_check ==
  IF staged_digest(fw.manifest) # fw.manifest.digest THEN "HASH_MISMATCH"
  ELSE IF ~trusted_signature_verify(fw.manifest) THEN "SIGNATURE_INVALID"
  ELSE IF fw.manifest.version <= minimum_counter THEN "ROLLBACK_BLOCKED"
  ELSE "OK"

\* FIRMWARE_FINALIZE; the hash callback may fail.
Finalize ==
  /\ call = "none"
  /\ UNCHANGED <<platform, call>>
  /\ \/ /\ fw.state # "RECEIVING"
        /\ refuse("finalize", "INVALID_STATE")
     \/ /\ fw.state = "RECEIVING" /\ fw.received # fw.manifest.image_size
        /\ fail("finalize", "INVALID_PAYLOAD")
     \/ /\ fw.state = "RECEIVING" /\ fw.received = fw.manifest.image_size
        /\ \/ fail("finalize", "STORAGE")
           \/ /\ finalize_check # "OK"
              /\ fail("finalize", finalize_check)
           \/ /\ finalize_check = "OK"
              /\ fw' = [fw EXCEPT !.state = "VERIFIED", !.failure = "NONE"]
              /\ ret' = <<"finalize", "OK">>

\* FIRMWARE_ACTIVATE
Activate ==
  /\ call = "none"
  /\ UNCHANGED <<staging, pfloor, confirmed, running, call>>
  /\ \/ /\ fw.state # "VERIFIED"
        /\ refuse("activate", "INVALID_STATE")
        /\ UNCHANGED pending
     \/ /\ fw.state = "VERIFIED"
        /\ \/ /\ pending' = fw.manifest.version
              /\ fw' = [fw EXCEPT !.state = "PENDING_ACTIVATION", !.failure = "NONE"]
              /\ ret' = <<"activate", "OK">>
           \/ /\ UNCHANGED pending
              /\ fail("activate", "ACTIVATION")

\* Mutant: the reported version is persisted without being compared.
ConfirmBootUnchecked(version) ==
  /\ call = "none"
  /\ UNCHANGED <<staging, pending, confirmed, running, ret>>
  /\ fw.state = "PENDING_ACTIVATION"
  /\ pfloor' = version
  /\ fw' = [fw EXCEPT !.floor = version, !.active = version]
  /\ call' = "confirming"

\* confirm_boot up to the persisted floor: the application reports the version
\* that booted.
ConfirmBoot(version) ==
  /\ call = "none"
  /\ UNCHANGED <<staging, pending, confirmed, running>>
  /\ \/ /\ fw.state # "PENDING_ACTIVATION"
        /\ refuse("confirm_boot", "INVALID_STATE")
        /\ UNCHANGED <<pfloor, call>>
     \/ /\ fw.state = "PENDING_ACTIVATION"
        /\ \/ /\ version # fw.manifest.version
              /\ fail("confirm_boot", "CONFIRMATION")
              /\ UNCHANGED <<pfloor, call>>
           \/ /\ version = fw.manifest.version
              /\ \/ /\ fail("confirm_boot", "CONFIRMATION")
                    /\ UNCHANGED <<pfloor, call>>
                 \/ /\ pfloor' = version
                    /\ fw' = [fw EXCEPT !.floor = version, !.active = version]
                    /\ call' = "confirming"
                    /\ ret' = ret

\* The rest of confirm_boot: complete_pending with confirmed = 1.
ConfirmComplete ==
  /\ call = "confirming"
  /\ call' = "none"
  /\ UNCHANGED <<staging, pfloor, running>>
  /\ \/ /\ pending' = 0 /\ confirmed' = fw.manifest.version
        /\ fw' = [fw EXCEPT !.state = "CONFIRMED", !.failure = "NONE"]
        /\ ret' = <<"confirm_boot", "OK">>
     \/ /\ UNCHANGED <<pending, confirmed>>
        /\ fail("confirm_boot", "CONFIRMATION")

\* report_boot_failure: complete_pending with confirmed = 0.
ReportBootFailure(version) ==
  /\ call = "none"
  /\ UNCHANGED <<staging, pfloor, confirmed, running, call>>
  /\ \/ /\ fw.state # "PENDING_ACTIVATION"
        /\ refuse("report_boot_failure", "INVALID_STATE")
        /\ UNCHANGED pending
     \/ /\ fw.state = "PENDING_ACTIVATION" /\ version # fw.manifest.version
        /\ refuse("report_boot_failure", "INVALID_PAYLOAD")
        /\ UNCHANGED pending
     \/ /\ fw.state = "PENDING_ACTIVATION" /\ version = fw.manifest.version
        /\ \/ /\ pending' = 0
              /\ fw' = [fw EXCEPT !.state = "ROLLED_BACK", !.failure = "NONE"]
              /\ ret' = <<"report_boot_failure", "OK">>
           \/ /\ UNCHANGED pending
              /\ fail("report_boot_failure", "CONFIRMATION")

\* A reset, possibly between the two callbacks of confirm_boot.  RAM is lost;
\* the boot loader starts the pending image or falls back to the confirmed one.
Reset ==
  /\ fw' = lifecycle_init
  /\ running' \in {confirmed} \cup ({pending} \ {0})
  /\ call' = "none"
  /\ ret' = <<"init", "OK">>
  /\ UNCHANGED <<staging, pending, pfloor, confirmed>>

Next ==
  \/ Configure
  \/ \E m \in Manifests : Begin(m)
  \/ \E offset \in 0 .. MaxImageSize, n \in 0 .. MaxChunk + 1 :
       \E data \in [1 .. n -> Blocks] : WriteChunk(offset, data)
  \/ Finalize
  \/ Activate
  \/ \E version \in Versions : ConfirmBoot(version)
  \/ ConfirmComplete
  \/ \E version \in Versions : ReportBootFailure(version)
  \/ Reset

Spec == Init /\ [][Next]_vars

----------------------------------------------------------------------------
(* Properties.                                                             *)

TypeOK ==
  /\ fw \in Lifecycle
  /\ staging \in [Cells -> Blocks \cup {Erased}]
  /\ pending \in Versions /\ pfloor \in Versions
  /\ confirmed \in Versions /\ running \in Versions
  /\ call \in {"none", "confirming"}
  /\ ret \in Operations \X Results

\* The image a manifest was signed for, by a key the production table approves,
\* is the one in the staging area.
StagedAndSigned(m) ==
  /\ staged_digest(m) = m.digest
  /\ \E k \in TrustedKeys :
       /\ k.key_id = m.key_id /\ k.state = "ACTIVE"
       /\ k.provenance = "PRODUCTION_APPROVED" /\ ~k.provenance_digest_zero
       /\ m.signature = [public_key |-> k.public_key, message |-> signed_manifest(m)]

\* While a candidate counts as verified or waits for activation, the staging
\* area holds exactly the image an approved active key signed, whatever
\* restarts, partial erases and partial writes came before (finalize and the
\* handlers that can still reach the staging area).
VerifiedIsSigned ==
  fw.state \in {"VERIFIED", "PENDING_ACTIVATION"} => StagedAndSigned(fw.manifest)

\* A candidate that waits for activation is newer than the persisted floor and
\* than the confirmed image, and its version is the one persisted as pending
\* (minimum_counter, begin, finalize, activate and the resets between them).
CandidateIsNewer ==
  /\ fw.state \in {"VERIFIED", "PENDING_ACTIVATION"} /\ call = "none"
       => fw.manifest.version > pfloor /\ fw.manifest.version > confirmed
  /\ fw.state = "PENDING_ACTIVATION" => pending = fw.manifest.version

\* The lifecycle reports an outcome of a boot only once the platform has it
\* persistently: CONFIRMED means the mark is clear and the floor is the new
\* version, ROLLED_BACK means the mark is clear and the floor is still below
\* the rejected version (confirm_boot, report_boot_failure).
OutcomeIsPersistent ==
  /\ fw.state = "CONFIRMED" =>
       /\ pending = 0
       /\ pfloor = fw.manifest.version /\ confirmed = pfloor
       /\ fw.floor = pfloor /\ fw.active = pfloor
  /\ fw.state = "ROLLED_BACK" => pending = 0 /\ pfloor < fw.manifest.version

\* What the lifecycle claims of an image is true of the platform: a verified one
\* is signed, a waiting one is newer, a reported outcome is persistent.
UpdateSound == VerifiedIsSigned /\ CandidateIsNewer /\ OutcomeIsPersistent

\* The persisted rollback floor only rises, and only to the version that was
\* marked pending after its image had been verified (confirm_boot).
FloorFollowsConfirmation ==
  [][pfloor' # pfloor => pfloor' > pfloor /\ pfloor' = pending]_vars

----------------------------------------------------------------------------
(* Statements of the documentation that the code does not meet.            *)

\* "boot succeeds -> application CONFIRM -> rollback floor advances": a
\* confirmation by the booted candidate is not turned away (confirm_boot).
BootedCandidateCanConfirm ==
  [][/\ fw.configured /\ fw.failure = "NONE" /\ running = pending
     /\ ConfirmBoot(running)
     => ret' # <<"confirm_boot", "INVALID_STATE">>]_vars

\* "M12 rejects or prevents: modified candidate image bytes": what is marked
\* for the next boot is always a complete image an approved key signed with
\* that version (begin after activate).
PendingImageIntact ==
  pending # 0 => \E m \in Manifests : m.version = pending /\ StagedAndSigned(m)

=============================================================================
