---------------------- MODULE FirmwareLifecycle_proofs ----------------------
(* Machine-checked proofs for the firmware lifecycle, for every key table,  *)
(* every set of manifests and every bound.                                  *)
EXTENDS FirmwareLifecycle, TLAPS

\* A manifest whose transfer was started fits the staging area.
ManifestInv ==
  fw.state \in {"RECEIVING", "VERIFIED", "PENDING_ACTIVATION"} =>
    /\ fw.configured
    /\ fw.manifest \in Manifests
    /\ fw.manifest.image_size <= MaxImageSize

\* RAM and persistent policy agree: a configured lifecycle works with the
\* persisted floor and an active version no older than the fall-back image; an
\* unconfigured one runs an image no older than that; a pending image is newer.
PolicyInv ==
  /\ fw.configured => /\ fw.floor = pfloor
                      /\ fw.floor <= fw.active /\ fw.active >= confirmed
  /\ ~fw.configured => running >= confirmed
  /\ pending # 0 => pending > confirmed
  /\ call = "confirming" =>
       /\ fw.state = "PENDING_ACTIVATION"
       /\ pfloor = fw.manifest.version /\ fw.active = pfloor
       /\ fw.manifest.version > confirmed

IInv ==
  /\ TypeOK
  /\ ManifestInv
  /\ PolicyInv
  /\ VerifiedIsSigned
  /\ CandidateIsNewer
  /\ OutcomeIsPersistent

USE FirmwareAssumption

\* The versions are naturals below the bound.
LEMMA VersionsAreNaturals ==
  /\ Versions \subseteq Nat
  /\ 0 \in Versions /\ 1 \in Versions
BY DEF Versions

\* The lifecycle after lifecycle_init is well typed.
LEMMA InitTyped == lifecycle_init \in Lifecycle
BY DEF lifecycle_init, Lifecycle, States, Failures, Versions

\* The initial state satisfies the invariant.
LEMMA InitInv == Init => IInv
BY InitTyped DEF Init, IInv, TypeOK, ManifestInv, PolicyInv, VerifiedIsSigned,
   CandidateIsNewer, OutcomeIsPersistent, lifecycle_init, Versions, Operations, Results, Cells

\* guardian_firmware_fail keeps the record well typed.
LEMMA FailTyped ==
  ASSUME fw \in Lifecycle, NEW op \in Operations, NEW f \in Failures \ {"NONE"},
         fail(op, f)
  PROVE  /\ fw' \in Lifecycle /\ ret' \in Operations \X Results
         /\ fw'.state = "FAILED" /\ fw'.configured = fw.configured
         /\ fw'.active = fw.active /\ fw'.floor = fw.floor
         /\ fw'.manifest = fw.manifest
BY DEF fail, Lifecycle, States, Failures, Results

\* A failing operation that leaves the persistent metadata alone keeps the
\* invariant, whatever it did to the staging area.
LEMMA FailInv ==
  ASSUME IInv, NEW op \in Operations, NEW f \in Failures \ {"NONE"}, fail(op, f),
         call = "none",
         UNCHANGED <<pending, pfloor, confirmed, running, call>>,
         staging' \in [Cells -> Blocks \cup {Erased}]
  PROVE  IInv'
<1>1. fw \in Lifecycle
  BY DEF IInv, TypeOK
<1>2. /\ fw' \in Lifecycle /\ ret' \in Operations \X Results
      /\ fw'.state = "FAILED" /\ fw'.configured = fw.configured
      /\ fw'.active = fw.active /\ fw'.floor = fw.floor
  BY <1>1, FailTyped
<1>3. QED
  BY <1>2 DEF IInv, TypeOK, ManifestInv, PolicyInv, VerifiedIsSigned,
     CandidateIsNewer, OutcomeIsPersistent

\* An operation that is turned away keeps the invariant.
LEMMA RefuseInv ==
  ASSUME IInv, NEW op \in Operations, NEW r \in Results, refuse(op, r),
         UNCHANGED <<platform, call>>
  PROVE  IInv'
BY DEF refuse, IInv, TypeOK, ManifestInv, PolicyInv, VerifiedIsSigned, StagedAndSigned,
   staged_digest, CandidateIsNewer, OutcomeIsPersistent, platform

LEMMA ConfigureInv == ASSUME IInv, Configure PROVE IInv'
<1>1. PICK active \in {confirmed, running} :
        IF pfloor > active
        THEN refuse("configure", "INVALID_PAYLOAD")
        ELSE /\ fw' = [lifecycle_init EXCEPT !.configured = TRUE,
                                             !.active = active, !.floor = pfloor]
             /\ ret' = <<"configure", "OK">>
  BY DEF Configure
<1>2. UNCHANGED <<platform, call>> /\ call = "none" /\ ~fw.configured
  BY DEF Configure
<1>3. CASE pfloor > active
  BY <1>1, <1>2, <1>3, RefuseInv DEF Operations, Results, Failures
<1>4. CASE ~(pfloor > active)
  <2>1. active \in Versions /\ pfloor \in Versions /\ confirmed \in Versions /\ running \in Versions
    BY DEF IInv, TypeOK
  <2>2. fw' = [configured |-> TRUE, state |-> "IDLE", failure |-> "NONE", active |-> active,
               floor |-> pfloor, manifest |-> NoManifest, received |-> 0]
    BY <1>1, <1>4 DEF lifecycle_init
  <2>3. fw' \in Lifecycle
    BY <2>1, <2>2 DEF Lifecycle, States, Failures
  <2>4. TypeOK'
    BY <1>1, <1>2, <1>4, <2>3 DEF IInv, TypeOK, platform, Operations, Results
  <2>5. PolicyInv'
    BY <1>2, <1>4, <2>1, <2>2, VersionsAreNaturals DEF IInv, PolicyInv, platform
  <2>6. QED
    BY <2>2, <2>4, <2>5 DEF IInv, ManifestInv, VerifiedIsSigned, CandidateIsNewer,
       OutcomeIsPersistent
<1>5. QED
  BY <1>3, <1>4

LEMMA BeginInv == ASSUME IInv, NEW m \in Manifests, Begin(m) PROVE IInv'
<1>1. CASE ~decode_manifest(m)
  BY <1>1, RefuseInv DEF Begin, platform, Operations, Results, Failures
<1>2. CASE decode_manifest(m) /\ begin_check(m) # "OK"
  <2>1. begin_check(m) \in Failures \ {"NONE"}
    BY <1>2 DEF begin_check, Failures
  <2>2. staging' \in [Cells -> Blocks \cup {Erased}]
    BY <1>2 DEF Begin, IInv, TypeOK
  <2>3. QED
    BY <1>2, <2>1, <2>2, FailInv DEF Begin, Operations
<1>3. CASE decode_manifest(m) /\ begin_check(m) = "OK"
  <2>1. CASE /\ \E wiped \in SUBSET Cells :
                  staging' = [i \in Cells |-> IF i \in wiped THEN Erased ELSE staging[i]]
             /\ fail("begin", "STORAGE")
    <3>1. staging' \in [Cells -> Blocks \cup {Erased}]
      BY <2>1 DEF IInv, TypeOK
    <3>2. QED
      BY <2>1, <3>1, FailInv DEF Begin, Operations, Failures
  <2>2. CASE /\ staging' = [i \in Cells |-> Erased]
             /\ fw' = [fw EXCEPT !.manifest = m, !.received = 0,
                                 !.failure = "NONE", !.state = "RECEIVING"]
             /\ ret' = <<"begin", "OK">>
    <3>1. fw.configured /\ m.image_size <= MaxImageSize
      BY <1>3 DEF begin_check
    <3>2. /\ fw' \in Lifecycle /\ fw'.state = "RECEIVING" /\ fw'.manifest = m
          /\ fw'.configured = fw.configured
          /\ fw'.active = fw.active /\ fw'.floor = fw.floor
      <4>1. 0 \in 0 .. MaxImageSize /\ m \in Manifests \cup {NoManifest}
        OBVIOUS
      <4>2. "NONE" \in Failures /\ "RECEIVING" \in States
        BY DEF Failures, States
      <4>3. fw \in Lifecycle
        BY DEF IInv, TypeOK
      <4>4. QED
        BY <2>2, <4>1, <4>2, <4>3 DEF Lifecycle
    <3>3. TypeOK'
      BY <2>2, <3>2 DEF Begin, IInv, TypeOK, Operations, Results
    <3>4. PolicyInv'
      BY <3>2 DEF Begin, IInv, PolicyInv
    <3>5. QED
      BY <3>1, <3>2, <3>3, <3>4 DEF IInv, ManifestInv, VerifiedIsSigned,
         CandidateIsNewer, OutcomeIsPersistent
  <2>3. QED
    BY <1>3, <2>1, <2>2 DEF Begin
<1>4. QED
  BY <1>1, <1>2, <1>3

\* The cells after a complete or partial write hold blocks.
LEMMA WrittenTyped ==
  ASSUME staging \in [Cells -> Blocks \cup {Erased}], NEW offset, NEW data,
         NEW n, data \in [1 .. n -> Blocks], NEW taken \in SUBSET DOMAIN data
  PROVE  written(offset, data, taken) \in [Cells -> Blocks \cup {Erased}]
BY DEF written

LEMMA WriteChunkInv ==
  ASSUME IInv, NEW offset \in 0 .. MaxImageSize, NEW n \in 0 .. MaxChunk + 1,
         NEW data \in [1 .. n -> Blocks], WriteChunk(offset, data)
  PROVE  IInv'
<1> USE DEF WriteChunk, decode_chunk
<1>0. Len(data) = n /\ Len(data) \in Nat /\ DOMAIN data = 1 .. n
  OBVIOUS
<1>1. CASE Len(data) \notin 1 .. MaxChunk \/ fw.state # "RECEIVING"
  BY <1>1, RefuseInv DEF platform, Operations, Results, Failures
<1>2. CASE Len(data) \in 1 .. MaxChunk /\ fw.state = "RECEIVING"
  <2>1. CASE chunk_check(offset, data) # "OK"
    <3>1. chunk_check(offset, data) \in Failures \ {"NONE"}
      BY <2>1 DEF chunk_check, Failures
    <3>2. staging' \in [Cells -> Blocks \cup {Erased}]
      BY <1>2, <2>1 DEF IInv, TypeOK
    <3>3. QED
      BY <1>2, <2>1, <3>1, <3>2, FailInv DEF Operations
  <2>2. CASE /\ chunk_check(offset, data) = "OK"
             /\ \E taken \in SUBSET DOMAIN data : staging' = written(offset, data, taken)
             /\ fail("write_chunk", "STORAGE")
    <3>1. staging' \in [Cells -> Blocks \cup {Erased}]
      <4>1. PICK taken \in SUBSET DOMAIN data : staging' = written(offset, data, taken)
        BY <2>2
      <4>2. staging \in [Cells -> Blocks \cup {Erased}]
        BY DEF IInv, TypeOK
      <4>3. QED
        BY <4>1, <4>2, WrittenTyped
    <3>2. QED
      BY <1>2, <2>2, <3>1, FailInv DEF Operations, Failures
  <2>3. CASE /\ chunk_check(offset, data) = "OK"
             /\ staging' = written(offset, data, DOMAIN data)
             /\ fw' = [fw EXCEPT !.received = offset + Len(data)]
             /\ ret' = <<"write_chunk", "OK">>
    <3>1. fw.manifest \in Manifests /\ fw.manifest.image_size <= MaxImageSize /\ fw.configured
      BY <1>2 DEF IInv, ManifestInv
    <3>2. offset + Len(data) <= fw.manifest.image_size
      BY <1>0, <2>3, <3>1 DEF chunk_check
    <3>3. offset + Len(data) \in 0 .. MaxImageSize
      BY <1>0, <3>1, <3>2
    <3>4. /\ fw' \in Lifecycle /\ fw'.state = "RECEIVING" /\ fw'.manifest = fw.manifest
          /\ fw'.configured = fw.configured
          /\ fw'.active = fw.active /\ fw'.floor = fw.floor
      BY <1>2, <2>3, <3>3 DEF IInv, TypeOK, Lifecycle, States
    <3>5. staging' \in [Cells -> Blocks \cup {Erased}]
      BY <1>0, <2>3, WrittenTyped DEF IInv, TypeOK
    <3>6. TypeOK'
      BY <2>3, <3>4, <3>5 DEF IInv, TypeOK, Operations, Results
    <3>7. PolicyInv'
      BY <3>4 DEF IInv, PolicyInv
    <3>8. QED
      BY <3>1, <3>4, <3>6, <3>7 DEF IInv, ManifestInv, VerifiedIsSigned,
         CandidateIsNewer, OutcomeIsPersistent
  <2>4. QED
    BY <1>2, <2>1, <2>2, <2>3
<1>3. QED
  BY <1>1, <1>2

\* What finalize checks is what VerifiedIsSigned says.
LEMMA FinalizeCheckSigned ==
  ASSUME finalize_check = "OK", fw.manifest.version \in Nat,
         fw.floor \in Nat, fw.active \in Nat
  PROVE  /\ StagedAndSigned(fw.manifest)
         /\ fw.manifest.version > fw.floor /\ fw.manifest.version > fw.active
<1>1. /\ staged_digest(fw.manifest) = fw.manifest.digest
      /\ trusted_signature_verify(fw.manifest)
      /\ ~(fw.manifest.version <= minimum_counter)
  BY DEF finalize_check
<1>2. fw.manifest.version > fw.floor /\ fw.manifest.version > fw.active
  BY <1>1 DEF minimum_counter
<1>3. PICK k \in resolve_production(fw.manifest.key_id, Ed25519) :
        ed25519_check(fw.manifest.signature, k.public_key, signed_manifest(fw.manifest))
  BY <1>1 DEF trusted_signature_verify
<1>4. k \in provider_resolve(fw.manifest.key_id, Ed25519)
      /\ k.provenance = "PRODUCTION_APPROVED" /\ ~k.provenance_digest_zero
  BY <1>3 DEF resolve_production
<1>5. k \in TrustedKeys /\ k.key_id = fw.manifest.key_id /\ k.state = "ACTIVE"
  BY <1>4, Zenon DEF provider_resolve
<1>6. QED
  BY <1>1, <1>2, <1>3, <1>4, <1>5 DEF StagedAndSigned, ed25519_check

LEMMA FinalizeInv == ASSUME IInv, Finalize PROVE IInv'
<1> USE DEF Finalize
<1>1. CASE fw.state # "RECEIVING"
  BY <1>1, RefuseInv DEF Operations, Results
<1>2. CASE \E f \in Failures \ {"NONE"} : fail("finalize", f) /\ call = "none"
                                         /\ UNCHANGED <<platform, call>>
  <2>1. staging' \in [Cells -> Blocks \cup {Erased}]
    BY <1>2 DEF IInv, TypeOK, platform
  <2>2. QED
    BY <1>2, <2>1, FailInv DEF Operations, platform
<1>3. CASE /\ fw.state = "RECEIVING"
           /\ finalize_check = "OK"
           /\ fw' = [fw EXCEPT !.state = "VERIFIED", !.failure = "NONE"]
           /\ ret' = <<"finalize", "OK">>
  <2>1. /\ fw.manifest \in Manifests /\ fw.manifest.image_size <= MaxImageSize /\ fw.configured
        /\ fw.floor \in Versions /\ fw.active \in Versions
        /\ fw.floor = pfloor /\ fw.active >= confirmed /\ confirmed \in Versions
    BY <1>3 DEF IInv, ManifestInv, TypeOK, Lifecycle, PolicyInv
  <2>2. fw.manifest.version \in Nat
    BY <2>1
  <2>3. /\ StagedAndSigned(fw.manifest)
        /\ fw.manifest.version > pfloor /\ fw.manifest.version > confirmed
    BY <1>3, <2>1, <2>2, FinalizeCheckSigned, VersionsAreNaturals
  <2>4. /\ fw' \in Lifecycle /\ fw'.state = "VERIFIED" /\ fw'.manifest = fw.manifest
        /\ fw'.configured = fw.configured
        /\ fw'.active = fw.active /\ fw'.floor = fw.floor
    BY <1>3 DEF IInv, TypeOK, Lifecycle, States, Failures
  <2>5. TypeOK'
    BY <1>3, <2>4 DEF IInv, TypeOK, Operations, Results, platform
  <2>6. PolicyInv'
    BY <2>4 DEF IInv, PolicyInv, platform
  <2>7. VerifiedIsSigned'
    BY <2>3, <2>4 DEF VerifiedIsSigned, StagedAndSigned, staged_digest, signed_manifest, platform
  <2>8. QED
    BY <2>1, <2>3, <2>4, <2>5, <2>6, <2>7 DEF IInv, ManifestInv,
       CandidateIsNewer, OutcomeIsPersistent, platform
<1>4. CASE /\ fw.state = "RECEIVING"
           /\ finalize_check # "OK" /\ fail("finalize", finalize_check)
  <2>1. finalize_check \in Failures \ {"NONE"}
    BY <1>4 DEF finalize_check, Failures
  <2>2. QED
    BY <1>2, <1>4, <2>1
<1>5. CASE fail("finalize", "STORAGE") \/ fail("finalize", "INVALID_PAYLOAD")
  BY <1>2, <1>5 DEF Failures
<1>6. QED
  BY <1>1, <1>3, <1>4, <1>5

LEMMA ActivateInv == ASSUME IInv, Activate PROVE IInv'
<1> USE DEF Activate
<1>1. CASE fw.state # "VERIFIED"
  BY <1>1, RefuseInv DEF Operations, Results, platform
<1>2. CASE fail("activate", "ACTIVATION") /\ UNCHANGED pending
  <2>1. staging' \in [Cells -> Blocks \cup {Erased}]
    BY DEF IInv, TypeOK
  <2>2. QED
    BY <1>2, <2>1, FailInv DEF Operations, Failures
<1>3. CASE /\ fw.state = "VERIFIED"
           /\ pending' = fw.manifest.version
           /\ fw' = [fw EXCEPT !.state = "PENDING_ACTIVATION", !.failure = "NONE"]
           /\ ret' = <<"activate", "OK">>
  <2>1. /\ fw' \in Lifecycle /\ fw'.state = "PENDING_ACTIVATION" /\ fw'.manifest = fw.manifest
        /\ fw'.configured = fw.configured
        /\ fw'.active = fw.active /\ fw'.floor = fw.floor
    BY <1>3 DEF IInv, TypeOK, Lifecycle, States, Failures
  <2>2. /\ fw.manifest \in Manifests /\ fw.manifest.image_size <= MaxImageSize /\ fw.configured
        /\ fw.manifest.version > pfloor /\ fw.manifest.version > confirmed
        /\ fw.manifest.version \in Versions
    BY <1>3 DEF IInv, ManifestInv, CandidateIsNewer, Versions
  <2>3. TypeOK'
    BY <1>3, <2>1, <2>2 DEF IInv, TypeOK, Operations, Results
  <2>4. PolicyInv'
    BY <1>3, <2>1, <2>2 DEF IInv, PolicyInv
  <2>5. VerifiedIsSigned'
    BY <1>3, <2>1, ZenonT(40) DEF IInv, VerifiedIsSigned, StagedAndSigned, staged_digest, signed_manifest
  <2>6. QED
    BY <1>3, <2>1, <2>2, <2>3, <2>4, <2>5 DEF IInv, ManifestInv,
       CandidateIsNewer, OutcomeIsPersistent
<1>4. QED
  BY <1>1, <1>2, <1>3

LEMMA ConfirmBootInv ==
  ASSUME IInv, NEW version \in Versions, ConfirmBoot(version) PROVE IInv'
<1> USE DEF ConfirmBoot
<1>1. CASE fw.state # "PENDING_ACTIVATION"
  BY <1>1, RefuseInv DEF Operations, Results, platform
<1>2. CASE fail("confirm_boot", "CONFIRMATION") /\ UNCHANGED <<pfloor, call>>
  <2>1. staging' \in [Cells -> Blocks \cup {Erased}]
    BY DEF IInv, TypeOK
  <2>2. QED
    BY <1>2, <2>1, FailInv DEF Operations, Failures
<1>3. CASE /\ fw.state = "PENDING_ACTIVATION" /\ version = fw.manifest.version
           /\ pfloor' = version
           /\ fw' = [fw EXCEPT !.floor = version, !.active = version]
           /\ call' = "confirming" /\ ret' = ret
  <2>1. /\ fw' \in Lifecycle /\ fw'.state = "PENDING_ACTIVATION" /\ fw'.manifest = fw.manifest
        /\ fw'.configured = fw.configured
        /\ fw'.active = version /\ fw'.floor = version
    BY <1>3 DEF IInv, TypeOK, Lifecycle
  <2>2. /\ fw.manifest \in Manifests /\ fw.manifest.image_size <= MaxImageSize /\ fw.configured
        /\ fw.manifest.version > confirmed /\ pending = version
    BY <1>3 DEF IInv, ManifestInv, CandidateIsNewer
  <2>3. TypeOK'
    BY <1>3, <2>1 DEF IInv, TypeOK
  <2>4. PolicyInv'
    BY <1>3, <2>1, <2>2, VersionsAreNaturals DEF IInv, PolicyInv, TypeOK
  <2>5. VerifiedIsSigned'
    BY <1>3, <2>1, ZenonT(40) DEF IInv, VerifiedIsSigned, StagedAndSigned, staged_digest, signed_manifest
  <2>6. QED
    BY <1>3, <2>1, <2>2, <2>3, <2>4, <2>5 DEF IInv, ManifestInv,
       CandidateIsNewer, OutcomeIsPersistent
<1>4. QED
  BY <1>1, <1>2, <1>3

LEMMA ConfirmCompleteInv == ASSUME IInv, ConfirmComplete PROVE IInv'
<1> USE DEF ConfirmComplete
<1>1. /\ fw.state = "PENDING_ACTIVATION" /\ fw \in Lifecycle
      /\ pfloor = fw.manifest.version /\ fw.active = pfloor /\ fw.floor = pfloor
      /\ fw.configured /\ fw.manifest.version > confirmed
      /\ pfloor \in Versions
  BY DEF IInv, PolicyInv, ManifestInv, TypeOK
<1>2. CASE /\ pending' = 0 /\ confirmed' = fw.manifest.version
           /\ fw' = [fw EXCEPT !.state = "CONFIRMED", !.failure = "NONE"]
           /\ ret' = <<"confirm_boot", "OK">>
  <2>1. /\ fw' \in Lifecycle /\ fw'.state = "CONFIRMED" /\ fw'.manifest = fw.manifest
        /\ fw'.configured = fw.configured
        /\ fw'.active = fw.active /\ fw'.floor = fw.floor
    BY <1>1, <1>2 DEF Lifecycle, States, Failures
  <2>2. TypeOK'
    BY <1>1, <1>2, <2>1, VersionsAreNaturals DEF IInv, TypeOK, Operations, Results
  <2>3. PolicyInv'
    BY <1>1, <1>2, <2>1, VersionsAreNaturals DEF IInv, PolicyInv
  <2>4. QED
    BY <1>1, <1>2, <2>1, <2>2, <2>3 DEF IInv, ManifestInv, VerifiedIsSigned,
       CandidateIsNewer, OutcomeIsPersistent
<1>3. CASE UNCHANGED <<pending, confirmed>> /\ fail("confirm_boot", "CONFIRMATION")
  <2>1. /\ fw' \in Lifecycle /\ ret' \in Operations \X Results
        /\ fw'.state = "FAILED" /\ fw'.configured = fw.configured
        /\ fw'.active = fw.active /\ fw'.floor = fw.floor
    BY <1>1, <1>3, FailTyped DEF Operations, Failures
  <2>2. TypeOK'
    BY <1>3, <2>1 DEF IInv, TypeOK
  <2>3. PolicyInv'
    BY <1>1, <1>3, <2>1, VersionsAreNaturals DEF IInv, PolicyInv
  <2>4. QED
    BY <2>1, <2>2, <2>3 DEF IInv, ManifestInv, VerifiedIsSigned,
       CandidateIsNewer, OutcomeIsPersistent
<1>4. QED
  BY <1>2, <1>3

LEMMA ReportBootFailureInv ==
  ASSUME IInv, NEW version \in Versions, ReportBootFailure(version) PROVE IInv'
<1> USE DEF ReportBootFailure
<1>1. CASE refuse("report_boot_failure", "INVALID_STATE") /\ UNCHANGED pending
  BY <1>1, RefuseInv DEF Operations, Results, platform
<1>2. CASE refuse("report_boot_failure", "INVALID_PAYLOAD") /\ UNCHANGED pending
  BY <1>2, RefuseInv DEF Operations, Results, Failures, platform
<1>3. CASE fail("report_boot_failure", "CONFIRMATION") /\ UNCHANGED pending
  <2>1. staging' \in [Cells -> Blocks \cup {Erased}]
    BY DEF IInv, TypeOK
  <2>2. QED
    BY <1>3, <2>1, FailInv DEF Operations, Failures
<1>4. CASE /\ fw.state = "PENDING_ACTIVATION"
           /\ pending' = 0
           /\ fw' = [fw EXCEPT !.state = "ROLLED_BACK", !.failure = "NONE"]
           /\ ret' = <<"report_boot_failure", "OK">>
  <2>1. /\ fw' \in Lifecycle /\ fw'.state = "ROLLED_BACK" /\ fw'.manifest = fw.manifest
        /\ fw'.configured = fw.configured
        /\ fw'.active = fw.active /\ fw'.floor = fw.floor
    BY <1>4 DEF IInv, TypeOK, Lifecycle, States, Failures
  <2>2. fw.manifest.version > pfloor /\ fw.manifest \in Manifests /\ fw.configured
    BY <1>4 DEF IInv, CandidateIsNewer, ManifestInv
  <2>3. TypeOK'
    BY <1>4, <2>1, VersionsAreNaturals DEF IInv, TypeOK, Operations, Results
  <2>4. PolicyInv'
    BY <1>4, <2>1, <2>2 DEF IInv, PolicyInv
  <2>5. pfloor < fw.manifest.version
    BY <2>2, VersionsAreNaturals DEF IInv, TypeOK
  <2>6. QED
    BY <1>4, <2>1, <2>2, <2>3, <2>4, <2>5 DEF IInv, ManifestInv, VerifiedIsSigned,
       CandidateIsNewer, OutcomeIsPersistent
<1>5. QED
  BY <1>1, <1>2, <1>3, <1>4

LEMMA ResetInv == ASSUME IInv, Reset PROVE IInv'
<1>1. /\ fw' = lifecycle_init /\ fw' \in Lifecycle /\ ~fw'.configured /\ fw'.state = "IDLE"
  BY InitTyped DEF Reset, lifecycle_init
<1>2. TypeOK'
  BY <1>1 DEF IInv, TypeOK, Reset, Operations, Results
<1>3. running' >= confirmed'
  BY VersionsAreNaturals DEF IInv, TypeOK, PolicyInv, Reset
<1>4. QED
  BY <1>1, <1>2, <1>3 DEF IInv, PolicyInv, ManifestInv, VerifiedIsSigned,
     CandidateIsNewer, OutcomeIsPersistent, Reset

\* Every step keeps the invariant.
LEMMA NextInv == IInv /\ [Next]_vars => IInv'
<1> SUFFICES ASSUME IInv, [Next]_vars PROVE IInv'
  OBVIOUS
<1>1. CASE UNCHANGED vars
  BY <1>1 DEF vars, IInv, TypeOK, ManifestInv, PolicyInv, VerifiedIsSigned,
     StagedAndSigned, staged_digest, signed_manifest, CandidateIsNewer, OutcomeIsPersistent
<1>2. CASE \E m \in Manifests : Begin(m)
  BY <1>2, BeginInv
<1>3. CASE \E offset \in 0 .. MaxImageSize, n \in 0 .. MaxChunk + 1 :
             \E data \in [1 .. n -> Blocks] : WriteChunk(offset, data)
  BY <1>3, WriteChunkInv
<1>4. CASE \E version \in Versions : ConfirmBoot(version)
  BY <1>4, ConfirmBootInv
<1>5. CASE \E version \in Versions : ReportBootFailure(version)
  BY <1>5, ReportBootFailureInv
<1>6. QED
  BY <1>1, <1>2, <1>3, <1>4, <1>5, ConfigureInv, FinalizeInv, ActivateInv,
     ConfirmCompleteInv, ResetInv DEF Next

\* The inductive invariant: RAM policy agrees with the persisted one, started
\* manifests fit, and the three safety invariants hold with them.
THEOREM LifecycleInvariant == Spec => []IInv
<1>1. Init => IInv
  BY InitInv
<1>2. IInv /\ [Next]_vars => IInv'
  BY NextInv
<1>3. QED
  BY <1>1, <1>2, PTL DEF Spec

\* The lifecycle and the platform state keep their types.
THEOREM LifecycleTypeCorrect == Spec => []TypeOK
<1>1. IInv => TypeOK
  BY DEF IInv
<1>2. QED
  BY <1>1, LifecycleInvariant, PTL

\* No candidate is verified or pending unless the staging area holds exactly the
\* image an approved active key signed (finalize).
THEOREM OnlySignedImages == Spec => []VerifiedIsSigned
<1>1. IInv => VerifiedIsSigned
  BY DEF IInv
<1>2. QED
  BY <1>1, LifecycleInvariant, PTL

\* No candidate at or below the persisted floor or the confirmed version is ever
\* verified or pending, across resets and failed confirmations (minimum_counter).
THEOREM OnlyNewerImages == Spec => []CandidateIsNewer
<1>1. IInv => CandidateIsNewer
  BY DEF IInv
<1>2. QED
  BY <1>1, LifecycleInvariant, PTL

\* A reported boot outcome is the persistent one (confirm_boot,
\* report_boot_failure).
THEOREM ReportedOutcomes == Spec => []OutcomeIsPersistent
<1>1. IInv => OutcomeIsPersistent
  BY DEF IInv
<1>2. QED
  BY <1>1, LifecycleInvariant, PTL

\* The persisted floor rises only, and only to the pending version
\* (confirm_boot).
THEOREM FloorRises == Spec => FloorFollowsConfirmation
<1>1. IInv /\ [Next]_vars => [pfloor' # pfloor => pfloor' > pfloor /\ pfloor' = pending]_vars
  <2> SUFFICES ASSUME IInv, Next, pfloor' # pfloor
               PROVE  pfloor' > pfloor /\ pfloor' = pending
    OBVIOUS
  <2>1. PICK version \in Versions : ConfirmBoot(version)
    BY DEF Next, Configure, Begin, WriteChunk, Finalize, Activate, ConfirmComplete,
       ReportBootFailure, Reset, platform
  <2>2. /\ fw.state = "PENDING_ACTIVATION" /\ version = fw.manifest.version
        /\ pfloor' = version /\ call = "none"
    BY <2>1 DEF ConfirmBoot
  <2>3. QED
    BY <2>2 DEF IInv, CandidateIsNewer
<1>2. QED
  BY <1>1, LifecycleInvariant, PTL DEF Spec, FloorFollowsConfirmation

\* Verified, waiting and reported images are what the lifecycle says of them
\* (finalize, activate, confirm_boot, report_boot_failure).
THEOREM UpdatesAreSound == Spec => []UpdateSound
<1>1. IInv => UpdateSound
  BY DEF IInv, UpdateSound
<1>2. QED
  BY <1>1, LifecycleInvariant, PTL

=============================================================================
