----------------------- MODULE MC_FirmwareLifecycle ------------------------
(* A small release history: two good releases, one of an old version, and   *)
(* manifests that differ from a good one in a single respect.               *)
EXTENDS FirmwareLifecycle

CONSTANTS a, b, pkGood, pkLegacy, pkRevoked, ed25519, demo_hmac

Row(id, state, provenance, pk) ==
  [key_id |-> id, algorithm |-> ed25519, state |-> state,
   provenance |-> provenance, provenance_digest_zero |-> FALSE, public_key |-> pk]

\* One usable key, a legacy row like the one in the source, a revoked key that
\* had been approved, and an ambiguous pair.
KeyTable ==
  {Row(1, "ACTIVE", "PRODUCTION_APPROVED", pkGood),
   Row(2, "ACTIVE", "LEGACY_UNVERIFIED", pkLegacy),
   Row(3, "REVOKED", "PRODUCTION_APPROVED", pkRevoked),
   Row(4, "ACTIVE", "PRODUCTION_APPROVED", pkGood),
   Row(4, "ACTIVE", "PRODUCTION_APPROVED", pkRevoked)}

Unsigned(alg, id, version, size, image) ==
  [algorithm |-> alg, key_id |-> id, version |-> version,
   image_size |-> size, digest |-> image]

Signed(alg, id, version, size, image, pk) ==
  LET u == Unsigned(alg, id, version, size, image)
  IN  [algorithm |-> alg, key_id |-> id, version |-> version, image_size |-> size,
       digest |-> image, signature |-> [public_key |-> pk, message |-> u]]

HostManifests ==
  LET good2 == Signed(ed25519, 1, 2, 2, <<a, b>>, pkGood)
      good3 == Signed(ed25519, 1, 3, 1, <<b>>, pkGood)
  IN  {good2, good3,
       Signed(ed25519, 1, 1, 1, <<a>>, pkGood),           \* old release
       Signed(ed25519, 1, 0, 1, <<a>>, pkGood),           \* zero counter
       [good2 EXCEPT !.version = 3],                      \* altered after signing
       Signed(ed25519, 2, 3, 1, <<a>>, pkLegacy),
       Signed(ed25519, 3, 3, 1, <<a>>, pkRevoked),
       Signed(ed25519, 4, 3, 1, <<a>>, pkGood),
       Signed(demo_hmac, 1, 3, 1, <<a>>, pkGood),
       Signed(ed25519, 1, 3, 3, <<a, b, a>>, pkGood)}     \* too large

=============================================================================
