SPECIFICATION Spec
CONSTANTS
  a = a
  b = b
  pkGood = pkGood
  pkLegacy = pkLegacy
  pkRevoked = pkRevoked
  ed25519 = ed25519
  demo_hmac = demo_hmac
  Blocks = {a, b}
  MaxImageSize = 2
  MaxChunk = 2
  MaxVersion = 3
  Algorithms = {ed25519, demo_hmac}
  Ed25519 = ed25519
  RequiredAlgorithm = ed25519
  TrustedKeys <- KeyTable
  Manifests <- HostManifests
  Erased = Erased
  NoManifest = NoManifest
INVARIANT UpdateSound
PROPERTY FloorFollowsConfirmation
