SPECIFICATION NodeSpec
CONSTANTS
  MinSamples = 1
  MaxSamples = 2
  SampleRates = {1, 2}
  WarningStreak = 3
  AlarmStreak = 2
  RecoveryStreak = 5
  StreakCap = 5
  None = None
  MAX_PAYLOAD_SIZE = 256
  UINT32_MAX = 3
  NO_REF = NO_REF
  HEARTBEAT_MS = 1
  MaxGap = 1
  MissedLimit = 2
  SenderStates = {2}
  Epochs = {1}
  SelfNodes <- MCSelfNodes
  KeyStates = {"VERIFIED", "KEY_REVOKED"}
  CompatStates = {"COMPATIBLE", "INCOMPATIBLE"}
  RecordStatus = {"VALID_PERSISTED_STATE", "CORRUPTED_STATE"}
  Flips <- MCFlips
  MaxNodeRestarts = 1
  MaxSent = 3
INVARIANT OutputJustified
INVARIANT PathSound
PROPERTY LatchesHold
PROPERTY SafeOffInTheEnd
PROPERTY HoldReleasedByNews
PROPERTY SilentPeerHeld
