SPECIFICATION NetworkSpec
CONSTANTS
  SAMPLE_COUNT_MAX = 2
  Samples <- MCSamples
  Windows <- MCWindows
  MeasurementSelf <- MeasurementNode
  ComputeSelf <- ComputeNode
  MeasurementPolicy <- MCMeasurementPolicy
  ComputePolicy <- MCComputePolicy
  MAX_SUBJECTS = 2
  WitnessSelf <- WitnessNode
  Producers <- MCProducers
  Classes <- MCClasses
  MaxSequence = 2
  MaxLives = 2
  MaxEnvelopes = 3
  MaxRestarts = 1
  MaxRevoked = 1
  Round <- MCRound
  Reports <- MCReports
  MaxRoundClock = 2
  Candidates <- MCCandidates
  Config <- MCConfig
  Registries <- MCRegistries
  Wires <- MCWires
  LocalRefs <- MCLocalRefs
  Times = {0, 1, 2}
  REVISION_MAX = 4
  Torn = Torn
INVARIANT OneActuator
INVARIANT ObservationsInOrder
INVARIANT FusionSaysWhatWindowsSay
INVARIANT EvidenceSound
INVARIANT ReviewMeansAgreement
INVARIANT IngressSound
PROPERTY ConflictIsFinal
PROPERTY DurableIsJustified
CHECK_DEADLOCK FALSE
