SPECIFICATION AcquisitionSpec
CONSTANTS
  Wrap = 4
  Modulus = 12
  StaleMs = 2
  Latency = 1
  LateEvents = FALSE
  MaxTime = 16
  Laps = 1
  MaxBlocks = 5
  MaxFaults = 2
  Boards <- MCBoards
  BaudRates = {115200, 9600, 1000000}
  UPTIME_MAX = 2
  FFT_SIZE = 8
  Prime = 7
  TWIDDLE <- MCTwiddle
  Vectors <- MCVectors
  Blocks <- MCBlocks
  Spectra <- MCSpectra
  Calibration <- MCCalibration
  SAMPLE_RATE_HZ = 4000
  MaxPublished = 2
INVARIANT SpeedSound
INVARIANT StreamSound
INVARIANT ClocksAsChecked
INVARIANT SpectrumIsDft
INVARIANT FeaturesSound
PROPERTY BlocksAccounted
PROPERTY RecordedStopIsRepaired
CHECK_DEADLOCK FALSE
