SPECIFICATION Spec
CONSTANTS
  Ids = {i1, i2}
  Self = i1
  Epochs = {0, 1}
  MaxSeq = 3
  MaxGen = 3
  MaxGap = 2
  NoRec = NoRec
INVARIANT NoReplayAfterReset
INVARIANT DurableState
PROPERTY ImplementsGuard
