CONSTANTS
  m1 = m1
  m2 = m2
  low = low
  mid = mid
  high = high
  Devices <- TwoMice
  Values <- MCValues
  Factory = low
  NoBinding = NoBinding
  NoValue = NoValue
  Legacy = Legacy
  MaxRev = 1
  MaxEdits = 2
  MaxOps = 1
SPECIFICATION Spec
INVARIANT PersistsOnlyAcknowledged
