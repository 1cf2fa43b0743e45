CONSTANTS
  m1 = m1
  m2 = m2
  low = low
  mid = mid
  high = high
  Devices <- OneMouse
  Values <- MCValues
  Factory = low
  NoBinding = NoBinding
  NoValue = NoValue
  Legacy = Legacy
  MaxRev = 2
  MaxEdits = 2
  MaxOps = 3
SPECIFICATION Spec
INVARIANTS PollingSuccessTruthful PersistsOnlyAcknowledged
PROPERTY AppliedFollowsAck
