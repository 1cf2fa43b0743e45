CONSTANTS
  m1 = m1
  m2 = m2
  c1 = c1
  c2 = c2
  p1 = p1
  p2 = p2
  Devices <- MCDevices
  Callers <- OneCaller
  NoBinding = NoBinding
  Profiles <- MCProfiles
  MacroProfiles <- MCMacroProfiles
  NoProfile = NoProfile
  Factory = Factory
  Draft = Draft
  Partial = Partial
  NoAck = NoAck
  MaxRev = 2
  MaxSwitches = 1
  MaxDrafts = 1
  MaxCrashes = 1
SPECIFICATION Spec
SYMMETRY MiceSymmetry
INVARIANTS SwitchInv AppliedReportMeansOnMouse
PROPERTIES ActivationComplete  HydratedSwitchShown
CONSTRAINT Bound
CHECK_DEADLOCK FALSE
