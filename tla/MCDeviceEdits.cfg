CONSTANTS
  low = low
  high = high
  fire = fire
  v1 = v1
  v2 = v2
  Values <- TwoValues
  Factory = low
  NoValue = NoValue
  Buttons <- OneButton
  Macros <- TwoMacros
  NoMacro = NoMacro
  Unloaded = Unloaded
  Torn = Torn
  MaxEdits = 2
  MaxOps = 3
SPECIFICATION Spec
INVARIANTS ShownIsOnMouse SavedIsShown SavedWereAcknowledged RetryIsApplied ProgressCoversMouse
PROPERTY NewerDraftKept
SYMMETRY MacroSymmetry
CHECK_DEADLOCK FALSE
