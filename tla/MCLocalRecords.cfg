CONSTANTS
  m1 = m1
  m2 = m2
  plain = plain
  old = old
  new = new
  shelf0 = shelf0
  shelf1 = shelf1
  Mice <- TwoMice
  Values <- ThreeValues
  Default = plain
  LegacyDpi = old
  Wrapped = Wrapped
  NoMouse = NoMouse
  Libraries <- TwoLibraries
  EmptyLibrary = shelf0
  MaxSaves = 3
  MaxCrashes = 1
SPECIFICATION Spec
INVARIANTS RestartReadsSaved BackupFirst
SYMMETRY MouseSymmetry
CHECK_DEADLOCK FALSE
