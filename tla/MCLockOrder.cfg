CONSTANTS
  c1 = c1
  c2 = c2
  c3 = c3
  Callers <- ThreeCallers
  NoCaller = NoCaller
SPECIFICATION Spec
INVARIANT NoCircularWait
SYMMETRY CallerSymmetry
CHECK_DEADLOCK FALSE
