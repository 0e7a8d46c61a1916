SPECIFICATION Spec
CONSTANTS
  p1 = p1
  p2 = p2
  w1 = w1
  w2 = w2
  w3 = w3
  Procs = {p1, p2}
  Writes = {w1, w2, w3}
  NoFile = NoFile
  CutShort = CutShort
  Overlapping = {"write"}
  FailingSteps <- NoStep
SYMMETRY CallAndWriteSymmetry
INVARIANT AckedRecoverable
