SPECIFICATION Spec
CONSTANTS
  Calls = {w1, w2, w3}
  Reads = {r1}
  Original = original
  Link = link
  MaxCrashes = 1
INVARIANTS
  TypeOK
  ReadsAreWhole
  ReportedWritesSurvive
  NothingLeftBehind
SYMMETRY CallSymmetry
CHECK_DEADLOCK FALSE
