SPECIFICATION Spec
CONSTANTS
  Children = {c1, c2, c3}
  Windows = {1, 2}
  NoChild = NoChild
  ChildLength = 5
  WindowLength = 5
  BothLength = 3
  Traces <- MCTraces
SYMMETRY ChildSymmetry
INVARIANTS TypeOK StartsAnswered OverlapIsMisdirected GradeIsHistory
CHECK_DEADLOCK FALSE
