CONSTANTS
  none = none
  Nodes <- MCNodes
  Problems <- MCProblems
  SizeLimit = 5
  TargetSize = 2
  NoNode <- none
SPECIFICATION Spec
INVARIANT UniqueIsVerified
CHECK_DEADLOCK FALSE
