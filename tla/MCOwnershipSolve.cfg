CONSTANTS
  none = none
  Nodes <- MCNodes
  Problems <- MCProblems
  SizeLimit = 5
  TargetSize = 2
  NoNode <- none
SPECIFICATION Spec
INVARIANTS BudgetIsEnough SearchIsVain VerifiedUnlessCut NoSolutionIsHonest
PROPERTY SolvesLeast
CHECK_DEADLOCK FALSE
