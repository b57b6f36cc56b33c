SPECIFICATION Spec
CONSTANTS
  StorageLength = 6
  NetworkLength = 5
  EffectLength = 5
  BoundaryLength = 3
  MixedLength = 5
  Bindings <- MCBindings
  Shapes <- MCShapes
INVARIANTS TypeOK LossVerdict MatchedPassClosesAll AgreementIsOrder VerdictConfirmed ExactHasEvidence
PROPERTY FailureKept
CHECK_DEADLOCK FALSE
