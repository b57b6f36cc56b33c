CONSTANTS
  x = x
  y = y
  Blocks <- LongBlocks
  Bindings <- MCBindings
  LoopIds <- MCLoopIds
  Programs <- TwoObligationPrograms
  Certificates = {}
SPECIFICATION PipelineSpec
INVARIANT EveryRunKeepsTheRules
CHECK_DEADLOCK FALSE
