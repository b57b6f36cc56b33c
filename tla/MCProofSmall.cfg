CONSTANTS
  x = x
  y = y
  Blocks <- MCBlocks
  Bindings <- MCBindings
  LoopIds <- MCLoopIds
  Programs <- SmallPrograms
  Certificates <- MCCertificates
SPECIFICATION PipelineSpec
INVARIANTS DataflowMatchesPaths VerdictExact AcceptanceSound RulesKept EmitterMarksRegions
PROPERTY ArtifactDecided
CHECK_DEADLOCK FALSE
