SPECIFICATION Spec
CONSTANTS
    Texts <- MCTexts
    Broken <- MCBroken
    Missing = Missing
    Configs <- MCConfigs
    AlwaysDiag <- MCAlwaysDiag
    Refused <- MCRefused
    NoKey = NoKey
    NoAnswer = NoAnswer
    Failed = Failed
    MaxCalls = 2
    MaxEdits = 2
    MaxConfigs = 1
INVARIANT CodegenKeepsConfig
CHECK_DEADLOCK FALSE
