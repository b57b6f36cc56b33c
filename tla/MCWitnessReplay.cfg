SPECIFICATION Spec
CONSTANTS
  Texts <- MCTexts
  Program <- MCProgram
  Settings <- MCSettings
  MaxCount = 3
  Edits <- MCEdits
  MaxEdits = 2
  NoText = NoText
INVARIANTS TypeOK WhatReplays ExactSameProgram ExactVouchesText
CHECK_DEADLOCK FALSE
