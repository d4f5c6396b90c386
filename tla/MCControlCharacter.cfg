\* The control characters, one by one.
SPECIFICATION Spec
CONSTANTS
  Strings <- ControlStrings
  Texts <- NoTexts
  MaxChunks = 0
  MaxNumber = 0
INVARIANTS
  NoControlCharacter
CHECK_DEADLOCK FALSE
