SPECIFICATION Spec
CONSTANTS
  Texts <- MCTexts
  Unsigned = 16777216
INVARIANTS
  TypeOK
  ReadsAsMeant
CHECK_DEADLOCK FALSE
