\* programs as they are written, short texts, and the samples of errors
SPECIFICATION Spec
CONSTANTS
  Texts <- MCTexts
  Programs <- MCPrograms
  Refused <- MCRefused
CHECK_DEADLOCK FALSE
INVARIANTS TokensMeant ReadAsWritten NothingLost ErrorsMeant
