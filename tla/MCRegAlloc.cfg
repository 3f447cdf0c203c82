SPECIFICATION Spec
CONSTANTS
  MaxItems = 3
  Width = 3
  Codes <- MCCodes
INVARIANTS ReadsOwn CountsSuffice
CHECK_DEADLOCK FALSE
