SPECIFICATION Spec
CONSTANTS
  Names <- MCNames
  Libraries <- MCLibraries
  FunctionCount <- MCFunctionCount
  Programs <- MCPrograms
  MaxStack = 8
  MaxArrows = 4
INVARIANT LoadsInOrder
INVARIANT CircleExact
INVARIANT ProgramMeant
PROPERTY LinkEnds
CHECK_DEADLOCK FALSE
