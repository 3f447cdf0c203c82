SPECIFICATION Spec
CONSTANTS
  Symbols = {"x", "y"}
  Literals <- MCLiterals
  Programs <- MCPrograms
  MaxThings = 7
INVARIANTS ListsSound
PROPERTIES ScopesMeant ObjectsMeant LookupEnds
CHECK_DEADLOCK FALSE
