SPECIFICATION FairSpec
CONSTANTS
  Programs <- MCPrograms
INVARIANTS LayoutSound Agree ValuesMeant
PROPERTIES KeepsGoing KeepsMeaning
CHECK_DEADLOCK FALSE
