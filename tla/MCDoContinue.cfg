SPECIFICATION FairSpec
CONSTANT Programs <- DoContinues
INVARIANT Agree
CHECK_DEADLOCK FALSE
