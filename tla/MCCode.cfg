SPECIFICATION Spec
CONSTANT Programs <- AllPrograms
INVARIANT LoadedSound
INVARIANT FileMeant
PROPERTY RunsAsMeant
CHECK_DEADLOCK FALSE
