\* a program that keeps the built-in constructors
SPECIFICATION FairSpec
CONSTANTS
  Urids = {g, a, p, u1, u2}
  Nil = Nil
  GlobalEnv = g
  ArrayVar = a
  ArrayProto = p
  MaxFrames = 2
  MaxVals = 3
  MaxExternal = 1
  Reassign = FALSE
INVARIANTS NoDangling ListEnds
PROPERTIES SweepExact GcEnds
