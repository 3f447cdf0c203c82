\* an array in a pool of four items
SPECIFICATION Spec
CONSTANTS
  Urids = {u1, u2, u3, u4}
  Nil = Nil
  Elements = {x, y}
  Undefined = Undefined
  Failed = Failed
  MaxIndex = 3
INVARIANTS ListSound
PROPERTIES ImplementsArray
SYMMETRY Symmetry
