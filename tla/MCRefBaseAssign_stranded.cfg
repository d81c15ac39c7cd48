CONSTANTS
  Objs = {o1, o2, o3}
  Ctrs = {c1, c2, c3, c4, c5}
  Null = Null
  MaxSptr = 2
  MaxWptr = 2
  Misuse = {"assign_shared"}
SPECIFICATION Spec
SYMMETRY Symm
INVARIANT NoUseAfterFree
CHECK_DEADLOCK FALSE
