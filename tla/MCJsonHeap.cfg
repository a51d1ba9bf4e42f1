CONSTANTS
  Thread = {t1, t2}
  Addr = {a1, a2, a3}
  Key = {1}
  Scalar = Scalar
  Free = Free
  MaxCount = 2
  MaxItems = 2
  MaxLost = 1
SPECIFICATION Spec
CHECK_DEADLOCK FALSE
SYMMETRY Symmetry
INVARIANTS
  CountsExact
  DisposedOnce
  NothingLeaks
