\* 7 keys.
CONSTANTS
  Key <- MCKey7
  FirstVal = v1
  SecondVal = v2
  Val = {v1}
SPECIFICATION Spec
CHECK_DEADLOCK FALSE
INVARIANT
  NeverCrashes
