\* 8 keys.
CONSTANTS
  Key <- MCKey8
  FirstVal = v1
  SecondVal = v2
  Val = {v1}
SPECIFICATION Spec
CHECK_DEADLOCK FALSE
PROPERTY
  ShallowRemoveKeepsBalance
