\* Seven keys: every shape up to height four, unbalanced trees and the crash are reached; the
\* second value, to overwrite with, in the trees over the first four.
CONSTANTS
  Key <- MCKey7
  FirstVal = v1
  SecondVal = v2
  Val = {v1, v2}
SPECIFICATION Spec
CONSTRAINT SecondInSmall
CHECK_DEADLOCK FALSE
INVARIANTS
  VisitsInOrder
PROPERTIES
  PutKeepsBalance
  RemoveKeepsBalance
  BalancedNeverCrashes
  ImplementsDictionary
