CONSTANTS
  MaxAwaited = 4
  MaxCount = 5
SPECIFICATION Spec
INVARIANTS TypeOK RememberedIsCounted OwedIsCounted ExactIsNamed
