\* A value as long as the length that stands for null.
CONSTANTS
  Sayings <- NullLength
  CutWithin = 250
SPECIFICATION Spec
INVARIANTS OnlyNullsAreNull
