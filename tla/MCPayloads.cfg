\* Every answer and opening of the MC module; those of less than CutWithin bytes
\* also cut off at every byte.
CONSTANTS
  Sayings <- EverySaying
  CutWithin = 250
SPECIFICATION Spec
INVARIANTS TokensAsSaid CutIsTold OpeningAsSaid BatchAsSaid
           ResultArrives LoginArrives
