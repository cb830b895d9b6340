\* Every Location; two receives at once, a row without a name beside one with,
\* one change by the producer, one death of the node.
CONSTANTS
  r1 = r1  r2 = r2  p1 = p1  p2 = p2  b1 = b1  b2 = b2
  Rows = {r1, r2}
  Named = {r1}
  Bodies = {b1, b2}
  Absent = Absent
  Receives = {p1, p2}
  Query = Query
  Locations <- EveryLocation
  MaxEdits = 1
  MaxCrashes = 1
SPECIFICATION Spec
SYMMETRY Symmetry
INVARIANTS Inv ConsumedIsXmips AtMostOnce
