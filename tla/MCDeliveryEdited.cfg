\* A producer that changes a row between the query and its verdict.
CONSTANTS
  r1 = r1  r2 = r2  p1 = p1  p2 = p2  b1 = b1  b2 = b2
  Rows = {r1}
  Named = {r1}
  Bodies = {b1, b2}
  Absent = Absent
  Receives = {p1}
  Query = Query
  Locations <- Telling
  MaxEdits = 1
  MaxCrashes = 0
SPECIFICATION Spec
INVARIANT StreamIsTheRow
