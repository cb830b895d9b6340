\* Two calls on one database.
CONSTANTS
  c1 = c1  c2 = c2  c3 = c3  k1 = k1  k2 = k2  k3 = k3
  orders = orders  billing = billing
  Calls = {c1, c2}
  Conns = {k1, k2}
  Keys = {orders}
  KeyOf <- OneKey
  NoConn = NoConn
  NoKey = NoKey
  Attempts = 1
  Timed = {k1, k2}
SPECIFICATION Spec
INVARIANT ClosedWithinTheCall
