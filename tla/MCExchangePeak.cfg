\* Three calls, two of them on one database, each tried again once on a new
\* connection where a kept one failed it; one connection of three with a
\* timeout.
CONSTANTS
  c1 = c1  c2 = c2  c3 = c3  k1 = k1  k2 = k2  k3 = k3
  orders = orders  billing = billing
  Calls = {c1, c2, c3}
  Conns = {k1, k2, k3}
  Keys = {orders, billing}
  KeyOf <- TwoKeys
  NoConn = NoConn
  NoKey = NoKey
  Attempts = 2
  Timed = {k1}
SPECIFICATION FairPeakSpec
INVARIANTS NoMoreThanAtOnce HeldByOne OutcomeIsOwn AnswerIsOwn AttemptSettledOnce Inv
PROPERTIES PromiseSpec CallsReturn
