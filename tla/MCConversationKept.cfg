\* A timeout, and a holder that goes on with a client whose query failed.
CONSTANTS
  Logins <- TwoLogins
  MaxBatches = 3
  Verbs <- SomeVerbs
  ClientTimeouts = {TRUE}
  DropsAfterError = FALSE
  Demands <- RightOrAnyone
  Anyone = Anyone
  SessionTimeouts = {TRUE}
  Holders = {"any"}
SPECIFICATION Spec
INVARIANT NothingLeftForTheNext
