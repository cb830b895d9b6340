\* Each end with and without a timeout, a holder that drops a client whose query
\* failed.
CONSTANTS
  Logins <- TwoLogins
  MaxBatches = 3
  Verbs <- SomeVerbs
  ClientTimeouts = {TRUE, FALSE}
  DropsAfterError = TRUE
  Demands <- RightOrAnyone
  Anyone = Anyone
  SessionTimeouts = {TRUE, FALSE}
  Holders = {"any", "take one"}
SPECIFICATION FairSpec
INVARIANTS EveryAnswerIsOwn OneMessageUnderWay LoggedInTogether RefusalIsTold TakenIsTold
PROPERTY ClientIsServed
