\* A client, with and without a timeout, that runs up to two batches, its
\* holder dropping it after a query that failed.
CONSTANTS
  Logins <- OneLogin
  MaxBatches = 2
  Verbs <- OneVerb
  ClientTimeouts = {TRUE, FALSE}
  DropsAfterError = TRUE
  PreloginAnswers <- EveryPrelogin
  TokenStreams <- UpToTwoTokens
SPECIFICATION FairSpec
INVARIANTS TrustedStepByStep OutcomeIsWhatWasSaid
PROPERTY SilenceEnds
