\* Up to four messages, in any order and ahead of any answer, with and without
\* a timeout.
CONSTANTS
  Logins <- TwoLogins
  Verbs <- TwoVerbs
  MaxSent = 4
  Demands <- RightOrAnyone
  Anyone = Anyone
  SessionTimeouts = {TRUE, FALSE}
  Holders = {"any", "take one"}
SPECIFICATION FairSpec
INVARIANTS AnswersOnlyTheLoggedIn ReportedIsAnswered AnswersWhatWasSent TakesTheFirst
PROPERTY GoneWithTheClient
